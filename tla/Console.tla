------------------------------- MODULE Console -------------------------------
(***************************************************************************)
(* What becomes of an event after the proxy has emitted it: the bounded    *)
(* core channel, the fan-out task that records it and passes it on, the    *)
(* interface that shows it, and the shutdown that saves the session        *)
(* (proxelar-cli main.rs and interface/, proxyapi session.rs, app.js).     *)
(*                                                                         *)
(* A flow emits a fixed script of events of its kind.  An event says which *)
(* flow, of which kind, and what happened; payloads, rendering, exports    *)
(* and authentication are left out.  What deciding a held request does to  *)
(* the request is in Intercept; here it only lets its flow go on.          *)
(***************************************************************************)
EXTENDS Naturals, Sequences, SequencesExt, FiniteSets

CONSTANTS
    Flow,        \* flows of the run
    Setup,       \* the interfaces and the kinds of the flows they are run with
    CoreCap,     \* EVENT_CHANNEL_CAPACITY of the core channel
    UiCap,       \* ... and of the interface's
    BusCap,      \* capacity of the browser broadcast
    MaxRows,     \* MAX_ENTRIES of the TUI, MAX_REQUESTS of the page
    MaxChars,    \* bound: characters in the editor
    MaxGen       \* bound: how often the page's filter is changed

Kind == {"http", "ws", "tcp", "dns", "udp", "error"}

ASSUME SetupAssumption ==
    Setup \subseteq [iface : {"tui", "web", "terminal"}, kind : [Flow -> Kind]]
ASSUME CapAssumption == {CoreCap, UiCap, BusCap, MaxRows} \subseteq Nat \ {0}
ASSUME BoundAssumption == {MaxChars, MaxGen} \subseteq Nat
ASSUME FlowAssumption == 0 \notin Flow \* the imported history, and no edit

VARIABLES
    kind,      \* kind of each flow
    done,      \* number of events each flow has emitted or lost
    held,      \* requests waiting for a decision
    core,      \* core_event_rx
    fan,       \* the fan-out task: [at, todo], todo what it still has to send
    ui,        \* event_rx of the interface
    recorder,  \* SessionRecorder: the entries of each kind
    iface,     \* the interface that was asked for
    main,      \* where main is once the interface has been started
    tui,       \* AppState: rows, selection, filter
    edit,      \* its EditSession
    page,      \* the state of the browser page
    filter,    \* the filter of the page and its requests in flight
    backlog    \* history: events accepted by the channel and not yet recorded

vars == <<kind, done, held, core, fan, ui, recorder, iface, main,
          tui, edit, page, filter, backlog>>

channel == <<core, fan, ui, recorder>>
screen  == <<tui, edit, page, filter>>

Ev(f, w) == [flow |-> f, kind |-> kind[f], what |-> w]

Script(k) ==
    CASE k = "http" -> <<"intercepted", "complete">>
      [] k = "ws"   -> <<"intercepted", "open", "data", "end">>
      [] k = "tcp"  -> <<"open", "data", "end">>
      [] k = "dns"  -> <<"open", "end">>
      [] k = "udp"  -> <<"open">>
      [] OTHER      -> <<"error">>

Finished(f) == done[f] = Len(Script(kind[f]))

NoEdit  == [flow |-> 0, typing |-> FALSE, lines |-> <<>>, row |-> 0, col |-> 0]
NoTui   == [rows |-> <<>>, sel |-> 0, filtered |-> FALSE]
NoPage  == [at |-> "load", requests |-> <<>>, pending |-> {}, live |-> {}, buf |-> <<>>]
NoFilter == [gen |-> 0, expr |-> "none", asked |-> {}, shown |-> "none"]

Entry(e) == [flow |-> e.flow, kind |-> e.kind, n |-> 0, closed |-> FALSE]
Empty    == [k \in Kind \ {"error"} |-> <<>>]

-----------------------------------------------------------------------------
Has(entries, f) == \E i \in 1..Len(entries) : entries[i].flow = f

Upsert(entries, x) ==
    IF Has(entries, x.flow)
    THEN [i \in 1..Len(entries) |-> IF entries[i].flow = x.flow THEN x ELSE entries[i]]
    ELSE Append(entries, x)

Update(entries, f, Change(_)) ==
    [i \in 1..Len(entries) |->
        IF entries[i].flow = f THEN Change(entries[i]) ELSE entries[i]]

More(x) == [x EXCEPT !.n = @ + 1]
Shut(x) == [x EXCEPT !.closed = TRUE]

\* SessionRecorder::record.
Record(rec, e) ==
    CASE e.what = "complete" -> [rec EXCEPT !["http"] = Upsert(@, Entry(e))]
      [] e.what = "open" /\ e.kind \in {"ws", "udp"} ->
            [rec EXCEPT ![e.kind] = Upsert(@, Entry(e))]
      [] e.what = "open" /\ e.kind \notin {"ws", "udp"} ->
            [rec EXCEPT ![e.kind] = Append(@, Entry(e))]
      [] e.what = "data" -> [rec EXCEPT ![e.kind] = Update(@, e.flow, More)]
      [] e.what = "end" -> [rec EXCEPT ![e.kind] = Update(@, e.flow, Shut)]
      [] OTHER -> rec

Again(x, w) == [flow |-> x.flow, kind |-> x.kind, what |-> w]

\* BUG: a finished exchange is not shown as finished.
BugEventsOf(x) ==
    <<Again(x, IF x.kind = "http" THEN "complete" ELSE "open")>>
        \o [i \in 1..x.n |-> Again(x, "data")]

\* session_events: the events that show a stored session in an interface.
EventsOf(x) ==
    <<Again(x, IF x.kind = "http" THEN "complete" ELSE "open")>>
        \o [i \in 1..x.n |-> Again(x, "data")]
        \o (IF x.closed THEN <<Again(x, "end")>> ELSE <<>>)

SessionEvents(rec) ==
    LET Of(k) == FlattenSeq([i \in 1..Len(rec[k]) |-> EventsOf(rec[k][i])])
    IN Of("http") \o Of("ws") \o Of("tcp") \o Of("dns") \o Of("udp")

-----------------------------------------------------------------------------
\* The flow 0 is the imported history: it is recorded before anything runs.
Init ==
    /\ \E x \in Setup : iface = x.iface /\ kind = x.kind
    /\ done = [f \in Flow |-> 0]
    /\ held = {}
    /\ core = <<>>
    /\ recorder = [Empty EXCEPT !["http"] =
                      <<[flow |-> 0, kind |-> "http", n |-> 0, closed |-> FALSE]>>]
    /\ fan = [at |-> "initial", todo |-> SessionEvents(recorder)]
    /\ ui = <<>>
    /\ main = "running"
    /\ tui = NoTui /\ edit = NoEdit
    /\ page = NoPage /\ filter = NoFilter
    /\ backlog = 0

-----------------------------------------------------------------------------
\* The proxy's side: try_send on the core channel, which loses what is too much.
\* A request whose announcement is lost is not held.
Emit(f) ==
    /\ main # "saved"
    /\ ~Finished(f)
    /\ f \notin held
    /\ done' = [done EXCEPT ![f] = @ + 1]
    /\ LET e == Ev(f, Script(kind[f])[done[f] + 1])
       IN IF Len(core) < CoreCap
          THEN /\ core' = Append(core, e)
               /\ backlog' = backlog + 1
               /\ held' = IF e.what = "intercepted" THEN held \cup {f} ELSE held
          ELSE UNCHANGED <<core, backlog, held>>
    /\ UNCHANGED <<kind, fan, ui, recorder, iface, main, screen>>

\* The 300 seconds are over, or somebody else decides.
Expire(f) ==
    /\ f \in held
    /\ held' = held \ {f}
    /\ UNCHANGED <<kind, done, channel, iface, main, screen, backlog>>

-----------------------------------------------------------------------------
\* Does the receiver of the interface's channel still exist?  Once run has
\* returned only the task a web server has left behind still holds one.
UiOpen == main = "running" \/ iface = "web"

FanIdle == [at |-> "recv", todo |-> <<>>]

\* ui_event_tx.send waits for room; its error, once nobody receives, is ignored.
Deliver(e) == IF UiOpen THEN Len(ui) < UiCap /\ ui' = Append(ui, e) ELSE UNCHANGED ui

\* History is shown before anything else and not recorded again.
FanInitial ==
    /\ fan.at = "initial"
    /\ IF fan.todo = <<>>
       THEN fan' = FanIdle /\ UNCHANGED ui
       ELSE Deliver(Head(fan.todo)) /\ fan' = [fan EXCEPT !.todo = Tail(@)]
    /\ UNCHANGED <<kind, done, held, core, recorder, iface, main, screen, backlog>>

FanReceive ==
    /\ fan.at = "recv"
    /\ core # <<>>
    /\ fan' = [at |-> "record", todo |-> <<Head(core)>>]
    /\ core' = Tail(core)
    /\ UNCHANGED <<kind, done, held, ui, recorder, iface, main, screen, backlog>>

FanRecord ==
    /\ fan.at = "record"
    /\ recorder' = Record(recorder, fan.todo[1])
    /\ backlog' = backlog - 1
    /\ fan' = [fan EXCEPT !.at = "send"]
    /\ UNCHANGED <<kind, done, held, core, ui, iface, main, screen>>

\* BUG: an interface that is gone ends the task.
BugFanSend ==
    /\ fan.at = "send"
    /\ Deliver(fan.todo[1])
    /\ fan' = IF UiOpen THEN FanIdle ELSE [at |-> "ended", todo |-> <<>>]
    /\ UNCHANGED <<kind, done, held, core, recorder, iface, main, screen, backlog>>

FanSend ==
    /\ fan.at = "send"
    /\ Deliver(fan.todo[1])
    /\ fan' = FanIdle
    /\ UNCHANGED <<kind, done, held, core, recorder, iface, main, screen, backlog>>

\* Every sender is gone: the listener's and those of the connection tasks.
FanEnd ==
    /\ fan.at = "recv"
    /\ core = <<>>
    /\ main = "stopped"
    /\ \A f \in Flow : Finished(f)
    /\ fan' = [at |-> "ended", todo |-> <<>>]
    /\ UNCHANGED <<kind, done, held, core, ui, recorder, iface, main, screen, backlog>>

Fanout == FanInitial \/ FanReceive \/ FanRecord \/ FanSend \/ FanEnd

-----------------------------------------------------------------------------
\* The user quits, Ctrl+C or the proxy cancels the token, or the web server
\* cannot bind its address.  What the interface kept goes with it.
Return ==
    /\ main = "running"
    /\ main' = "returned"
    /\ tui' = NoTui /\ edit' = NoEdit /\ page' = NoPage /\ filter' = NoFilter
    /\ UNCHANGED <<kind, done, held, channel, iface, backlog>>

\* proxy_task.await: the listener has stopped; its connections are detached.
ProxyStops ==
    /\ main = "returned"
    /\ main' = "stopped"
    /\ UNCHANGED <<kind, done, held, channel, iface, screen, backlog>>

Save ==
    /\ main = "stopped"
    /\ fan.at = "ended"
    /\ main' = "saved"
    /\ UNCHANGED <<kind, done, held, channel, iface, screen, backlog>>

\* BUG: the drain has no limit, and long-lived connections hold senders.
BugSaveLate == FALSE /\ UNCHANGED vars

\* 500 ms are over: the fan-out is aborted where it waits.
SaveLate ==
    /\ main = "stopped"
    /\ fan.at # "ended"
    /\ main' = "saved"
    /\ fan' = [at |-> "aborted", todo |-> <<>>]
    /\ UNCHANGED <<kind, done, held, core, ui, recorder, iface, screen, backlog>>

Shutdown == ProxyStops \/ Save \/ SaveLate

-----------------------------------------------------------------------------
\* The rows that are shown, by their position: the filter of the TUI is one that
\* only finished exchanges match.
Visible(t) == {i \in 1..Len(t.rows) : t.filtered => t.rows[i].kind = "http"}
Shows(t) == Cardinality(Visible(t))

Clip(n, lo, hi) == IF n < lo THEN lo ELSE IF n > hi THEN hi ELSE n

Row(e, k) == [flow |-> e.flow, kind |-> k, n |-> 0, closed |-> FALSE]

IsPending(x, f) == x.kind = "pending" /\ x.flow = f

\* BUG: a finished request always gets a new row.
BugPromote(rows, e) == Append(rows, Row(e, "http"))

\* Pending becomes Complete in place, so the row does not jump.
Promote(rows, e) ==
    IF \E i \in 1..Len(rows) : IsPending(rows[i], e.flow)
    THEN [rows EXCEPT ![CHOOSE i \in 1..Len(rows) : IsPending(rows[i], e.flow)] = Row(e, "http")]
    ELSE Append(rows, Row(e, "http"))

UpdateRow(rows, e, Change(_)) ==
    [i \in 1..Len(rows) |->
        IF rows[i].flow = e.flow /\ rows[i].kind = e.kind THEN Change(rows[i]) ELSE rows[i]]

Apply(rows, e) ==
    CASE e.what = "intercepted" -> Append(rows, Row(e, "pending"))
      [] e.what = "complete"    -> Promote(rows, e)
      [] e.what \in {"open", "error"} -> Append(rows, Row(e, e.kind))
      [] e.what = "data" -> UpdateRow(rows, e, More)
      [] OTHER -> UpdateRow(rows, e, Shut)

\* BUG: the selection does not follow when the oldest row goes.
BugAddEvent(t, e) ==
    LET rows == Apply(t.rows, e)
    IN [t EXCEPT !.rows = IF Len(rows) > MaxRows THEN Tail(rows) ELSE rows]

\* AppState::add_event: above MAX_ENTRIES the oldest row goes and the selection
\* moves up with the others.
AddEvent(t, e) ==
    LET rows == Apply(t.rows, e)
        full == Len(rows) > MaxRows
    IN [t EXCEPT !.rows = IF full THEN Tail(rows) ELSE rows,
                 !.sel = IF full /\ @ > 1 THEN @ - 1 ELSE @]

TuiReceive ==
    /\ iface = "tui" /\ main = "running"
    /\ ui # <<>>
    /\ tui' = AddEvent(tui, Head(ui))
    /\ ui' = Tail(ui)
    /\ UNCHANGED <<kind, done, held, core, fan, recorder, iface, main, edit, page, filter, backlog>>

TerminalReceive ==
    /\ iface = "terminal" /\ main = "running"
    /\ ui # <<>>
    /\ ui' = Tail(ui)
    /\ UNCHANGED <<kind, done, held, core, fan, recorder, iface, main, screen, backlog>>

-----------------------------------------------------------------------------
\* handle_key_event, one key at a time.  Keys that only change what is drawn
\* (help, detail panel, tabs) and replay are left out.
KeyFree == iface = "tui" /\ main = "running" /\ ~edit.typing

Select(i) == tui' = [tui EXCEPT !.sel = i] /\ UNCHANGED <<held, edit>>

SelectNext  == Shows(tui) # 0 /\ Select(Clip(tui.sel + 1, 1, Shows(tui)))
SelectPrev  == Select(IF tui.sel > 1 THEN tui.sel - 1 ELSE 1)
SelectFirst == Shows(tui) # 0 /\ Select(1)
SelectLast  == Shows(tui) # 0 /\ Select(Shows(tui))

SetFilter == tui' = [tui EXCEPT !.filtered = ~@] /\ UNCHANGED <<held, edit>>
Clear     == tui' = [tui EXCEPT !.rows = <<>>, !.sel = 0] /\ UNCHANGED <<held, edit>>

\* selected_pending_id.
SelectedPending ==
    {f \in Flow : \E i \in Visible(tui) : /\ Cardinality(Visible(tui) \cap 1..i) = tui.sel
                                         /\ IsPending(tui.rows[i], f)}

\* remove_pending_by_id: the selection stays inside what is left.
Without(t, f) ==
    IF \E i \in 1..Len(t.rows) : IsPending(t.rows[i], f)
    THEN LET u == [t EXCEPT !.rows =
                      RemoveAt(@, CHOOSE i \in 1..Len(@) : IsPending(@[i], f))]
         IN [u EXCEPT !.sel = IF @ > Shows(u) THEN Shows(u) ELSE @]
    ELSE t

\* f: the staged edit goes out if it parses, and back to typing if not; without
\* one the selected request goes on as it is.
Forward ==
    \/ /\ edit.flow # 0
       /\ \/ held' = held \ {edit.flow} /\ edit' = NoEdit
          \/ edit' = [edit EXCEPT !.typing = TRUE] /\ UNCHANGED held
       /\ UNCHANGED tui
    \/ /\ edit.flow = 0
       /\ \E f \in SelectedPending : held' = held \ {f}
       /\ UNCHANGED <<tui, edit>>

\* d: the request of the staged edit, or else the selected one, is blocked.
Drop ==
    /\ \E f \in IF edit.flow # 0 THEN {edit.flow} ELSE SelectedPending :
          held' = held \ {f} /\ tui' = Without(tui, f)
    /\ edit' = NoEdit

\* e: back into a staged edit, or a new one for the selected request.
Edit ==
    /\ IF edit.flow # 0
       THEN edit' = [edit EXCEPT !.typing = TRUE]
       ELSE \E f \in SelectedPending :
               edit' = [flow |-> f, typing |-> TRUE, lines |-> <<1>>, row |-> 1, col |-> 0]
    /\ UNCHANGED <<tui, held>>

Discard == edit.flow # 0 /\ edit' = NoEdit /\ UNCHANGED <<tui, held>>

Key ==
    /\ KeyFree
    /\ \/ SelectNext \/ SelectPrev \/ SelectFirst \/ SelectLast
       \/ SetFilter \/ Clear \/ Forward \/ Drop \/ Edit \/ Discard
    /\ UNCHANGED <<kind, done, channel, iface, main, page, filter, backlog>>

-----------------------------------------------------------------------------
\* EditSession::handle_key.  A line is its number of characters; rows count from
\* one, columns from zero.
Chars(s) == s.lines[s.row]

At(s, r, c) == [s EXCEPT !.row = r, !.col = c]

InsertChar(s) == [s EXCEPT !.lines[s.row] = @ + 1, !.col = @ + 1]

InsertNewline(s) ==
    [At(s, s.row + 1, 0) EXCEPT
        !.lines = InsertAt([s.lines EXCEPT ![s.row] = s.col], s.row + 1, Chars(s) - s.col)]

Join(s, r) ==
    LET l == s.lines IN [s EXCEPT !.lines = RemoveAt([l EXCEPT ![r] = l[r] + l[r + 1]], r + 1)]

Backspace(s) ==
    IF s.col > 0 THEN [s EXCEPT !.lines[s.row] = @ - 1, !.col = @ - 1]
    ELSE IF s.row > 1 THEN At(Join(s, s.row - 1), s.row - 1, s.lines[s.row - 1])
    ELSE s

DeleteForward(s) ==
    IF s.col < Chars(s) THEN [s EXCEPT !.lines[s.row] = @ - 1]
    ELSE IF s.row < Len(s.lines) THEN Join(s, s.row)
    ELSE s

MoveLeft(s) ==
    IF s.col > 0 THEN At(s, s.row, s.col - 1)
    ELSE IF s.row > 1 THEN At(s, s.row - 1, s.lines[s.row - 1])
    ELSE s

MoveRight(s) ==
    IF s.col < Chars(s) THEN At(s, s.row, s.col + 1)
    ELSE IF s.row < Len(s.lines) THEN At(s, s.row + 1, 0)
    ELSE s

\* BUG: the column is not clamped to the shorter line.
BugMoveTo(s, r) == IF r \in 1..Len(s.lines) THEN At(s, r, s.col) ELSE s

MoveTo(s, r) ==
    IF r \in 1..Len(s.lines) THEN At(s, r, Clip(s.col, 0, s.lines[r])) ELSE s

Typed ==
    {MoveLeft(edit), MoveRight(edit), MoveTo(edit, edit.row - 1), MoveTo(edit, edit.row + 1),
     At(edit, edit.row, 0), At(edit, edit.row, Chars(edit)),
     Backspace(edit), DeleteForward(edit)}
        \cup (IF FoldSeq(+, Len(edit.lines), edit.lines) < MaxChars
              THEN {InsertChar(edit), InsertNewline(edit)} ELSE {})

Type ==
    /\ iface = "tui" /\ main = "running" /\ edit.typing
    /\ edit' \in Typed \cup {[edit EXCEPT !.typing = FALSE]}
    /\ UNCHANGED <<kind, done, held, channel, iface, main, tui, page, filter, backlog>>

-----------------------------------------------------------------------------
\* The web interface: a task of the server broadcasts, a page listens.
PageStep == UNCHANGED <<kind, done, core, fan, ui, iface, main, tui, edit, backlog>>

Serving == iface = "web" /\ main = "running"

\* A subscriber that lags loses the oldest messages; nobody listening loses all.
Broadcast ==
    /\ iface = "web" /\ main # "saved"
    /\ ui # <<>>
    /\ ui' = Tail(ui)
    /\ page' = IF page.at = "open"
               THEN LET b == Append(page.buf, Head(ui))
                    IN [page EXCEPT !.buf = IF Len(b) > BusCap THEN Tail(b) ELSE b]
               ELSE page
    /\ UNCHANGED <<kind, done, held, core, fan, recorder, iface, main, tui, edit, filter, backlog>>

LastRows(s) == SubSeq(s, Len(s) - Clip(Len(s), 0, MaxRows) + 1, Len(s))

Flows(entries) == [i \in 1..Len(entries) |-> entries[i].flow]

\* loadSession, then connect: the page subscribes only after it has the history.
LoadSession ==
    /\ Serving /\ page.at = "load"
    /\ page' = [page EXCEPT
           !.at = "loaded",
           !.requests = LastRows(Flows(recorder["http"])),
           !.live = UNION {ToSet(recorder[k]) : k \in {"ws", "tcp", "dns", "udp"}}]
    /\ UNCHANGED <<held, recorder, filter>> /\ PageStep

Connect ==
    /\ Serving /\ page.at \in {"loaded", "closed"}
    /\ page' = [page EXCEPT !.at = "open"]
    /\ UNCHANGED <<held, recorder, filter>> /\ PageStep

\* Two seconds later the page connects again; it does not load the session again.
Disconnect ==
    /\ page.at = "open"
    /\ page' = [page EXCEPT !.at = "closed", !.buf = <<>>]
    /\ UNCHANGED <<held, recorder, filter>> /\ PageStep

SameItem(x, e) == x.flow = e.flow /\ x.kind = e.kind

\* ws.onmessage: the maps replace by identifier, the list of requests appends.
Shown(p, e) ==
    CASE e.what = "intercepted" -> [p EXCEPT !.pending = @ \cup {e.flow}]
      [] e.what = "complete" -> [p EXCEPT !.pending = @ \ {e.flow},
                                          !.requests = LastRows(Append(@, e.flow))]
      [] e.what = "open" -> [p EXCEPT !.live = {x \in @ : ~SameItem(x, e)} \cup {Entry(e)}]
      [] e.what = "data" -> [p EXCEPT !.live = {IF SameItem(x, e) THEN More(x) ELSE x : x \in @}]
      [] e.what = "end" -> [p EXCEPT !.live = {IF SameItem(x, e) THEN Shut(x) ELSE x : x \in @}]
      [] OTHER -> p

PageReceive ==
    /\ page.at = "open" /\ page.buf # <<>>
    /\ page' = [Shown(page, Head(page.buf)) EXCEPT !.buf = Tail(page.buf)]
    /\ UNCHANGED <<held, recorder, filter>> /\ PageStep

\* sendWs does nothing while the socket is not open; a dropped request leaves
\* the page at once, a forwarded one when it completes.
PageDecide(f) ==
    /\ Serving /\ f \in page.pending
    /\ held' = IF page.at = "open" THEN held \ {f} ELSE held
    /\ page' \in {page, [page EXCEPT !.pending = @ \ {f}]}
    /\ UNCHANGED <<recorder, filter>> /\ PageStep

\* The page forgets everything, and asks the server to.
PageClear ==
    /\ Serving
    /\ page' = [page EXCEPT !.requests = <<>>, !.pending = {}, !.live = {}]
    /\ recorder' \in {recorder, Empty}
    /\ UNCHANGED <<held, filter>> /\ PageStep

\* refreshFilter: every call has a generation of its own.
AskFilter(x) ==
    /\ Serving /\ page.at # "load"
    /\ filter.gen < MaxGen
    /\ filter' = [gen |-> filter.gen + 1, expr |-> x,
                  asked |-> filter.asked \cup
                            (IF x = "none" THEN {} ELSE {[gen |-> filter.gen + 1, expr |-> x]}),
                  shown |-> IF x = "none" THEN "none" ELSE "empty"]
    /\ UNCHANGED <<held, recorder, page>> /\ PageStep

\* BUG: an answer is shown whatever has been typed since.
BugShowMatches(q) == q.expr

\* An answer that is not of the latest generation is ignored.
ShowMatches(q) == IF q.gen = filter.gen THEN q.expr ELSE filter.shown

\* The answers arrive in any order, or not at all.
FilterAnswer(q) ==
    /\ Serving
    /\ filter' = [filter EXCEPT !.asked = @ \ {q}, !.shown = ShowMatches(q)]
    /\ UNCHANGED <<held, recorder, page>> /\ PageStep

Page ==
    \/ LoadSession \/ Connect \/ Disconnect \/ PageReceive \/ PageClear
    \/ \E f \in Flow : PageDecide(f)
    \/ \E x \in {"none", "a"} : AskFilter(x)
    \/ \E q \in filter.asked : FilterAnswer(q)

-----------------------------------------------------------------------------
Next ==
    \/ \E f \in Flow : Emit(f) \/ Expire(f)
    \/ Fanout \/ Return \/ Shutdown
    \/ TuiReceive \/ TerminalReceive \/ Key \/ Type
    \/ Broadcast \/ Page

Spec == Init /\ [][Next]_vars

\* The proxy stops when its token is cancelled, and the 500 ms run out.
FairSpec == Spec /\ WF_vars(ProxyStops) /\ WF_vars(Save) /\ WF_vars(SaveLate)

-----------------------------------------------------------------------------
TypeOK ==
    /\ iface \in {"tui", "web", "terminal"} /\ kind \in [Flow -> Kind]
    /\ done \in [Flow -> 0..4] /\ held \in SUBSET Flow
    /\ Len(core) <= CoreCap /\ Len(ui) <= UiCap /\ Len(page.buf) <= BusCap
    /\ fan.at \in {"initial", "recv", "record", "send", "ended", "aborted"}
    /\ main \in {"running", "returned", "stopped", "saved"}
    /\ tui.sel \in 0..MaxRows /\ Len(tui.rows) <= MaxRows
    /\ Len(page.requests) <= MaxRows /\ filter.gen \in 0..MaxGen
    /\ backlog \in Nat

\* The saved session has everything the channel had accepted, unless the drain
\* ran out of time: neither an interface that has gone nor a full channel makes
\* the recorder lose an event.
SavedIsComplete ==
    main = "saved" /\ fan.at = "ended" => core = <<>> /\ backlog = 0

\* The recorder is never behind the screen: what a row shows of an exchange the
\* session has too, so that saving right after reading loses nothing one has seen.
RecordedFirst ==
    \A i \in 1..Len(tui.rows) :
        LET x == tui.rows[i]
        IN x.kind \in {"http", "ws", "tcp", "dns", "udp"} =>
              \E j \in 1..Len(recorder[x.kind]) :
                  LET y == recorder[x.kind][j]
                  IN y.flow = x.flow /\ y.n >= x.n /\ (x.closed => y.closed)

\* The session is a faithful record: nothing that reached the fan-out is missing
\* from it, and no interface shows more than it has.
RecordIsFaithful == TypeOK /\ SavedIsComplete /\ RecordedFirst

\* Recording the events, one after the other.
Replay(rec, events) ==
    LET after[i \in 0..Len(events)] ==
            IF i = 0 THEN rec ELSE Record(after[i - 1], events[i])
    IN after[Len(events)]

\* Replaying a session as events and recording them gives the session again: a
\* loaded session looks in an interface as it did when it was captured.
ReplayRebuilds == Replay(Empty, SessionEvents(recorder)) = recorder

\* An exchange has one row, held or finished; only a held request that became a
\* WebSocket keeps its pending row beside the connection's.
OneRowPerExchange ==
    \A i, j \in 1..Len(tui.rows) :
        i < j /\ tui.rows[i].flow = tui.rows[j].flow =>
            tui.rows[i].kind = "pending" /\ tui.rows[j].kind = "ws"

\* Without a filter, arriving events never move the selection to another
\* exchange, except when the selected row itself is the one that is evicted.
SelectionStays ==
    [][ LET t == tui
        IN /\ ui' # ui /\ Len(ui') < Len(ui)
           /\ ~t.filtered
           /\ t.sel \in 1..Len(t.rows)
           /\ ~(t.sel = 1 /\ Len(t.rows) = MaxRows)
           => tui'.rows[tui'.sel].flow = t.rows[t.sel].flow ]_vars

\* The cursor of the editor is always inside its text, whatever is typed: its
\* line exists (the code indexes it) and has the column (the code unwraps it).
CursorInside ==
    edit.flow # 0 =>
        edit.row \in 1..Len(edit.lines) /\ edit.col \in 0..edit.lines[edit.row]

\* The matches shown are those of the expression last typed, or none yet: a slow
\* answer to an earlier expression never replaces a later one.
FilterIsLatest ==
    filter.shown \in {filter.expr, "empty"} /\ (filter.expr = "none" => filter.shown = "none")

\* Shutdown always ends with the session saved, however long the connections
\* that still hold senders live.
ShutdownSaves == main = "returned" ~> main = "saved"
=============================================================================
