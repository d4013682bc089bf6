---------------------------- MODULE ConsoleProofs ----------------------------
(* Proofs about Console for every set of flows, whatever their kinds, every *)
(* interface and every capacity.                                           *)
EXTENDS Console, SequenceTheorems, FiniteSetTheorems, WellFoundedInduction, TLAPS

-----------------------------------------------------------------------------
(* The inductive invariant.                                                *)

What  == {"intercepted", "complete", "open", "data", "end", "error"}
Kept  == Kind \ {"error"}
Ids   == Flow \cup {0}
Event == [flow : Ids, kind : Kind, what : What]
Session == [flow : Ids, typing : BOOLEAN, lines : Seq(Nat), row : Nat, col : Nat]
Item  == [flow : Ids, kind : Kind \cup {"pending"}, n : Nat, closed : BOOLEAN]

FlowTypes ==
    /\ iface \in {"tui", "web", "terminal"}
    /\ main \in {"running", "returned", "stopped", "saved"}
    /\ kind \in [Flow -> Kind]
    /\ done \in [Flow -> Nat]
    /\ \A f \in Flow : done[f] <= Len(Script(kind[f]))
    /\ held \in SUBSET Flow

ChannelTypes ==
    /\ core \in Seq(Event) /\ ui \in Seq(Event)
    /\ fan \in [at : {"initial", "recv", "record", "send", "ended", "aborted"},
                todo : Seq(Event)]
    /\ recorder \in [Kept -> Seq(Item)]
    /\ backlog \in Nat

\* The queues are inside their limits.
LimitInv == Len(core) <= CoreCap /\ Len(ui) <= UiCap

\* What is shown is inside its limit, and the selection too.
TuiType == [rows : Seq(Item), sel : Nat, filtered : BOOLEAN]
Fits(t) == t \in TuiType /\ Len(t.rows) <= MaxRows /\ t.sel <= MaxRows

PageType ==
    [at : {"load", "loaded", "open", "closed"}, requests : Seq(Ids),
     pending : SUBSET Ids, live : SUBSET Item, buf : Seq(Event)]
PageOk(p) == p \in PageType /\ Len(p.requests) <= MaxRows /\ Len(p.buf) <= BusCap

ScreenInv == Fits(tui) /\ PageOk(page)

\* An event the fan-out holds is still to be recorded or to be sent; a fan-out
\* that has ended found every connection over and the channel empty.
FanInv ==
    /\ fan.at \in {"record", "send"} => Len(fan.todo) = 1
    /\ fan.at \in {"recv", "ended", "aborted"} => fan.todo = <<>>
    /\ fan.at = "ended" => core = <<>> /\ \A f \in Flow : Finished(f)
    /\ fan.at = "aborted" => main = "saved"
    /\ fan.at # "aborted" =>
          backlog = Len(core) + (IF fan.at = "record" THEN 1 ELSE 0)

\* How far a flow is, by its events: the script of every kind climbs.
Rank(w) ==
    CASE w = "intercepted" -> 1
      [] w \in {"complete", "open", "error"} -> 2
      [] w = "data" -> 3
      [] w = "end" -> 4

KindAt(f, k) == IF f = 0 THEN "http" ELSE k[f]
KindOf(f) == KindAt(f, kind)
LevelAt(f, k, d) ==
    IF f = 0 THEN 2 ELSE IF d[f] = 0 THEN 0 ELSE Rank(Script(k[f])[d[f]])
Level(f)  == LevelAt(f, kind, done)

\* Which flows have which events.
Suits(w, k) ==
    /\ w = "intercepted" => k \in {"http", "ws"}
    /\ w = "complete" => k = "http"
    /\ w = "error" <=> k = "error"
    /\ w \in {"open", "data", "end"} => k \notin {"http", "error"}

\* Everything a flow that is not further than Level can have emitted.
GenuineAt(e, k, d) ==
    /\ e.kind = KindAt(e.flow, k)
    /\ Suits(e.what, e.kind)
    /\ Rank(e.what) <= LevelAt(e.flow, k, d)
Genuine(e) == GenuineAt(e, kind, done)

Before(d, e) == d.flow = e.flow => Rank(d.what) < Rank(e.what)

Ordered(s) == \A i, j \in 1..Len(s) : i < j => Before(s[i], s[j])
AllBefore(s, t) == \A i \in 1..Len(s), j \in 1..Len(t) : Before(s[i], t[j])

\* The events on their way are genuine, and those of a flow are in its order.
OrderInv ==
    /\ \A i \in 1..Len(ui) : Genuine(ui[i])
    /\ \A i \in 1..Len(fan.todo) : Genuine(fan.todo[i])
    /\ \A i \in 1..Len(core) : Genuine(core[i])
    /\ Ordered(ui) /\ Ordered(fan.todo) /\ Ordered(core)
    /\ AllBefore(ui, fan.todo) /\ AllBefore(ui, core) /\ AllBefore(fan.todo, core)

\* What a row shows, on the scale of the events.
Stage(x) ==
    IF x.closed THEN 4 ELSE IF x.n > 0 THEN 3 ELSE IF x.kind = "pending" THEN 1 ELSE 2

BehindIt(x, e) == x.flow = e.flow => Stage(x) < Rank(e.what)
Behind(x, s) == \A i \in 1..Len(s) : BehindIt(x, s[i])

\* A row is one of its flow's, and behind every event of the flow still to come.
RowAt(x, k, d) ==
    /\ x.kind \in {"pending", KindAt(x.flow, k)}
    /\ x.kind = "pending" => KindAt(x.flow, k) \in {"http", "ws"} /\ x.n = 0 /\ ~x.closed
    /\ Stage(x) <= LevelAt(x.flow, k, d)
RowOk(x) == RowAt(x, kind, done)

RowsInv ==
    /\ iface # "tui" => tui = NoTui
    /\ \A i \in 1..Len(tui.rows) :
          LET x == tui.rows[i]
          IN RowOk(x) /\ Behind(x, ui) /\ Behind(x, fan.todo) /\ Behind(x, core)

\* Every entry of the exchange is that far.
IsAt(entries, f, n, closed) ==
    \A j \in 1..Len(entries) :
        entries[j].flow = f => entries[j].n >= n /\ (closed => entries[j].closed)

\* What the recorder has of a row, and of an event it has recorded.
RowKept(x, rec) ==
    x.kind \in Kept => Has(rec[x.kind], x.flow) /\ IsAt(rec[x.kind], x.flow, x.n, x.closed)
EventKept(e, rec) ==
    /\ e.what \in {"open", "complete"} => Has(rec[e.kind], e.flow)
    /\ e.what = "data" => IsAt(rec[e.kind], e.flow, 1, FALSE)
    /\ e.what = "end" => IsAt(rec[e.kind], e.flow, 0, TRUE)

\* Of the TUI the recorder is ahead: of the rows, and of the events on their way.
RecordInv ==
    iface = "tui" =>
        /\ \A i \in 1..Len(tui.rows) : RowKept(tui.rows[i], recorder)
        /\ \A i \in 1..Len(ui) : EventKept(ui[i], recorder)
        /\ fan.at \in {"initial", "send"} =>
              \A i \in 1..Len(fan.todo) : EventKept(fan.todo[i], recorder)

\* The cursor is inside the text that is edited, and nothing is typed unless a
\* request is.
EditInv ==
    /\ edit \in Session
    /\ edit.typing => edit.flow # 0
    /\ edit.flow # 0 => /\ edit.row \in 1..Len(edit.lines)
                        /\ edit.col \in 0..edit.lines[edit.row]

\* An answer of the latest generation is one to the expression last typed.
FilterInv ==
    /\ filter \in [gen : 0..MaxGen, expr : {"none", "a"},
                   asked : SUBSET [gen : Nat, expr : {"a"}],
                   shown : {"none", "a", "empty"}]
    /\ \A q \in filter.asked :
          /\ q.gen <= filter.gen
          /\ q.gen = filter.gen => q.expr = filter.expr
    /\ FilterIsLatest

IInv ==
    /\ FlowTypes /\ ChannelTypes /\ LimitInv /\ ScreenInv
    /\ FanInv /\ OrderInv /\ RowsInv /\ RecordInv
    /\ OneRowPerExchange /\ EditInv /\ FilterInv

-----------------------------------------------------------------------------
(* The editor.                                                             *)

CursorOk(s) ==
    /\ s \in Session
    /\ s.row \in 1..Len(s.lines)
    /\ s.col \in 0..s.lines[s.row]

Follows(t, s) == CursorOk(t) /\ t.flow = s.flow /\ t.typing = s.typing

\* A line is put in after another: InsertAt by its positions.
LEMMA InsertAtLine ==
    ASSUME NEW s \in Seq(Nat), NEW i \in 1..Len(s) + 1, NEW e \in Nat
    PROVE  /\ InsertAt(s, i, e) \in Seq(Nat)
           /\ Len(InsertAt(s, i, e)) = Len(s) + 1
           /\ InsertAt(s, i, e)[i] = e
<1> DEFINE a == SubSeq(s, 1, i - 1)
           b == SubSeq(s, i, Len(s))
<1>1. a \in Seq(Nat) /\ Len(a) = i - 1 /\ b \in Seq(Nat) /\ Len(b) = Len(s) + 1 - i
    BY SubSeqProperties
<1> DEFINE c == <<e>>
<1>2. c \in Seq(Nat) /\ Len(c) = 1 /\ c[1] = e
    OBVIOUS
<1> HIDE DEF c
<1>3. a \o c \in Seq(Nat) /\ Len(a \o c) = i
    <2>1. a \o c \in Seq(Nat) /\ Len(a \o c) = Len(a) + Len(c)
        BY <1>1, <1>2, ConcatProperties
    <2>2. QED
        BY <1>1, <1>2, <2>1
<1>4. (a \o c)[i] = e
    <2>1. i \in 1..Len(a) + Len(c) /\ ~(i <= Len(a)) /\ i - Len(a) = 1
        BY <1>1, <1>2
    <2>2. (a \o c)[i] = c[i - Len(a)]
        BY <1>1, <1>2, <2>1, ConcatProperties
    <2>3. QED
        BY <1>2, <2>1, <2>2
<1> DEFINE d == a \o c
<1> HIDE DEF d
<1>5. d \in Seq(Nat) /\ Len(d) = i /\ d[i] = e
    BY <1>3, <1>4 DEF d
<1>6. d \o b \in Seq(Nat) /\ Len(d \o b) = Len(s) + 1
    BY <1>1, <1>5, ConcatProperties
<1>7. (d \o b)[i] = e
    <2>1. i \in 1..Len(d) + Len(b) /\ i <= Len(d)
        BY <1>1, <1>5
    <2>2. (d \o b)[i] = d[i]
        BY <1>1, <1>5, <2>1, ConcatProperties
    <2>3. QED
        BY <1>5, <2>2
<1>8. InsertAt(s, i, e) = d \o b
    BY DEF InsertAt, a, b, c, d
<1>9. QED
    BY <1>6, <1>7, <1>8

\* A line is taken out: those before it stay where they are.
LEMMA RemoveAtLine ==
    ASSUME NEW s \in Seq(Nat), NEW i \in 1..Len(s)
    PROVE  /\ RemoveAt(s, i) \in Seq(Nat)
           /\ Len(RemoveAt(s, i)) = Len(s) - 1
           /\ \A j \in 1..i - 1 : RemoveAt(s, i)[j] = s[j]
<1> DEFINE a == SubSeq(s, 1, i - 1)
           b == SubSeq(s, i + 1, Len(s))
<1>1. /\ a \in Seq(Nat) /\ Len(a) = i - 1 /\ b \in Seq(Nat) /\ Len(b) = Len(s) - i
      /\ \A j \in 1..i - 1 : a[j] = s[j]
    BY SubSeqProperties
<1> HIDE DEF a, b
<1>2. a \o b \in Seq(Nat) /\ Len(a \o b) = Len(s) - 1 /\ \A j \in 1..i - 1 : (a \o b)[j] = s[j]
    BY SMTT(30), <1>1, ConcatProperties
<1>3. QED
    BY <1>2 DEF RemoveAt, a, b

\* Two lines become one, the upper one as long as both.
LEMMA JoinOk ==
    ASSUME NEW s \in Session, NEW r \in 1..Len(s.lines) - 1
    PROVE  /\ Join(s, r) = [s EXCEPT !.lines = Join(s, r).lines]
           /\ Join(s, r).lines \in Seq(Nat)
           /\ Len(Join(s, r).lines) = Len(s.lines) - 1
           /\ \A j \in 1..r - 1 : Join(s, r).lines[j] = s.lines[j]
           /\ Join(s, r).lines[r] = s.lines[r] + s.lines[r + 1]
<1> DEFINE both == s.lines[r] + s.lines[r + 1]
           u == [s.lines EXCEPT ![r] = both]
<1>1. s.lines \in Seq(Nat) /\ both \in Nat /\ r + 1 \in 1..Len(s.lines)
    BY DEF Session
<1> HIDE DEF both
<1>2. /\ u \in Seq(Nat) /\ Len(u) = Len(s.lines) /\ u[r] = both
      /\ \A j \in 1..r - 1 : u[j] = s.lines[j]
    BY <1>1
<1>3. Join(s, r) = [s EXCEPT !.lines = RemoveAt(u, r + 1)]
    <2>1. [s.lines EXCEPT ![r] = s.lines[r] + s.lines[r + 1]] = u
        BY DEF u, both
    <2>2. QED
        BY <2>1 DEF Join
<1> HIDE DEF u
<1>4. /\ RemoveAt(u, r + 1) \in Seq(Nat)
      /\ Len(RemoveAt(u, r + 1)) = Len(s.lines) - 1
      /\ \A j \in 1..r : RemoveAt(u, r + 1)[j] = u[j]
    <2>1. r + 1 \in 1..Len(u) /\ 1..(r + 1) - 1 = 1..r
        BY <1>1, <1>2
    <2> DEFINE q == r + 1
    <2> HIDE DEF q
    <2>2. /\ RemoveAt(u, q) \in Seq(Nat)
          /\ Len(RemoveAt(u, q)) = Len(u) - 1
          /\ \A j \in 1..q - 1 : RemoveAt(u, q)[j] = u[j]
        BY <1>2, <2>1, RemoveAtLine DEF q
    <2>3. QED
        BY <1>2, <2>1, <2>2 DEF q
<1>5. Join(s, r).lines = RemoveAt(u, r + 1)
    BY <1>3 DEF Session
<1> DEFINE l == RemoveAt(u, r + 1)
<1> HIDE DEF l
<1>6. /\ l \in Seq(Nat) /\ Len(l) = Len(s.lines) - 1
      /\ \A j \in 1..r : l[j] = u[j]
    BY <1>4 DEF l
<1>7. (\A j \in 1..r - 1 : l[j] = s.lines[j]) /\ l[r] = both
    <2>1. r \in 1..r /\ \A j \in 1..r - 1 : j \in 1..r
        OBVIOUS
    <2>2. QED
        BY <1>2, <1>6, <2>1
<1>8. Join(s, r) = [s EXCEPT !.lines = l] /\ Join(s, r).lines = l
    BY <1>3, <1>5 DEF l
<1>9. QED
    BY <1>6, <1>7, <1>8 DEF both

\* Two editors are one but for the text and the cursor, field by field.
Is(t, s, l, r, c) ==
    /\ t \in Session /\ t.flow = s.flow /\ t.typing = s.typing
    /\ t.lines = l /\ t.row = r /\ t.col = c

\* Replacing the lines of an editor leaves its row and column.
LEMMA SetLines ==
    ASSUME NEW s \in Session, NEW l \in Seq(Nat)
    PROVE  Is([s EXCEPT !.lines = l], s, l, s.row, s.col)
BY DEF Is, Session

\* Moving an editor to another row leaves its lines and its column.
LEMMA SetRow ==
    ASSUME NEW s \in Session, NEW r \in Nat
    PROVE  Is([s EXCEPT !.row = r], s, s.lines, r, s.col)
BY DEF Is, Session

\* Moving an editor to another column leaves its lines and its row.
LEMMA SetCol ==
    ASSUME NEW s \in Session, NEW c \in Nat
    PROVE  Is([s EXCEPT !.col = c], s, s.lines, s.row, c)
BY DEF Is, Session

\* Placing the cursor sets both coordinates and leaves the lines.
LEMMA SetAt ==
    ASSUME NEW s \in Session, NEW r \in Nat, NEW c \in Nat
    PROVE  Is(At(s, r, c), s, s.lines, r, c)
<1> DEFINE u == [s EXCEPT !.row = r]
<1>1. At(s, r, c) = [u EXCEPT !.col = c]
    BY DEF At
<1>2. Is(u, s, s.lines, r, s.col)
    BY SetRow
<1> HIDE DEF u
<1>3. u \in Session
    BY <1>2 DEF Is
<1>4. Is([u EXCEPT !.col = c], u, u.lines, u.row, c)
    BY <1>3, SetCol
<1>5. QED
    BY <1>1, <1>2, <1>4 DEF Is

\* An editor whose cursor is at a column of an existing line is well formed.
LEMMA IsFollows ==
    ASSUME NEW s, NEW t, NEW l \in Seq(Nat), NEW r \in 1..Len(l),
           NEW n \in Nat, l[r] = n, NEW c \in 0..n, Is(t, s, l, r, c)
    PROVE  Follows(t, s)
BY DEF Is, Follows, CursorOk

\* A column of a line is a column of the line that another one is joined to.
LEMMA SumBound ==
    ASSUME NEW m \in Nat, NEW n \in Nat
    PROVE  m + n \in Nat /\ m \in 0..m + n /\ \A c \in 0..m : c \in 0..m + n
OBVIOUS

\* A well-formed editor, taken apart: its lines, its row, its column.
LEMMA CursorIs ==
    ASSUME NEW s, CursorOk(s)
    PROVE  \E l \in Seq(Nat) : \E r \in 1..Len(l) : \E n \in Nat : \E c \in 0..n :
               s \in Session /\ s.lines = l /\ s.row = r /\ s.col = c /\ l[r] = n
<1>1. s \in Session /\ s.lines \in Seq(Nat) /\ s.row \in 1..Len(s.lines)
    BY DEF CursorOk, Session
<1>2. s.lines[s.row] \in Nat /\ s.col \in 0..s.lines[s.row]
    BY <1>1 DEF CursorOk
<1>3. QED
    BY <1>1, <1>2

\* The keys that only move the cursor.
LEMMA MoveOk ==
    ASSUME NEW s, CursorOk(s),
           NEW t \in {MoveLeft(s), MoveRight(s), MoveTo(s, s.row - 1), MoveTo(s, s.row + 1),
                      At(s, s.row, 0), At(s, s.row, Chars(s))}
    PROVE  Follows(t, s)
<1>1. PICK l \in Seq(Nat) : \E r \in 1..Len(l) : \E n \in Nat : \E c \in 0..n :
               s \in Session /\ s.lines = l /\ s.row = r /\ s.col = c /\ l[r] = n
    BY CursorIs
<1>2. PICK r \in 1..Len(l), n \in Nat :
               \E c \in 0..n : s \in Session /\ s.lines = l /\ s.row = r /\ s.col = c /\ l[r] = n
    BY <1>1
<1>3. PICK c \in 0..n : s \in Session /\ s.lines = l /\ s.row = r /\ s.col = c /\ l[r] = n
    BY <1>2
<1>4. \A q \in 1..Len(l) : l[q] \in Nat
    OBVIOUS
<1>5. ASSUME NEW q \in 1..Len(l), NEW d \in 0..l[q] PROVE Follows(At(s, q, d), s)
    <2>1. l[q] \in Nat /\ d \in Nat
        BY <1>4
    <2>2. Is(At(s, q, d), s, l, q, d)
        BY <1>3, <2>1, SetAt
    <2>3. QED
        BY <2>1, <2>2, IsFollows
<1>6. Follows(s, s)
    BY DEF Follows
<1>7. ASSUME NEW q PROVE Follows(MoveTo(s, q), s)
    <2>1. CASE q \in 1..Len(l)
        <3>1. Clip(c, 0, l[q]) \in 0..l[q]
            BY <1>4, <2>1 DEF Clip
        <3>2. MoveTo(s, q) = At(s, q, Clip(c, 0, l[q]))
            BY <1>3, <2>1 DEF MoveTo
        <3>3. QED
            BY <1>5, <2>1, <3>1, <3>2
    <2>2. CASE q \notin 1..Len(l)
        BY <1>3, <1>6, <2>2 DEF MoveTo
    <2>3. QED
        BY <2>1, <2>2
<1>8. Follows(MoveLeft(s), s)
    <2>1. CASE c > 0
        <3>1. MoveLeft(s) = At(s, r, c - 1) /\ c - 1 \in 0..n
            BY <1>3, <2>1 DEF MoveLeft
        <3>2. QED
            BY <1>3, <1>5, <3>1
    <2>2. CASE ~(c > 0) /\ r > 1
        <3>1. r - 1 \in 1..Len(l)
            BY <2>2
        <3>2. MoveLeft(s) = At(s, r - 1, l[r - 1]) /\ l[r - 1] \in 0..l[r - 1]
            BY <1>3, <1>4, <2>2, <3>1 DEF MoveLeft
        <3>3. QED
            BY <1>5, <3>1, <3>2
    <2>3. CASE ~(c > 0) /\ ~(r > 1)
        BY <1>3, <1>6, <2>3 DEF MoveLeft
    <2>4. QED
        BY <2>1, <2>2, <2>3
<1>9. Follows(MoveRight(s), s)
    <2>1. CASE c < n
        <3>1. MoveRight(s) = At(s, r, c + 1) /\ c + 1 \in 0..n
            BY <1>3, <2>1 DEF MoveRight, Chars
        <3>2. QED
            BY <1>3, <1>5, <3>1
    <2>2. CASE ~(c < n) /\ r < Len(l)
        <3>1. r + 1 \in 1..Len(l)
            BY <2>2
        <3>2. MoveRight(s) = At(s, r + 1, 0) /\ 0 \in 0..l[r + 1]
            BY <1>3, <1>4, <2>2, <3>1 DEF MoveRight, Chars
        <3>3. QED
            BY <1>5, <3>1, <3>2
    <2>3. CASE ~(c < n) /\ ~(r < Len(l))
        BY <1>3, <1>6, <2>3 DEF MoveRight, Chars
    <2>4. QED
        BY <2>1, <2>2, <2>3
<1>10. Follows(At(s, s.row, 0), s) /\ Follows(At(s, s.row, Chars(s)), s)
    <2>1. 0 \in 0..l[r] /\ Chars(s) \in 0..l[r]
        BY <1>3 DEF Chars
    <2>2. QED
        BY <1>3, <1>5, <2>1
<1>11. QED
    BY <1>7, <1>8, <1>9, <1>10

\* The keys that change the text.
LEMMA ChangeOk ==
    ASSUME NEW s, CursorOk(s),
           NEW t \in {Backspace(s), DeleteForward(s), InsertChar(s), InsertNewline(s)}
    PROVE  Follows(t, s)
<1>1. PICK l \in Seq(Nat) : \E r \in 1..Len(l) : \E n \in Nat : \E c \in 0..n :
               s \in Session /\ s.lines = l /\ s.row = r /\ s.col = c /\ l[r] = n
    BY CursorIs
<1>2. PICK r \in 1..Len(l), n \in Nat :
               \E c \in 0..n : s \in Session /\ s.lines = l /\ s.row = r /\ s.col = c /\ l[r] = n
    BY <1>1
<1>3. PICK c \in 0..n : s \in Session /\ s.lines = l /\ s.row = r /\ s.col = c /\ l[r] = n
    BY <1>2
<1>4. Follows(s, s)
    BY DEF Follows
<1>5. ASSUME NEW v \in Seq(Nat), NEW q \in 1..Len(v), NEW k \in Nat, v[q] = k,
             NEW d \in 0..k
      PROVE  Follows(At([s EXCEPT !.lines = v], q, d), s)
    <2> DEFINE u == [s EXCEPT !.lines = v]
    <2>1. Is(u, s, v, r, c)
        BY <1>3, SetLines
    <2> HIDE DEF u
    <2>2. u \in Session
        BY <2>1 DEF Is
    <2>3. Is(At(u, q, d), u, u.lines, q, d)
        BY <2>2, SetAt
    <2>4. Is(At(u, q, d), s, v, q, d)
        BY <2>1, <2>3 DEF Is
    <2>5. Follows(At(u, q, d), s)
        BY <1>5, <2>4, IsFollows
    <2>6. QED
        BY <2>5 DEF u
<1>6. ASSUME NEW v \in Seq(Nat), r \in 1..Len(v), NEW k \in Nat, v[r] = k, NEW d \in 0..k
      PROVE  Follows([[s EXCEPT !.lines = v] EXCEPT !.col = d], s)
    <2> DEFINE u == [s EXCEPT !.lines = v]
    <2>1. Is(u, s, v, r, c)
        BY <1>3, SetLines
    <2> HIDE DEF u
    <2>2. u \in Session /\ d \in Nat
        BY <2>1 DEF Is
    <2>3. Is([u EXCEPT !.col = d], u, u.lines, u.row, d)
        BY <2>2, SetCol
    <2>4. Is([u EXCEPT !.col = d], s, v, r, d)
        BY <2>1, <2>3 DEF Is
    <2>5. Follows([u EXCEPT !.col = d], s)
        BY <1>6, <2>4, IsFollows
    <2>6. QED
        BY <2>5 DEF u
<1>7. Follows(InsertChar(s), s)
    <2> DEFINE v == [l EXCEPT ![r] = n + 1]
    <2>1. v \in Seq(Nat) /\ r \in 1..Len(v) /\ v[r] = n + 1
        OBVIOUS
    <2>2. InsertChar(s) = [[s EXCEPT !.lines = v] EXCEPT !.col = c + 1]
        BY <1>3 DEF InsertChar, Session
    <2> HIDE DEF v
    <2>3. n + 1 \in Nat /\ c + 1 \in 0..n + 1
        OBVIOUS
    <2>4. QED
        BY <1>6, <2>1, <2>2, <2>3
<1>8. Follows(InsertNewline(s), s)
    <2> DEFINE u == [l EXCEPT ![r] = c]
               v == InsertAt(u, r + 1, n - c)
    <2>1. u \in Seq(Nat) /\ Len(u) = Len(l)
        OBVIOUS
    <2>2. InsertNewline(s) = [At(s, r + 1, 0) EXCEPT !.lines = v]
        <3>1. s.lines[s.row] = n
            BY <1>3
        <3>2. QED
            BY <1>3, <3>1 DEF InsertNewline, Chars
    <2> HIDE DEF u
    <2>3. r + 1 \in 1..Len(u) + 1 /\ n - c \in Nat
        BY <2>1
    <2>4. v \in Seq(Nat) /\ Len(v) = Len(u) + 1 /\ v[r + 1] = n - c
        BY <2>1, <2>3, InsertAtLine
    <2> HIDE DEF v
    <2>5. r + 1 \in 1..Len(v) /\ 0 \in 0..n - c
        BY <2>1, <2>3, <2>4
    <2> DEFINE w == At(s, r + 1, 0)
    <2>6. Is(w, s, l, r + 1, 0)
        BY <1>3, SetAt
    <2> HIDE DEF w
    <2>7. w \in Session
        BY <2>6 DEF Is
    <2>8. Is([w EXCEPT !.lines = v], w, v, w.row, w.col)
        BY <2>4, <2>7, SetLines
    <2>9. Is([w EXCEPT !.lines = v], s, v, r + 1, 0)
        BY <2>6, <2>8 DEF Is
    <2>10. Follows([w EXCEPT !.lines = v], s)
        BY <2>3, <2>4, <2>5, <2>9, IsFollows
    <2>11. QED
        BY <2>2, <2>10 DEF w
<1>9. ASSUME NEW q \in 1..Len(l) - 1
      PROVE  /\ Join(s, q) = [s EXCEPT !.lines = Join(s, q).lines]
             /\ Join(s, q).lines \in Seq(Nat) /\ q \in 1..Len(Join(s, q).lines)
             /\ l[q] \in Nat /\ l[q + 1] \in Nat
             /\ Join(s, q).lines[q] = l[q] + l[q + 1]
    <2>1. l[q] \in Nat /\ l[q + 1] \in Nat
        OBVIOUS
    <2> DEFINE u == Join(s, q)
    <2>2. /\ u = [s EXCEPT !.lines = u.lines]
          /\ u.lines \in Seq(Nat) /\ Len(u.lines) = Len(l) - 1
          /\ u.lines[q] = l[q] + l[q + 1]
        BY <1>3, JoinOk
    <2> HIDE DEF u
    <2>3. q \in 1..Len(u.lines)
        BY <2>2
    <2>4. QED
        BY <2>1, <2>2, <2>3 DEF u
<1>10. Follows(Backspace(s), s)
    <2>1. CASE c > 0
        <3> DEFINE v == [l EXCEPT ![r] = n - 1]
        <3>1. v \in Seq(Nat) /\ r \in 1..Len(v) /\ v[r] = n - 1
            BY <2>1
        <3>2. Backspace(s) = [[s EXCEPT !.lines = v] EXCEPT !.col = c - 1]
            BY <1>3, <2>1 DEF Backspace, Session
        <3> HIDE DEF v
        <3>3. n - 1 \in Nat /\ c - 1 \in 0..n - 1
            BY <2>1
        <3>4. QED
            BY <1>6, <3>1, <3>2, <3>3
    <2>2. CASE ~(c > 0) /\ r > 1
        <3> DEFINE q == r - 1
                   v == Join(s, q).lines
                   k == l[q] + l[q + 1]
        <3>1. q \in 1..Len(l) - 1
            BY <2>2
        <3>2. Backspace(s) = At(Join(s, q), q, l[q])
            BY <1>3, <2>2 DEF Backspace
        <3> HIDE DEF q
        <3>3. /\ Join(s, q) = [s EXCEPT !.lines = v]
              /\ v \in Seq(Nat) /\ q \in 1..Len(v)
              /\ l[q] \in Nat /\ l[q + 1] \in Nat /\ v[q] = k
            BY <1>9, <3>1
        <3> HIDE DEF v
        <3>4. k \in Nat /\ l[q] \in 0..k
            BY <3>3, SumBound
        <3> HIDE DEF k
        <3>5. Follows(At([s EXCEPT !.lines = v], q, l[q]), s)
            BY <1>5, <3>3, <3>4
        <3>6. QED
            BY <3>2, <3>3, <3>5
    <2>3. CASE ~(c > 0) /\ ~(r > 1)
        BY <1>3, <1>4, <2>3 DEF Backspace
    <2>4. QED
        BY <2>1, <2>2, <2>3
<1>11. ASSUME NEW v \in Seq(Nat), r \in 1..Len(v), NEW k \in Nat, v[r] = k, c \in 0..k
       PROVE  Follows([s EXCEPT !.lines = v], s)
    <2> DEFINE u == [s EXCEPT !.lines = v]
    <2>1. Is(u, s, v, r, c)
        BY <1>3, SetLines
    <2> HIDE DEF u
    <2>2. Follows(u, s)
        BY <1>11, <2>1, IsFollows
    <2>3. QED
        BY <2>2 DEF u
<1>12. Follows(DeleteForward(s), s)
    <2>1. CASE c < n
        <3> DEFINE v == [l EXCEPT ![r] = n - 1]
        <3>1. v \in Seq(Nat) /\ r \in 1..Len(v) /\ v[r] = n - 1
            BY <2>1
        <3>2. DeleteForward(s) = [s EXCEPT !.lines = v]
            BY <1>3, <2>1 DEF DeleteForward, Session, Chars
        <3> HIDE DEF v
        <3>3. n - 1 \in Nat /\ c \in 0..n - 1
            BY <2>1
        <3>4. QED
            BY <1>11, <3>1, <3>2, <3>3
    <2>2. CASE ~(c < n) /\ r < Len(l)
        <3> DEFINE v == Join(s, r).lines
                   k == l[r] + l[r + 1]
        <3>1. r \in 1..Len(l) - 1
            BY <2>2
        <3>2. DeleteForward(s) = Join(s, r)
            BY <1>3, <2>2 DEF DeleteForward, Chars
        <3>3. /\ Join(s, r) = [s EXCEPT !.lines = v]
              /\ v \in Seq(Nat) /\ r \in 1..Len(v)
              /\ l[r] \in Nat /\ l[r + 1] \in Nat /\ v[r] = k
            BY <1>9, <3>1
        <3> HIDE DEF v
        <3>4. k \in Nat /\ c \in 0..k
            BY <1>3, <3>3, SumBound
        <3> HIDE DEF k
        <3>5. Follows([s EXCEPT !.lines = v], s)
            BY <1>11, <3>3, <3>4
        <3>6. QED
            BY <3>2, <3>3, <3>5
    <2>3. CASE ~(c < n) /\ ~(r < Len(l))
        BY <1>3, <1>4, <2>3 DEF DeleteForward, Chars
    <2>4. QED
        BY <2>1, <2>2, <2>3
<1>13. QED
    BY <1>7, <1>8, <1>10, <1>12

\* Whatever key is typed.
LEMMA TypedOk ==
    ASSUME CursorOk(edit), NEW s \in Typed
    PROVE  Follows(s, edit)
BY MoveOk, ChangeOk DEF Typed

-----------------------------------------------------------------------------
(* Which steps touch what.                                                 *)

Touched ==
    /\ UNCHANGED <<kind, iface>>
    /\ UNCHANGED <<done, held>> \/ (\E f \in Flow : Emit(f) \/ Expire(f) \/ PageDecide(f)) \/ Key
    /\ UNCHANGED <<done, core, backlog>> \/ (\E f \in Flow : Emit(f)) \/ FanReceive \/ FanRecord
    /\ UNCHANGED fan \/ Fanout \/ SaveLate
    /\ UNCHANGED ui \/ FanInitial \/ FanSend \/ TuiReceive \/ TerminalReceive \/ Broadcast
    /\ UNCHANGED recorder \/ FanRecord \/ PageClear
    /\ UNCHANGED main \/ Return \/ Shutdown
    /\ UNCHANGED tui \/ Return \/ TuiReceive \/ Key
    /\ UNCHANGED edit \/ Return \/ Key \/ Type
    /\ \/ UNCHANGED page
       \/ Return \/ Broadcast \/ LoadSession \/ Connect \/ Disconnect \/ PageReceive \/ PageClear
       \/ \E f \in Flow : PageDecide(f)
    /\ \/ UNCHANGED filter
       \/ Return \/ (\E x \in {"none", "a"} : AskFilter(x))
       \/ \E q \in filter.asked : FilterAnswer(q)

\* What every step touches: the frame the other lemmas are read from.
LEMMA Footprint ==
    ASSUME [Next]_vars
    PROVE  Touched
<1> USE DEF Touched
<1>1. ASSUME NEW f \in Flow, Emit(f) PROVE Touched
    BY <1>1 DEF Emit, channel, screen
<1>2. ASSUME NEW f \in Flow, Expire(f) PROVE Touched
    BY <1>2 DEF Expire, channel, screen
<1>3. CASE FanInitial
    BY <1>3 DEF FanInitial, Deliver, screen, Fanout
<1>4. CASE FanReceive
    BY <1>4 DEF FanReceive, screen, Fanout
<1>5. CASE FanRecord
    BY <1>5 DEF FanRecord, screen, Fanout
<1>6. CASE FanSend
    BY <1>6 DEF FanSend, Deliver, screen, Fanout
<1>7. CASE FanEnd
    BY <1>7 DEF FanEnd, screen, Fanout
<1>8. CASE Return
    BY <1>8 DEF Return, channel
<1>9. CASE ProxyStops
    BY <1>9 DEF ProxyStops, channel, screen, Shutdown
<1>10. CASE Save
    BY <1>10 DEF Save, channel, screen, Shutdown
<1>11. CASE SaveLate
    BY <1>11 DEF SaveLate, screen, Shutdown
<1>12. CASE TuiReceive
    BY <1>12 DEF TuiReceive
<1>13. CASE TerminalReceive
    BY <1>13 DEF TerminalReceive, screen
<1>14. CASE Key
    BY <1>14 DEF Key, channel
<1>15. CASE Type
    BY <1>15 DEF Type, channel
<1>16. CASE Broadcast
    BY <1>16 DEF Broadcast
<1>17. CASE LoadSession
    BY <1>17 DEF LoadSession, PageStep
<1>18. CASE Connect
    BY <1>18 DEF Connect, PageStep
<1>19. CASE Disconnect
    BY <1>19 DEF Disconnect, PageStep
<1>20. CASE PageReceive
    BY <1>20 DEF PageReceive, PageStep
<1>21. CASE PageClear
    BY <1>21 DEF PageClear, PageStep
<1>22. ASSUME NEW f \in Flow, PageDecide(f) PROVE Touched
    BY <1>22 DEF PageDecide, PageStep
<1>23. ASSUME NEW x \in {"none", "a"}, AskFilter(x) PROVE Touched
    BY <1>23 DEF AskFilter, PageStep
<1>24. ASSUME NEW q \in filter.asked, FilterAnswer(q) PROVE Touched
    BY <1>24 DEF FilterAnswer, PageStep
<1>25. CASE UNCHANGED vars
    BY <1>25 DEF vars
<1>26. QED
    BY <1>1, <1>2, <1>3, <1>4, <1>5, <1>6, <1>7, <1>8, <1>9, <1>10, <1>11,
       <1>12, <1>13, <1>14, <1>15, <1>16, <1>17, <1>18, <1>19, <1>20,
       <1>21, <1>22, <1>23, <1>24, <1>25
    DEF Next, Fanout, Shutdown, Page

\* The page shows the answer to what was typed last, or nothing yet.
LEMMA FilterStep ==
    ASSUME FilterInv, [Next]_vars
    PROVE  FilterInv'
<1> USE BoundAssumption DEF FilterInv, FilterIsLatest
<1>1. CASE UNCHANGED filter
    BY <1>1
<1>2. CASE Return
    BY <1>2 DEF Return, NoFilter
<1>3. ASSUME NEW x \in {"none", "a"}, AskFilter(x) PROVE FilterInv'
    BY <1>3 DEF AskFilter
<1>4. ASSUME NEW q \in filter.asked, FilterAnswer(q) PROVE FilterInv'
    BY <1>4 DEF FilterAnswer, ShowMatches
<1>5. QED
    BY <1>1, <1>2, <1>3, <1>4, Footprint DEF Touched

\* The cursor stays inside the text, whatever is typed.
LEMMA EditStep ==
    ASSUME EditInv, [Next]_vars
    PROVE  EditInv'
<1>1. NoEdit \in Session /\ ~NoEdit.typing /\ NoEdit.flow = 0
    BY DEF NoEdit, Session, Ids
<1>2. ASSUME edit' = NoEdit PROVE EditInv'
    BY <1>1, <1>2 DEF EditInv
<1>3. ASSUME NEW b \in BOOLEAN, edit.flow # 0, edit' = [edit EXCEPT !.typing = b]
      PROVE  EditInv'
    BY <1>3 DEF EditInv, Session
<1>4. ASSUME NEW f \in Flow,
             edit' = [flow |-> f, typing |-> TRUE, lines |-> << 1 >>, row |-> 1, col |-> 0]
      PROVE  EditInv'
    <2> DEFINE l == << 1 >>
    <2>1. l \in Seq(Nat) /\ Len(l) = 1 /\ l[1] = 1
        OBVIOUS
    <2> HIDE DEF l
    <2>2. edit' = [flow |-> f, typing |-> TRUE, lines |-> l, row |-> 1, col |-> 0]
        BY <1>4 DEF l
    <2>3. f # 0
        BY FlowAssumption
    <2>4. edit' \in Session
        BY <2>1, <2>2 DEF Session, Ids
    <2>5. edit'.lines = l /\ edit'.row = 1 /\ edit'.col = 0
        BY <2>2
    <2>6. edit'.row \in 1..Len(edit'.lines) /\ edit'.col \in 0..edit'.lines[edit'.row]
        <3>1. 1 \in 1..Len(l) /\ 0 \in 0..l[1]
            BY <2>1
        <3>2. QED
            BY <2>5, <3>1
    <2>7. edit'.flow # 0
        BY <2>2, <2>3
    <2>8. QED
        BY <2>4, <2>6, <2>7 DEF EditInv
<1>5. ASSUME edit' = edit PROVE EditInv'
    BY <1>5 DEF EditInv
<1>6. CASE Key
    <2>1. CASE SelectNext \/ SelectPrev \/ SelectFirst \/ SelectLast
        BY <1>5, <2>1 DEF SelectNext, SelectPrev, SelectFirst, SelectLast, Select
    <2>2. CASE SetFilter \/ Clear
        BY <1>5, <2>2 DEF SetFilter, Clear
    <2>3. CASE Forward
        BY <1>2, <1>3, <1>5, <2>3 DEF Forward
    <2>4. CASE Drop \/ Discard
        BY <1>2, <2>4 DEF Drop, Discard
    <2>5. CASE Edit
        BY <1>3, <1>4, <2>5 DEF Edit, SelectedPending
    <2>6. QED
        BY <1>6, <2>1, <2>2, <2>3, <2>4, <2>5 DEF Key
<1>7. CASE Type
    <2>1. edit.typing /\ edit.flow # 0 /\ CursorOk(edit)
        BY <1>7 DEF Type, EditInv, CursorOk
    <2>2. CASE edit' \in Typed
        <3>1. Follows(edit', edit)
            BY <2>1, <2>2, TypedOk
        <3>2. QED
            BY <2>1, <3>1 DEF Follows, CursorOk, EditInv
    <2>3. CASE edit' = [edit EXCEPT !.typing = FALSE]
        BY <1>3, <2>1, <2>3
    <2>4. QED
        BY <1>7, <2>2, <2>3 DEF Type
<1>8. CASE Return
    BY <1>2, <1>8 DEF Return
<1>9. QED
    BY <1>5, <1>6, <1>7, <1>8, Footprint DEF Touched

-----------------------------------------------------------------------------
(* Scripts, records and rows.                                              *)

\* A script has events of its kind only, and climbs.
LEMMA ScriptFacts ==
    ASSUME NEW k \in Kind
    PROVE  /\ Len(Script(k)) \in 1..4
           /\ \A i \in 1..Len(Script(k)) : Script(k)[i] \in What /\ Suits(Script(k)[i], k)
           /\ \A i \in 1..Len(Script(k)) - 1 : Rank(Script(k)[i]) < Rank(Script(k)[i + 1])
<1> USE DEF What, Suits, Rank
<1>1. CASE k = "http"
    BY <1>1 DEF Script
<1>2. CASE k = "ws"
    BY <1>2 DEF Script
<1>3. CASE k = "tcp"
    BY <1>3 DEF Script
<1>4. CASE k = "dns"
    BY <1>4 DEF Script
<1>5. CASE k = "udp"
    BY <1>5 DEF Script
<1>6. CASE k = "error"
    BY <1>6 DEF Script
<1>7. QED
    BY <1>1, <1>2, <1>3, <1>4, <1>5, <1>6 DEF Kind

\* Each kind of event has a rank, and the ranks are 1 to 4.
LEMMA RankType ==
    ASSUME NEW w \in What
    PROVE  Rank(w) \in 1..4
BY DEF What, Rank

\* A row or an entry with one more message, or finished.
LEMMA ItemFacts ==
    ASSUME NEW x \in Item
    PROVE  /\ More(x) \in Item /\ More(x).flow = x.flow /\ More(x).kind = x.kind
           /\ More(x).n = x.n + 1 /\ More(x).closed = x.closed
           /\ Shut(x) \in Item /\ Shut(x).flow = x.flow /\ Shut(x).kind = x.kind
           /\ Shut(x).n = x.n /\ Shut(x).closed = TRUE
<1>1. x.n \in Nat /\ x.n + 1 \in Nat /\ TRUE \in BOOLEAN
    BY DEF Item
<1>2. /\ More(x) \in Item /\ More(x).flow = x.flow /\ More(x).kind = x.kind
      /\ More(x).n = x.n + 1 /\ More(x).closed = x.closed
    BY <1>1 DEF Item, More
<1>3. /\ Shut(x) \in Item /\ Shut(x).flow = x.flow /\ Shut(x).kind = x.kind
      /\ Shut(x).n = x.n /\ Shut(x).closed = TRUE
    BY <1>1 DEF Item, Shut
<1>4. QED
    BY <1>2, <1>3

\* The entry and the rows that an event makes are items.
LEMMA NewItem ==
    ASSUME NEW e \in Event
    PROVE  /\ Entry(e) \in Item
           /\ Row(e, "pending") \in Item /\ Row(e, "http") \in Item /\ Row(e, e.kind) \in Item
BY DEF Event, Item, Entry, Row, Kind

\* Upsert replaces the items of the same flow, and appends when there is none.
LEMMA UpsertFacts ==
    ASSUME NEW s \in Seq(Item), NEW x \in Item
    PROVE  /\ Upsert(s, x) \in Seq(Item)
           /\ \A i \in 1..Len(s) : i \in 1..Len(Upsert(s, x))
           /\ \A i \in 1..Len(s) : Upsert(s, x)[i] = IF s[i].flow = x.flow THEN x ELSE s[i]
           /\ \A i \in 1..Len(Upsert(s, x)) : i \notin 1..Len(s) => Upsert(s, x)[i] = x
           /\ \E i \in 1..Len(Upsert(s, x)) : Upsert(s, x)[i].flow = x.flow
<1>1. CASE Has(s, x.flow)
    <2> DEFINE t == [i \in 1..Len(s) |-> IF s[i].flow = x.flow THEN x ELSE s[i]]
    <2>1. t \in Seq(Item) /\ Len(t) = Len(s)
        OBVIOUS
    <2>2. \A i \in 1..Len(s) : t[i] = IF s[i].flow = x.flow THEN x ELSE s[i]
        OBVIOUS
    <2>3. Upsert(s, x) = t
        BY <1>1 DEF Upsert
    <2> HIDE DEF t
    <2>4. \E i \in 1..Len(t) : t[i].flow = x.flow
        BY <1>1, <2>1, <2>2 DEF Has
    <2>5. QED
        BY <2>1, <2>2, <2>3, <2>4
<1>2. CASE ~Has(s, x.flow)
    <2> DEFINE t == Append(s, x)
    <2>1. /\ t \in Seq(Item) /\ Len(t) = Len(s) + 1 /\ t[Len(s) + 1] = x
          /\ \A i \in 1..Len(s) : t[i] = s[i]
        BY AppendProperties
    <2>2. Upsert(s, x) = t
        BY <1>2 DEF Upsert
    <2>3. \A i \in 1..Len(s) : s[i].flow # x.flow
        BY <1>2 DEF Has
    <2> HIDE DEF t
    <2>4. \A i \in 1..Len(t) : i \notin 1..Len(s) => i = Len(s) + 1
        BY <2>1
    <2>5. Len(s) + 1 \in 1..Len(t)
        BY <2>1
    <2>6. \A i \in 1..Len(s) : i \in 1..Len(t)
        BY <2>1
    <2>7. QED
        BY <2>1, <2>2, <2>3, <2>4, <2>5, <2>6
<1>3. QED
    BY <1>1, <1>2

\* Append keeps the items there are and adds one at the end.
LEMMA AppendFacts ==
    ASSUME NEW s \in Seq(Item), NEW x \in Item
    PROVE  /\ Append(s, x) \in Seq(Item) /\ Len(Append(s, x)) = Len(s) + 1
           /\ \A i \in 1..Len(s) : Append(s, x)[i] = s[i]
           /\ \A i \in 1..Len(Append(s, x)) : i \notin 1..Len(s) => i = Len(s) + 1
           /\ Append(s, x)[Len(s) + 1] = x
<1> DEFINE t == Append(s, x)
<1>1. /\ t \in Seq(Item) /\ Len(t) = Len(s) + 1 /\ t[Len(s) + 1] = x
      /\ \A i \in 1..Len(s) : t[i] = s[i]
    BY AppendProperties
<1> HIDE DEF t
<1>2. \A i \in 1..Len(t) : i \notin 1..Len(s) => i = Len(s) + 1
    BY <1>1
<1>3. QED
    BY <1>1, <1>2 DEF t

\* Update changes the items of one flow in place, and no other.
LEMMA UpdateFacts ==
    ASSUME NEW s \in Seq(Item), NEW f
    PROVE  /\ Update(s, f, More) \in Seq(Item) /\ Len(Update(s, f, More)) = Len(s)
           /\ \A i \in 1..Len(s) : Update(s, f, More)[i] = IF s[i].flow = f THEN More(s[i]) ELSE s[i]
           /\ Update(s, f, Shut) \in Seq(Item) /\ Len(Update(s, f, Shut)) = Len(s)
           /\ \A i \in 1..Len(s) : Update(s, f, Shut)[i] = IF s[i].flow = f THEN Shut(s[i]) ELSE s[i]
<1>1. \A i \in 1..Len(s) : s[i] \in Item /\ More(s[i]) \in Item /\ Shut(s[i]) \in Item
    <2>1. \A i \in 1..Len(s) : s[i] \in Item
        OBVIOUS
    <2>2. QED
        BY <2>1, ItemFacts
<1>2. QED
    BY <1>1 DEF Update

\* UpdateRow changes the rows of one flow and one kind in place, and no other.
LEMMA UpdateRowFacts ==
    ASSUME NEW s \in Seq(Item), NEW e
    PROVE  /\ UpdateRow(s, e, More) \in Seq(Item) /\ Len(UpdateRow(s, e, More)) = Len(s)
           /\ \A i \in 1..Len(s) : UpdateRow(s, e, More)[i] =
                 IF s[i].flow = e.flow /\ s[i].kind = e.kind THEN More(s[i]) ELSE s[i]
           /\ UpdateRow(s, e, Shut) \in Seq(Item) /\ Len(UpdateRow(s, e, Shut)) = Len(s)
           /\ \A i \in 1..Len(s) : UpdateRow(s, e, Shut)[i] =
                 IF s[i].flow = e.flow /\ s[i].kind = e.kind THEN Shut(s[i]) ELSE s[i]
<1>1. \A i \in 1..Len(s) : s[i] \in Item /\ More(s[i]) \in Item /\ Shut(s[i]) \in Item
    <2>1. \A i \in 1..Len(s) : s[i] \in Item
        OBVIOUS
    <2>2. QED
        BY <2>1, ItemFacts
<1>2. QED
    BY <1>1 DEF UpdateRow

\* What recording an event does to the entries of its kind, and to no others.
LEMMA RecordFacts ==
    ASSUME NEW rec \in [Kept -> Seq(Item)], NEW e \in Event, Suits(e.what, e.kind)
    PROVE  /\ Record(rec, e) \in [Kept -> Seq(Item)]
           /\ \A k \in Kept : k # e.kind => Record(rec, e)[k] = rec[k]
           /\ e.what \in {"intercepted", "error"} => Record(rec, e) = rec
           /\ e.what \in {"complete", "open"} =>
                 /\ e.kind \in Kept
                 /\ Record(rec, e)[e.kind] \in
                       {Upsert(rec[e.kind], Entry(e)), Append(rec[e.kind], Entry(e))}
           /\ e.what = "data" =>
                 e.kind \in Kept /\ Record(rec, e)[e.kind] = Update(rec[e.kind], e.flow, More)
           /\ e.what = "end" =>
                 e.kind \in Kept /\ Record(rec, e)[e.kind] = Update(rec[e.kind], e.flow, Shut)
<1> DEFINE s == rec[e.kind]
<1>1. e.what \in What /\ e.kind \in Kind /\ Entry(e) \in Item
    BY NewItem DEF Event
<1>2. CASE e.what \in {"intercepted", "error"}
    BY <1>2 DEF Record
<1>3. CASE e.what \in {"complete", "open", "data", "end"}
    <2>1. e.kind \in Kept /\ (e.what = "complete" => e.kind = "http")
        BY <1>1, <1>3 DEF Suits, Kept
    <2>2. s \in Seq(Item)
        BY <2>1
    <2>3. ASSUME NEW r \in Seq(Item), Record(rec, e) = [rec EXCEPT ![e.kind] = r]
          PROVE  /\ Record(rec, e) \in [Kept -> Seq(Item)]
                 /\ \A k \in Kept : k # e.kind => Record(rec, e)[k] = rec[k]
                 /\ Record(rec, e)[e.kind] = r
        BY <2>1, <2>3
    <2>4. CASE e.what \in {"complete", "open"}
        <3>1. Upsert(s, Entry(e)) \in Seq(Item) /\ Append(s, Entry(e)) \in Seq(Item)
            BY <1>1, <2>2, UpsertFacts, AppendFacts
        <3>2. CASE e.what = "complete" \/ e.kind \in {"ws", "udp"}
            <4>1. CASE e.what = "complete"
                <5>1. Record(rec, e) = [rec EXCEPT !["http"] = Upsert(rec["http"], Entry(e))]
                    BY <4>1 DEF Record
                <5>2. Record(rec, e) = [rec EXCEPT ![e.kind] = Upsert(s, Entry(e))]
                    BY <2>1, <4>1, <5>1
                <5>3. QED
                    BY <2>1, <2>3, <2>4, <3>1, <5>2
            <4>2. CASE e.what = "open"
                <5>1. Record(rec, e) = [rec EXCEPT ![e.kind] = Upsert(s, Entry(e))]
                    BY <3>2, <4>2 DEF Record
                <5>2. QED
                    BY <2>1, <2>3, <2>4, <3>1, <5>1
            <4>3. QED
                BY <2>4, <4>1, <4>2
        <3>3. CASE ~(e.what = "complete" \/ e.kind \in {"ws", "udp"})
            <4>1. Record(rec, e) = [rec EXCEPT ![e.kind] = Append(s, Entry(e))]
                BY <2>1, <2>4, <3>3 DEF Record
            <4>2. QED
                BY <2>1, <2>3, <2>4, <3>1, <4>1
        <3>4. QED
            BY <3>2, <3>3
    <2>5. CASE e.what = "data"
        <3> DEFINE r == Update(s, e.flow, More)
        <3>1. Record(rec, e) = [rec EXCEPT ![e.kind] = r]
            BY <2>1, <2>5 DEF Record
        <3>2. r \in Seq(Item)
            BY <2>2, UpdateFacts
        <3>3. /\ Record(rec, e) \in [Kept -> Seq(Item)]
              /\ \A k \in Kept : k # e.kind => Record(rec, e)[k] = rec[k]
              /\ Record(rec, e)[e.kind] = r
            BY <2>3, <3>1, <3>2
        <3>4. QED
            BY <2>1, <2>5, <3>3
    <2>6. CASE e.what = "end"
        <3> DEFINE r == Update(s, e.flow, Shut)
        <3>1. Record(rec, e) = [rec EXCEPT ![e.kind] = r]
            BY <2>1, <2>6 DEF Record
        <3>2. r \in Seq(Item)
            BY <2>2, UpdateFacts
        <3>3. /\ Record(rec, e) \in [Kept -> Seq(Item)]
              /\ \A k \in Kept : k # e.kind => Record(rec, e)[k] = rec[k]
              /\ Record(rec, e)[e.kind] = r
            BY <2>3, <3>1, <3>2
        <3>4. QED
            BY <2>1, <2>6, <3>3
    <2>7. QED
        BY <1>3, <2>4, <2>5, <2>6
<1>4. QED
    BY <1>1, <1>2, <1>3 DEF What

\* What an event makes of a list of rows.
LEMMA ApplyCases ==
    ASSUME NEW rows \in Seq(Item), NEW e \in Event
    PROVE  \/ e.what = "intercepted" /\ Apply(rows, e) = Append(rows, Row(e, "pending"))
           \/ e.what \in {"open", "error"} /\ Apply(rows, e) = Append(rows, Row(e, e.kind))
           \/ /\ e.what = "complete" /\ Apply(rows, e) = Append(rows, Row(e, "http"))
              /\ \A i \in 1..Len(rows) : ~IsPending(rows[i], e.flow)
           \/ /\ e.what = "complete"
              /\ \E p \in 1..Len(rows) : /\ IsPending(rows[p], e.flow)
                                         /\ Apply(rows, e) = [rows EXCEPT ![p] = Row(e, "http")]
           \/ e.what = "data" /\ Apply(rows, e) = UpdateRow(rows, e, More)
           \/ e.what = "end" /\ Apply(rows, e) = UpdateRow(rows, e, Shut)
<1>1. e.what \in What
    BY DEF Event
<1>2. CASE e.what = "complete"
    <2>1. Apply(rows, e) = Promote(rows, e)
        BY <1>2 DEF Apply
    <2>2. CASE \E i \in 1..Len(rows) : IsPending(rows[i], e.flow)
        <3> DEFINE p == CHOOSE i \in 1..Len(rows) : IsPending(rows[i], e.flow)
        <3>1. p \in 1..Len(rows) /\ IsPending(rows[p], e.flow)
            BY <2>2
        <3>2. Apply(rows, e) = [rows EXCEPT ![p] = Row(e, "http")]
            BY <2>1, <2>2 DEF Promote
        <3>3. QED
            BY <1>2, <3>1, <3>2
    <2>3. CASE ~\E i \in 1..Len(rows) : IsPending(rows[i], e.flow)
        BY <1>2, <2>1, <2>3 DEF Promote
    <2>4. QED
        BY <2>2, <2>3
<1>3. CASE e.what = "intercepted"
    BY <1>3 DEF Apply
<1>4. CASE e.what \in {"open", "error"}
    BY <1>4 DEF Apply
<1>5. CASE e.what = "data"
    BY <1>5 DEF Apply
<1>6. CASE e.what = "end"
    BY <1>6 DEF Apply
<1>7. QED
    BY <1>1, <1>2, <1>3, <1>4, <1>5, <1>6 DEF What

\* Rows stay where they are and keep their flow; at most one is added.
LEMMA ApplyKeeps ==
    ASSUME NEW rows \in Seq(Item), NEW e \in Event
    PROVE  /\ Apply(rows, e) \in Seq(Item)
           /\ Len(Apply(rows, e)) \in {Len(rows), Len(rows) + 1}
           /\ \A i \in 1..Len(rows) : Apply(rows, e)[i].flow = rows[i].flow
<1>1. Row(e, "pending") \in Item /\ Row(e, "http") \in Item /\ Row(e, e.kind) \in Item
    BY NewItem
<1>2. \A i \in 1..Len(rows) : rows[i] \in Item
    OBVIOUS
<1>3. ASSUME NEW x \in Item, Apply(rows, e) = Append(rows, x)
      PROVE  /\ Apply(rows, e) \in Seq(Item)
             /\ Len(Apply(rows, e)) = Len(rows) + 1
             /\ \A i \in 1..Len(rows) : Apply(rows, e)[i].flow = rows[i].flow
    BY <1>3, AppendFacts
<1>4. ASSUME NEW p \in 1..Len(rows), IsPending(rows[p], e.flow),
             Apply(rows, e) = [rows EXCEPT ![p] = Row(e, "http")]
      PROVE  /\ Apply(rows, e) \in Seq(Item)
             /\ Len(Apply(rows, e)) = Len(rows)
             /\ \A i \in 1..Len(rows) : Apply(rows, e)[i].flow = rows[i].flow
    BY <1>1, <1>4, ExceptSeq DEF IsPending, Row
<1>5. ASSUME Apply(rows, e) \in {UpdateRow(rows, e, More), UpdateRow(rows, e, Shut)}
      PROVE  /\ Apply(rows, e) \in Seq(Item)
             /\ Len(Apply(rows, e)) = Len(rows)
             /\ \A i \in 1..Len(rows) : Apply(rows, e)[i].flow = rows[i].flow
    <2>1. \A i \in 1..Len(rows) : More(rows[i]).flow = rows[i].flow /\ Shut(rows[i]).flow = rows[i].flow
        BY <1>2, ItemFacts
    <2>2. CASE Apply(rows, e) = UpdateRow(rows, e, More)
        <3> DEFINE t == UpdateRow(rows, e, More)
        <3>1. t \in Seq(Item) /\ Len(t) = Len(rows)
            BY UpdateRowFacts
        <3>2. \A i \in 1..Len(rows) :
                 t[i] = IF rows[i].flow = e.flow /\ rows[i].kind = e.kind THEN More(rows[i]) ELSE rows[i]
            BY DEF UpdateRow
        <3> HIDE DEF t
        <3>3. \A i \in 1..Len(rows) : t[i].flow = rows[i].flow
            BY <2>1, <3>2
        <3>4. QED
            BY <2>2, <3>1, <3>3 DEF t
    <2>3. CASE Apply(rows, e) = UpdateRow(rows, e, Shut)
        <3> DEFINE t == UpdateRow(rows, e, Shut)
        <3>1. t \in Seq(Item) /\ Len(t) = Len(rows)
            BY UpdateRowFacts
        <3>2. \A i \in 1..Len(rows) :
                 t[i] = IF rows[i].flow = e.flow /\ rows[i].kind = e.kind THEN Shut(rows[i]) ELSE rows[i]
            BY DEF UpdateRow
        <3> HIDE DEF t
        <3>3. \A i \in 1..Len(rows) : t[i].flow = rows[i].flow
            BY <2>1, <3>2
        <3>4. QED
            BY <2>3, <3>1, <3>3 DEF t
    <2>4. QED
        BY <1>5, <2>2, <2>3
<1>6. QED
    BY <1>1, <1>3, <1>4, <1>5, ApplyCases

-----------------------------------------------------------------------------
(* What the actions do, one variable at a time.                            *)

\* Nobody is further than the script; a decision only takes requests away.
LEMMA FlowTypesStep ==
    ASSUME FlowTypes, [Next]_vars
    PROVE  FlowTypes'
<1>1. UNCHANGED <<kind, iface>>
    BY Footprint DEF Touched
<1>2. main' \in {"running", "returned", "stopped", "saved"}
    <2>1. CASE Return
        BY <2>1 DEF Return
    <2>2. CASE Shutdown
        BY <2>2 DEF Shutdown, ProxyStops, Save, SaveLate
    <2>3. QED
        BY <2>1, <2>2, Footprint DEF Touched, FlowTypes
<1>3. ASSUME UNCHANGED done, held' \in SUBSET held PROVE FlowTypes'
    BY <1>1, <1>2, <1>3 DEF FlowTypes
<1>4. ASSUME NEW f \in Flow, Emit(f) PROVE FlowTypes'
    <2>1. kind[f] \in Kind /\ done[f] \in Nat /\ Len(Script(kind[f])) \in 1..4
        BY ScriptFacts DEF FlowTypes
    <2>2. done' = [done EXCEPT ![f] = @ + 1] /\ held' \in SUBSET Flow
        BY <1>4 DEF Emit, FlowTypes
    <2>3. done[f] + 1 \in Nat /\ done[f] + 1 <= Len(Script(kind[f]))
        BY <1>4, <2>1 DEF Emit, Finished, FlowTypes
    <2>4. done' \in [Flow -> Nat] /\ \A g \in Flow : done'[g] <= Len(Script(kind[g]))
        BY <2>2, <2>3 DEF FlowTypes
    <2>5. QED
        BY <1>1, <1>2, <2>2, <2>4 DEF FlowTypes
<1>5. ASSUME NEW f \in Flow, Expire(f) PROVE FlowTypes'
    BY <1>3, <1>5 DEF Expire
<1>6. ASSUME NEW f \in Flow, PageDecide(f) PROVE FlowTypes'
    BY <1>3, <1>6 DEF PageDecide, PageStep
<1>7. CASE Key
    <2>1. held' \in SUBSET held
        BY <1>7 DEF Key, SelectNext, SelectPrev, SelectFirst, SelectLast, Select, SetFilter,
                    Clear, Forward, Drop, Edit, Discard
    <2>2. QED
        BY <1>3, <1>7, <2>1 DEF Key
<1>8. QED
    BY <1>3, <1>4, <1>5, <1>6, <1>7, Footprint DEF Touched

\* The event a flow emits is one of its own, and further than any before.
LEMMA EmitFacts ==
    ASSUME FlowTypes, NEW f \in Flow, Emit(f)
    PROVE  LET e == Ev(f, Script(kind[f])[done[f] + 1])
           IN /\ e \in Event /\ e.flow = f /\ e.kind = KindOf(f)
              /\ Suits(e.what, e.kind)
              /\ Level(f) < Rank(e.what) /\ Rank(e.what) = Level(f)'
              /\ \A g \in Flow \cup {0} : g # f => Level(g)' = Level(g)
<1> DEFINE k == kind[f]
           d == done[f]
           e == Ev(f, Script(k)[d + 1])
<1>1. k \in Kind /\ d \in Nat /\ Len(Script(k)) \in 1..4 /\ d < Len(Script(k)) /\ f # 0
    BY ScriptFacts, FlowAssumption DEF FlowTypes, Emit, Finished
<1>2. d + 1 \in 1..Len(Script(k))
    BY <1>1
<1>3. Script(k)[d + 1] \in What /\ Suits(Script(k)[d + 1], k)
    BY <1>1, <1>2, ScriptFacts
<1>4. e.flow = f /\ e.kind = k /\ e.what = Script(k)[d + 1]
    BY DEF Ev
<1>5. e \in Event
    BY <1>1, <1>3 DEF Ev, Event, Ids
<1>6. KindOf(f) = k
    BY <1>1 DEF KindOf, KindAt
<1>7. kind' = kind /\ done' = [done EXCEPT ![f] = d + 1]
    BY DEF Emit
<1>8. done'[f] = d + 1 /\ \A g \in Flow : g # f => done'[g] = done[g]
    BY <1>7 DEF FlowTypes
<1>9. Level(f)' = Rank(Script(k)[d + 1])
    <2>1. done'[f] # 0 /\ kind'[f] = k
        BY <1>1, <1>7, <1>8
    <2>2. QED
        BY <1>1, <1>8, <2>1 DEF Level, LevelAt
<1>10. Level(f) < Rank(Script(k)[d + 1])
    <2>1. CASE d = 0
        BY <1>1, <1>3, <2>1, RankType DEF Level, LevelAt
    <2>2. CASE d # 0
        <3>1. d \in 1..Len(Script(k)) - 1
            BY <1>1, <2>2
        <3>2. Rank(Script(k)[d]) < Rank(Script(k)[d + 1])
            BY <1>1, <3>1, ScriptFacts
        <3>3. QED
            BY <1>1, <2>2, <3>2 DEF Level, LevelAt
    <2>3. QED
        BY <2>1, <2>2
<1>11. \A g \in Flow \cup {0} : g # f => Level(g)' = Level(g)
    BY <1>7, <1>8 DEF Level, LevelAt
<1>12. QED
    BY <1>3, <1>4, <1>5, <1>6, <1>9, <1>10, <1>11

\* Taking the first of a queue.
LEMMA TailFacts ==
    ASSUME NEW S, NEW s \in Seq(S), s # <<>>
    PROVE  /\ Head(s) \in S /\ Head(s) = s[1] /\ 1 \in 1..Len(s)
           /\ Tail(s) \in Seq(S) /\ Len(Tail(s)) = Len(s) - 1
           /\ \A i \in 1..Len(Tail(s)) : i + 1 \in 1..Len(s) /\ Tail(s)[i] = s[i + 1]
<1>1. Len(s) \in Nat \ {0}
    BY EmptySeq
<1>2. /\ Head(s) \in S /\ Tail(s) \in Seq(S) /\ Len(Tail(s)) = Len(s) - 1
      /\ \A i \in 1..Len(Tail(s)) : Tail(s)[i] = s[i + 1]
    BY HeadTailProperties
<1>3. Head(s) = s[1]
    OBVIOUS
<1>4. \A i \in 1..Len(Tail(s)) : i + 1 \in 1..Len(s)
    BY <1>1, <1>2
<1>5. QED
    BY <1>1, <1>2, <1>3, <1>4

\* Passing an event on to the interface.
LEMMA DeliverFacts ==
    ASSUME ChannelTypes, LimitInv, NEW e \in Event, Deliver(e)
    PROVE  /\ ui' \in {ui, Append(ui, e)} /\ ui' \in Seq(Event)
           /\ Len(ui') <= UiCap /\ Len(ui') >= Len(ui)
<1>1. ui \in Seq(Event) /\ Len(ui) \in Nat /\ UiCap \in Nat /\ Len(ui) <= UiCap
    BY CapAssumption DEF ChannelTypes, LimitInv
<1>2. CASE UNCHANGED ui
    BY <1>1, <1>2
<1>3. CASE Len(ui) < UiCap /\ ui' = Append(ui, e)
    <2>1. Append(ui, e) \in Seq(Event) /\ Len(Append(ui, e)) = Len(ui) + 1
        BY <1>1, AppendProperties
    <2>2. QED
        BY <1>1, <1>3, <2>1
<1>4. QED
    BY <1>2, <1>3 DEF Deliver

\* What the type of the fan-out task says of its place and of its backlog.
LEMMA FanFacts ==
    ASSUME ChannelTypes
    PROVE  /\ fan.at \in {"initial", "recv", "record", "send", "ended", "aborted"}
           /\ fan.todo \in Seq(Event) /\ <<>> \in Seq(Event)
           /\ fan.todo # <<>> => Len(fan.todo) \in Nat \ {0} /\ fan.todo[1] \in Event
           /\ FanIdle.at = "recv" /\ FanIdle.todo = <<>>
           /\ \A a \in {"initial", "recv", "record", "send", "ended", "aborted"}, s \in Seq(Event) :
                 [at |-> a, todo |-> s] \in [at : {"initial", "recv", "record", "send", "ended", "aborted"},
                                             todo : Seq(Event)]
<1>1. fan.at \in {"initial", "recv", "record", "send", "ended", "aborted"} /\ fan.todo \in Seq(Event)
    BY DEF ChannelTypes
<1>2. fan.todo # <<>> => Len(fan.todo) \in Nat \ {0}
    BY <1>1, EmptySeq
<1>3. fan.todo # <<>> => fan.todo[1] \in Event
    BY <1>1, <1>2
<1>4. <<>> \in Seq(Event)
    BY EmptySeq
<1>5. QED
    BY <1>1, <1>2, <1>3, <1>4 DEF FanIdle

\* What the fan-out holds next, and what it has passed on.
LEMMA FanMoves ==
    ASSUME ChannelTypes, LimitInv, FanInv, Fanout
    PROVE  \/ /\ FanInitial /\ fan.todo # <<>> /\ Deliver(Head(fan.todo))
              /\ fan'.at = "initial" /\ fan'.todo = Tail(fan.todo)
           \/ FanInitial /\ fan.todo = <<>> /\ ui' = ui /\ fan' = FanIdle
           \/ /\ FanReceive /\ core # <<>> /\ fan.todo = <<>> /\ ui' = ui
              /\ fan'.at = "record" /\ fan'.todo = <<Head(core)>> /\ core' = Tail(core)
           \/ FanRecord /\ fan.at = "record" /\ ui' = ui /\ fan'.at = "send" /\ fan'.todo = fan.todo
           \/ FanSend /\ fan.at = "send" /\ Deliver(Head(fan.todo)) /\ fan' = FanIdle
           \/ FanEnd /\ ui' = ui /\ fan'.at = "ended" /\ fan.todo = <<>> /\ fan'.todo = <<>>
<1>1. fan \in [at : {"initial", "recv", "record", "send", "ended", "aborted"}, todo : Seq(Event)]
    BY DEF ChannelTypes
<1>2. CASE FanInitial
    BY <1>1, <1>2 DEF FanInitial
<1>3. CASE FanReceive
    BY <1>1, <1>3 DEF FanReceive, FanInv
<1>4. CASE FanRecord
    BY <1>1, <1>4 DEF FanRecord
<1>5. CASE FanSend
    <2>1. fan.todo \in Seq(Event) /\ Len(fan.todo) = 1
        BY <1>1, <1>5 DEF FanSend, FanInv
    <2>2. fan.todo[1] = Head(fan.todo)
        BY <2>1
    <2>3. QED
        BY <1>5, <2>2 DEF FanSend
<1>6. CASE FanEnd
    BY <1>6 DEF FanEnd, FanInv
<1>7. QED
    BY <1>2, <1>3, <1>4, <1>5, <1>6 DEF Fanout

\* The queues stay queues of events inside their limits.
LEMMA CoreStep ==
    ASSUME FlowTypes, ChannelTypes, LimitInv, FanInv, [Next]_vars
    PROVE  /\ core' \in Seq(Event) /\ Len(core') <= CoreCap
           /\ backlog' \in Nat
           /\ fan'.at # "aborted" =>
                 backlog' = Len(core') + (IF fan'.at = "record" THEN 1 ELSE 0)
<1>1. core \in Seq(Event) /\ Len(core) \in Nat /\ Len(core) <= CoreCap /\ backlog \in Nat
    BY DEF ChannelTypes, LimitInv
<1>2. ASSUME NEW f \in Flow, Emit(f)
      PROVE  /\ core' \in Seq(Event) /\ Len(core') <= CoreCap
             /\ backlog' - Len(core') = backlog - Len(core)
             /\ backlog' \in Nat /\ fan' = fan
    <2> DEFINE e == Ev(f, Script(kind[f])[done[f] + 1])
    <2>1. e \in Event
        BY <1>2, EmitFacts
    <2>2. Append(core, e) \in Seq(Event) /\ Len(Append(core, e)) = Len(core) + 1
        BY <1>1, <2>1, AppendProperties
    <2>3. fan' = fan
        BY <1>2 DEF Emit, screen
    <2>4. \/ core' = Append(core, e) /\ Len(core) < CoreCap /\ backlog' = backlog + 1
          \/ core' = core /\ backlog' = backlog
        BY <1>2 DEF Emit
    <2> DEFINE q == Append(core, e)
    <2> HIDE DEF e, q
    <2>5. CASE core' = q /\ Len(core) < CoreCap /\ backlog' = backlog + 1
        BY <1>1, <2>2, <2>3, <2>5, CapAssumption DEF q
    <2>6. CASE core' = core /\ backlog' = backlog
        BY <1>1, <2>3, <2>6
    <2>7. QED
        BY <2>4, <2>5, <2>6 DEF q
<1>3. CASE \E f \in Flow : Emit(f)
    <2>1. PICK f \in Flow : Emit(f)
        BY <1>3
    <2>2. /\ core' \in Seq(Event) /\ Len(core') <= CoreCap
          /\ backlog' - Len(core') = backlog - Len(core)
          /\ backlog' \in Nat /\ fan' = fan
        BY <1>2, <2>1
    <2>3. Len(core') \in Nat
        BY <2>2
    <2>4. QED
        BY <1>1, <2>2, <2>3 DEF FanInv
<1>4. CASE FanReceive
    <2>1. core # <<>> /\ core' = Tail(core) /\ backlog' = backlog
        BY <1>4 DEF FanReceive
    <2>2. core' \in Seq(Event) /\ Len(core') = Len(core) - 1
        BY <1>1, <2>1, TailFacts
    <2>3. fan.at = "recv" /\ fan'.at = "record"
        BY <1>4 DEF FanReceive
    <2>4. backlog = Len(core)
        BY <1>1, <2>3 DEF FanInv
    <2>5. QED
        BY <1>1, <2>1, <2>2, <2>3, <2>4, CapAssumption
<1>5. CASE FanRecord
    <2>1. fan.at = "record" /\ backlog' = backlog - 1 /\ core' = core
        BY <1>5 DEF FanRecord
    <2>2. fan'.at = "send"
        BY <1>5 DEF FanRecord, ChannelTypes
    <2>3. backlog = Len(core) + 1
        BY <1>1, <2>1 DEF FanInv
    <2>4. QED
        BY <1>1, <2>1, <2>2, <2>3
<1>6. CASE UNCHANGED <<done, core, backlog>>
    <2>1. core' = core /\ backlog' = backlog
        BY <1>6
    <2>2. CASE fan' = fan
        BY <1>1, <2>1, <2>2 DEF FanInv
    <2>3. CASE SaveLate
        BY <1>1, <2>1, <2>3 DEF SaveLate
    <2>4. CASE Fanout
        <3>1. CASE FanReceive
            BY <1>4, <3>1
        <3>2. CASE FanRecord
            BY <1>5, <3>2
        <3>3. CASE FanInitial \/ FanSend \/ FanEnd
            <4>1. fan.at \notin {"record", "aborted"} /\ fan'.at # "record"
                BY <3>3 DEF FanInitial, FanSend, FanEnd, FanIdle, ChannelTypes
            <4>2. backlog = Len(core)
                BY <1>1, <4>1 DEF FanInv
            <4>3. QED
                BY <1>1, <2>1, <4>1, <4>2
        <3>4. QED
            BY <2>4, <3>1, <3>2, <3>3 DEF Fanout
    <2>5. QED
        BY <2>2, <2>3, <2>4, Footprint DEF Touched
<1>7. QED
    BY <1>3, <1>4, <1>5, <1>6, Footprint DEF Touched

\* The channel to the interface stays within its capacity.
LEMMA UiStep ==
    ASSUME ChannelTypes, LimitInv, FanInv, [Next]_vars
    PROVE  ui' \in Seq(Event) /\ Len(ui') <= UiCap
<1>1. ui \in Seq(Event) /\ Len(ui) \in Nat /\ Len(ui) <= UiCap /\ UiCap \in Nat
    BY CapAssumption DEF ChannelTypes, LimitInv
<1>2. CASE ui' = ui
    BY <1>1, <1>2
<1>3. CASE FanInitial \/ FanSend
    <2>2. CASE FanSend
        <3>1. fan.todo # <<>>
            BY <2>2, FanFacts DEF FanSend, FanInv
        <3>2. fan.todo[1] \in Event /\ Deliver(fan.todo[1])
            BY <2>2, <3>1, FanFacts DEF FanSend
        <3>3. QED
            BY <3>2, DeliverFacts
    <2>3. CASE FanInitial
        <3>1. CASE fan.todo = <<>>
            BY <1>2, <2>3, <3>1 DEF FanInitial
        <3>2. CASE fan.todo # <<>>
            <4>1. Head(fan.todo) \in Event
                BY <3>2, FanFacts, TailFacts
            <4>2. QED
                BY <2>3, <3>2, <4>1, DeliverFacts DEF FanInitial
        <3>3. QED
            BY <3>1, <3>2
    <2>4. QED
        BY <1>3, <2>2, <2>3
<1>4. CASE TuiReceive \/ TerminalReceive \/ Broadcast
    <2>1. ui # <<>> /\ ui' = Tail(ui)
        BY <1>4 DEF TuiReceive, TerminalReceive, Broadcast
    <2>2. QED
        BY <1>1, <2>1, TailFacts
<1>5. QED
    BY <1>2, <1>3, <1>4, Footprint DEF Touched

\* The fan-out task holds a backlog exactly where its code has one.
LEMMA FanStep ==
    ASSUME FlowTypes, ChannelTypes, LimitInv, FanInv, [Next]_vars
    PROVE  FanInv' /\ fan' \in [at : {"initial", "recv", "record", "send", "ended", "aborted"},
                                todo : Seq(Event)]
<1> DEFINE Shape ==
              /\ fan'.at \in {"record", "send"} => Len(fan'.todo) = 1
              /\ fan'.at \in {"recv", "ended", "aborted"} => fan'.todo = <<>>
              /\ fan'.at = "ended" => core' = <<>> /\ \A f \in Flow : Finished(f)'
              /\ fan'.at = "aborted" => main' = "saved"
              /\ fan' \in [at : {"initial", "recv", "record", "send", "ended", "aborted"},
                           todo : Seq(Event)]
<1>1. fan'.at # "aborted" => backlog' = Len(core') + (IF fan'.at = "record" THEN 1 ELSE 0)
    BY CoreStep
<1> SUFFICES Shape
    BY <1>1 DEF FanInv
<1>2. fan \in [at : {"initial", "recv", "record", "send", "ended", "aborted"}, todo : Seq(Event)]
    BY DEF ChannelTypes
<1>3. CASE fan' = fan
    <2>1. CASE fan.at = "ended"
        <3>1. core = <<>> /\ \A f \in Flow : Finished(f)
            BY <2>1 DEF FanInv
        <3>2. ~FanReceive /\ ~FanRecord /\ \A f \in Flow : ~Emit(f)
            BY <2>1, <3>1 DEF FanReceive, FanRecord, Emit
        <3>3. core' = core /\ done' = done /\ kind' = kind
            BY <3>2, Footprint DEF Touched
        <3>4. \A f \in Flow : Finished(f)'
            BY <3>1, <3>3 DEF Finished
        <3>5. QED
            BY <1>2, <1>3, <2>1, <3>1, <3>3, <3>4 DEF FanInv
    <2>2. CASE fan.at = "aborted"
        <3>1. main = "saved" /\ ~Return /\ ~Shutdown
            BY <2>2 DEF FanInv, Return, Shutdown, ProxyStops, Save, SaveLate
        <3>2. main' = "saved"
            BY <3>1, Footprint DEF Touched
        <3>3. QED
            BY <1>2, <1>3, <2>2, <3>2 DEF FanInv
    <2>3. CASE fan.at \notin {"ended", "aborted"}
        BY <1>2, <1>3, <2>3 DEF FanInv
    <2>4. QED
        BY <2>1, <2>2, <2>3
<1>4. CASE SaveLate
    BY <1>4, FanFacts DEF SaveLate
<1>5. CASE Fanout
    <2>1. fan'.at \in {"initial", "recv", "record", "send", "ended"}
        BY <1>5, FanFacts, FanMoves
    <2>2. CASE FanInitial
        <3>1. CASE fan.todo = <<>>
            <4>1. fan' = [at |-> "recv", todo |-> <<>>]
                BY <2>2, <3>1 DEF FanInitial, FanIdle
            <4>2. QED
                BY <4>1, FanFacts
        <3>2. CASE fan.todo # <<>>
            <4>1. Tail(fan.todo) \in Seq(Event)
                BY <3>2, FanFacts, TailFacts
            <4>2. QED
                BY <1>2, <2>2, <3>2, <4>1 DEF FanInitial
        <3>3. QED
            BY <3>1, <3>2
    <2>3. CASE FanReceive
        <3>1. Head(core) \in Event
            BY <2>3, TailFacts DEF FanReceive, ChannelTypes
        <3>2. <<Head(core)>> \in Seq(Event) /\ Len(<<Head(core)>>) = 1
            BY <3>1
        <3>3. QED
            BY <2>3, <3>2 DEF FanReceive
    <2>4. CASE FanRecord
        BY <1>2, <2>4 DEF FanRecord, FanInv
    <2>5. CASE FanSend
        BY <2>5, FanFacts DEF FanSend, FanIdle
    <2>6. CASE FanEnd
        <3>1. \A f \in Flow : Finished(f)'
            BY <2>6 DEF FanEnd, Finished
        <3>2. QED
            BY <2>6, <3>1, FanFacts DEF FanEnd
    <2>7. QED
        BY <1>5, <2>2, <2>3, <2>4, <2>5, <2>6 DEF Fanout
<1>6. QED
    BY <1>3, <1>4, <1>5, Footprint DEF Touched

-----------------------------------------------------------------------------
(* The events of a flow arrive in its order.                               *)

\* The level of a flow, in whatever state, is one of 0 to 4.
LEMMA LevelAtType ==
    ASSUME NEW k \in [Flow -> Kind], NEW d \in [Flow -> Nat], NEW f \in Ids,
           \A g \in Flow : d[g] <= Len(Script(k[g]))
    PROVE  LevelAt(f, k, d) \in 0..4
<1>1. CASE f = 0 \/ d[f] = 0
    BY <1>1 DEF LevelAt
<1>2. CASE f # 0 /\ d[f] # 0
    <2>1. f \in Flow /\ k[f] \in Kind /\ Len(Script(k[f])) \in 1..4
        BY <1>2, ScriptFacts DEF Ids
    <2>2. d[f] \in 1..Len(Script(k[f]))
        BY <1>2, <2>1
    <2>3. Script(k[f])[d[f]] \in What
        BY <2>1, <2>2, ScriptFacts
    <2>4. QED
        BY <1>2, <2>3, RankType DEF LevelAt
<1>3. QED
    BY <1>1, <1>2

\* The level of a flow in this state is one of 0 to 4.
LEMMA LevelType ==
    ASSUME FlowTypes, NEW f \in Ids
    PROVE  Level(f) \in 0..4
BY LevelAtType DEF Level, FlowTypes

\* No step takes a flow back: its level only climbs.
LEMMA LevelClimbs ==
    ASSUME FlowTypes, [Next]_vars, NEW f \in Ids
    PROVE  Level(f)' >= Level(f)
<1>1. Level(f) \in 0..4
    BY LevelType
<1>2. CASE UNCHANGED <<done, kind>>
    BY <1>1, <1>2 DEF Level, LevelAt
<1>3. ASSUME NEW g \in Flow, Emit(g) PROVE Level(f)' >= Level(f)
    <2>1. CASE g = f
        <3> DEFINE e == Ev(g, Script(kind[g])[done[g] + 1])
        <3>1. e \in Event /\ Level(f) < Rank(e.what) /\ Rank(e.what) = Level(f)'
            BY <1>3, <2>1, EmitFacts
        <3>2. Rank(e.what) \in 1..4
            BY <3>1, RankType DEF Event
        <3> HIDE DEF e
        <3>3. QED
            BY <1>1, <3>1, <3>2
    <2>2. CASE g # f
        BY <1>1, <1>3, <2>2, EmitFacts DEF Ids
    <2>3. QED
        BY <2>1, <2>2
<1>4. ASSUME NEW g \in Flow, Expire(g) \/ PageDecide(g) PROVE UNCHANGED done
    BY <1>4 DEF Expire, PageDecide, PageStep
<1>5. CASE Key
    BY <1>2, <1>5, Footprint DEF Key, Touched
<1>6. QED
    BY <1>2, <1>3, <1>4, <1>5, Footprint DEF Touched

\* Events are judged the same after every step: none takes a flow back.
LEMMA GenuineStays ==
    ASSUME FlowTypes, [Next]_vars, NEW e \in Event, Genuine(e)
    PROVE  GenuineAt(e, kind', done')
<1>1. e.flow \in Ids
    BY DEF Event
<1>2. FlowTypes'
    BY FlowTypesStep
<1>3. Level(e.flow) \in Nat
    BY <1>1, LevelType
<1>4. Level(e.flow)' \in 0..4
    BY <1>1, <1>2, LevelAtType DEF Level, FlowTypes
<1>5. Rank(e.what) \in 1..4
    BY RankType DEF Event
<1>6. Rank(e.what) <= Level(e.flow)' /\ UNCHANGED kind
    <2>1. Rank(e.what) <= Level(e.flow)
        BY DEF Genuine, GenuineAt, Level
    <2>2. QED
        BY <1>1, <1>3, <1>4, <1>5, <2>1, LevelClimbs, Footprint DEF Touched
<1>7. QED
    BY <1>6 DEF Genuine, GenuineAt, Level

\* What is true of the events of a queue stays true of what is left of it, and
\* of a longer one if it is true of the event that is added.
AllGenuine(s) == \A i \in 1..Len(s) : Genuine(s[i])

\* The three places an event waits in, from the last to the first.
InOrder(u, t, c) ==
    /\ Ordered(u) /\ Ordered(t) /\ Ordered(c)
    /\ AllBefore(u, t) /\ AllBefore(u, c) /\ AllBefore(t, c)

BeforeAll(e, s) == \A i \in 1..Len(s) : Before(e, s[i])
AfterAll(e, s)  == \A i \in 1..Len(s) : Before(s[i], e)

\* The empty channel is in order, before and after every other one.
LEMMA EmptyOrder ==
    ASSUME NEW s \in Seq(Event)
    PROVE  /\ AllGenuine(<<>>) /\ Ordered(<<>>)
           /\ AllBefore(<<>>, s) /\ AllBefore(s, <<>>)
<1>1. \A i \in 1..Len(<<>>) : FALSE
    BY EmptySeq
<1>2. QED
    BY <1>1 DEF AllGenuine, Ordered, AllBefore

\* A channel of one event is in order when the event is.
LEMMA SingleOrder ==
    ASSUME NEW e \in Event, NEW s \in Seq(Event)
    PROVE  /\ <<e>> \in Seq(Event) /\ Len(<<e>>) = 1 /\ <<e>>[1] = e
           /\ Genuine(e) => AllGenuine(<<e>>)
           /\ Ordered(<<e>>)
           /\ BeforeAll(e, s) => AllBefore(<<e>>, s)
           /\ AfterAll(e, s) => AllBefore(s, <<e>>)
<1> DEFINE u == <<e>>
<1>1. u \in Seq(Event) /\ Len(u) = 1 /\ u[1] = e
    OBVIOUS
<1> HIDE DEF u
<1>2. \A i \in 1..Len(u) : u[i] = e /\ i = 1
    BY <1>1
<1>3. Genuine(e) => AllGenuine(u)
    BY <1>2 DEF AllGenuine
<1>4. Ordered(u)
    BY <1>2 DEF Ordered
<1>5. BeforeAll(e, s) => AllBefore(u, s)
    BY <1>2 DEF BeforeAll, AllBefore
<1>6. AfterAll(e, s) => AllBefore(s, u)
    BY <1>2 DEF AfterAll, AllBefore
<1>7. QED
    BY <1>1, <1>3, <1>4, <1>5, <1>6 DEF u

\* Taking the first event keeps the order, and the event precedes the rest.
LEMMA TailOrder ==
    ASSUME NEW s \in Seq(Event), NEW t \in Seq(Event), s # <<>>
    PROVE  /\ AllGenuine(s) => AllGenuine(Tail(s)) /\ Genuine(Head(s))
           /\ Ordered(s) => Ordered(Tail(s)) /\ BeforeAll(Head(s), Tail(s))
           /\ AllBefore(s, t) => AllBefore(Tail(s), t) /\ BeforeAll(Head(s), t)
           /\ AllBefore(t, s) => AllBefore(t, Tail(s)) /\ AfterAll(Head(s), t)
<1> DEFINE u == Tail(s)
           e == Head(s)
<1>1. /\ e = s[1] /\ 1 \in 1..Len(s) /\ u \in Seq(Event) /\ Len(s) \in Nat
      /\ \A i \in 1..Len(u) : i + 1 \in 1..Len(s) /\ u[i] = s[i + 1] /\ 1 < i + 1
    BY TailFacts
<1> HIDE DEF u, e
<1>2. AllGenuine(s) => AllGenuine(u) /\ Genuine(e)
    BY <1>1 DEF AllGenuine
<1>3. Ordered(s) => Ordered(u)
    <2> SUFFICES ASSUME Ordered(s), NEW i \in 1..Len(u), NEW j \in 1..Len(u), i < j
                 PROVE  Before(u[i], u[j])
        BY DEF Ordered
    <2>1. i + 1 < j + 1
        BY <1>1
    <2>2. Before(s[i + 1], s[j + 1])
        BY <1>1, <2>1 DEF Ordered
    <2>3. QED
        BY <1>1, <2>2
<1>4. Ordered(s) => BeforeAll(e, u)
    <2> SUFFICES ASSUME Ordered(s), NEW i \in 1..Len(u)
                 PROVE  Before(e, u[i])
        BY DEF BeforeAll
    <2>1. Before(s[1], s[i + 1])
        BY <1>1 DEF Ordered
    <2>2. QED
        BY <1>1, <2>1
<1>5. AllBefore(s, t) => AllBefore(u, t) /\ BeforeAll(e, t)
    BY <1>1 DEF AllBefore, BeforeAll
<1>6. AllBefore(t, s) => AllBefore(t, u) /\ AfterAll(e, t)
    BY <1>1 DEF AllBefore, AfterAll
<1>7. QED
    BY <1>2, <1>3, <1>4, <1>5, <1>6 DEF u, e

\* Appending an event that follows all the others keeps the order.
LEMMA AppendOrder ==
    ASSUME NEW s \in Seq(Event), NEW t \in Seq(Event), NEW e \in Event
    PROVE  /\ Append(s, e) \in Seq(Event)
           /\ AllGenuine(s) /\ Genuine(e) => AllGenuine(Append(s, e))
           /\ Ordered(s) /\ AfterAll(e, s) => Ordered(Append(s, e))
           /\ AllBefore(s, t) /\ BeforeAll(e, t) => AllBefore(Append(s, e), t)
           /\ AllBefore(t, s) /\ AfterAll(e, t) => AllBefore(t, Append(s, e))
<1> DEFINE u == Append(s, e)
<1>1. /\ u \in Seq(Event) /\ Len(u) = Len(s) + 1 /\ u[Len(s) + 1] = e
      /\ \A i \in 1..Len(s) : u[i] = s[i]
    BY AppendProperties
<1> HIDE DEF u
<1>2. \A i \in 1..Len(u) : (i \in 1..Len(s) /\ u[i] = s[i]) \/ (i = Len(s) + 1 /\ u[i] = e)
    <2>1. \A i \in 1..Len(u) : i \in 1..Len(s) \/ i = Len(s) + 1
        BY <1>1
    <2>2. QED
        BY <1>1, <2>1
<1>3. AllGenuine(s) /\ Genuine(e) => AllGenuine(u)
    BY <1>2 DEF AllGenuine
<1>4. Ordered(s) /\ AfterAll(e, s) => Ordered(u)
    <2> SUFFICES ASSUME Ordered(s), AfterAll(e, s),
                        NEW i \in 1..Len(u), NEW j \in 1..Len(u), i < j
                 PROVE  Before(u[i], u[j])
        BY DEF Ordered
    <2>1. i \in 1..Len(s) /\ u[i] = s[i]
        BY <1>1, <1>2
    <2>2. CASE j \in 1..Len(s) /\ u[j] = s[j]
        BY <2>1, <2>2 DEF Ordered
    <2>3. CASE u[j] = e
        BY <2>1, <2>3 DEF AfterAll
    <2>4. QED
        BY <1>2, <2>2, <2>3
<1>5. AllBefore(s, t) /\ BeforeAll(e, t) => AllBefore(u, t)
    BY <1>2 DEF AllBefore, BeforeAll
<1>6. AllBefore(t, s) /\ AfterAll(e, t) => AllBefore(t, u)
    BY <1>2 DEF AllBefore, AfterAll
<1>7. QED
    BY <1>1, <1>3, <1>4, <1>5, <1>6 DEF u

\* What a step does with the events on their way: a flow adds one, the fan-out
\* takes one, passes one on, loses what it has or keeps it, the interface takes one.
Moves ==
    \/ \E f \in Flow : Emit(f)
    \/ FanReceive
    \/ /\ core' = core /\ fan.todo # <<>> /\ Deliver(Head(fan.todo))
       /\ fan'.todo \in {<<>>, Tail(fan.todo)}
    \/ core' = core /\ ui' = ui /\ fan'.todo \in {<<>>, fan.todo}
    \/ core' = core /\ fan' = fan /\ ui # <<>> /\ ui' = Tail(ui)

\* The three ways a step moves the events between the channels.
LEMMA QueueMoves ==
    ASSUME ChannelTypes, LimitInv, FanInv, [Next]_vars
    PROVE  Moves
<1>1. CASE Fanout
    <2>1. CASE FanReceive
        BY <2>1 DEF Moves
    <2>2. CASE ~FanReceive
        <3>1. core' = core
            BY <1>1, <2>2 DEF Fanout, FanInitial, FanRecord, FanSend, FanEnd
        <3>2. \/ fan.todo # <<>> /\ Deliver(Head(fan.todo)) /\ fan'.todo \in {<<>>, Tail(fan.todo)}
              \/ ui' = ui /\ fan'.todo \in {<<>>, fan.todo}
            <4>1. fan.at = "send" => fan.todo # <<>>
                BY FanFacts DEF FanInv
            <4>2. FanIdle.todo = <<>>
                BY DEF FanIdle
            <4>3. QED
                BY <1>1, <2>2, <4>1, <4>2, FanMoves
        <3>3. QED
            BY <3>1, <3>2 DEF Moves
    <2>3. QED
        BY <2>1, <2>2
<1>2. CASE SaveLate
    BY <1>2 DEF SaveLate, Moves
<1>3. CASE TuiReceive \/ TerminalReceive \/ Broadcast
    BY <1>3 DEF TuiReceive, TerminalReceive, Broadcast, Moves
<1>4. CASE ~Fanout /\ ~SaveLate /\ ~(TuiReceive \/ TerminalReceive \/ Broadcast) /\ \A f \in Flow : ~Emit(f)
    <2>1. ~FanInitial /\ ~FanSend /\ ~FanReceive /\ ~FanRecord
        BY <1>4 DEF Fanout
    <2>2. core' = core /\ fan' = fan /\ ui' = ui
        BY <1>4, <2>1, Footprint DEF Touched
    <2>3. QED
        BY <2>2 DEF Moves
<1>5. QED
    BY <1>1, <1>2, <1>3, <1>4 DEF Moves

\* The events on their way after an action, by what it does with them.
LEMMA OrderStep ==
    ASSUME FlowTypes, ChannelTypes, LimitInv, FanInv, OrderInv, [Next]_vars
    PROVE  OrderInv'
<1> DEFINE G(s) == \A i \in 1..Len(s) : GenuineAt(s[i], kind', done')
<1>1. ui \in Seq(Event) /\ fan.todo \in Seq(Event) /\ core \in Seq(Event)
    BY DEF ChannelTypes
<1>2. ASSUME NEW s \in Seq(Event), AllGenuine(s)
      PROVE  G(s)
    BY <1>2, GenuineStays DEF AllGenuine
<1>3. ASSUME NEW u \in Seq(Event), NEW t \in Seq(Event), NEW c \in Seq(Event),
             AllGenuine(u), AllGenuine(t), AllGenuine(c), InOrder(u, t, c),
             ui' = u, fan'.todo = t, core' = c
      PROVE  OrderInv'
    <2>1. G(u) /\ G(t) /\ G(c)
        BY <1>2, <1>3
    <2>2. QED
        BY <1>3, <2>1 DEF OrderInv, Genuine, InOrder, Ordered, AllBefore
<1>4. /\ AllGenuine(ui) /\ AllGenuine(fan.todo) /\ AllGenuine(core)
      /\ InOrder(ui, fan.todo, core)
    BY DEF OrderInv, AllGenuine, InOrder
<1>5. ASSUME NEW f \in Flow, Emit(f) PROVE OrderInv'
    <2> DEFINE e == Ev(f, Script(kind[f])[done[f] + 1])
    <2>1. /\ e \in Event /\ e.flow = f /\ Suits(e.what, e.kind) /\ e.kind = KindOf(f)
          /\ Level(f) < Rank(e.what) /\ Rank(e.what) = Level(f)'
        BY <1>5, EmitFacts
    <2>2. core' \in {core, Append(core, e)} /\ ui' = ui /\ fan' = fan /\ kind' = kind
        BY <1>5 DEF Emit
    <2> HIDE DEF e
    <2>3. Rank(e.what) \in 1..4 /\ Level(f) \in 0..4
        BY <2>1, RankType, LevelType DEF Event, Ids
    <2>4. GenuineAt(e, kind', done')
        <3>1. e.kind = KindAt(f, kind') /\ Rank(e.what) = LevelAt(f, kind', done')
            BY <2>1, <2>2 DEF KindOf, Level
        <3>2. QED
            BY <2>1, <2>3, <3>1 DEF GenuineAt
    <2>5. ASSUME NEW s \in Seq(Event), AllGenuine(s) PROVE AfterAll(e, s)
        <3> SUFFICES ASSUME NEW i \in 1..Len(s), s[i].flow = f
                     PROVE  Rank(s[i].what) < Rank(e.what)
            BY <2>1 DEF AfterAll, Before
        <3>1. s[i] \in Event /\ Rank(s[i].what) <= Level(f)
            BY <2>5 DEF AllGenuine, Genuine, GenuineAt, Level
        <3>2. Rank(s[i].what) \in 1..4
            BY <3>1, RankType DEF Event
        <3>3. QED
            BY <2>1, <2>3, <3>1, <3>2
    <2>6. CASE core' = core
        BY <1>1, <1>3, <1>4, <2>2, <2>6
    <2>7. CASE core' = Append(core, e)
        <3> DEFINE c == Append(core, e)
        <3>1. c \in Seq(Event) /\ Ordered(c) /\ AllBefore(ui, c) /\ AllBefore(fan.todo, c)
            BY <1>1, <1>4, <2>1, <2>5, AppendOrder DEF InOrder
        <3>2. Len(c) = Len(core) + 1 /\ c[Len(core) + 1] = e /\ \A i \in 1..Len(core) : c[i] = core[i]
            BY <1>1, <2>1, AppendProperties
        <3> HIDE DEF c
        <3>3. G(ui) /\ G(fan.todo) /\ G(core)
            BY <1>1, <1>2, <1>4
        <3>4. G(c)
            <4> SUFFICES ASSUME NEW i \in 1..Len(c) PROVE GenuineAt(c[i], kind', done')
                OBVIOUS
            <4>1. CASE i \in 1..Len(core)
                BY <3>2, <3>3, <4>1
            <4>2. CASE i \notin 1..Len(core)
                <5>1. i = Len(core) + 1
                    BY <1>1, <3>2, <4>2
                <5>2. QED
                    BY <2>4, <3>2, <5>1
            <4>3. QED
                BY <4>1, <4>2
        <3>5. InOrder(ui, fan.todo, c)
            BY <1>4, <3>1 DEF InOrder
        <3>6. core' = c /\ ui' = ui /\ fan'.todo = fan.todo
            BY <2>2, <2>7 DEF c
        <3>7. QED
            BY <3>3, <3>4, <3>5, <3>6 DEF OrderInv, Genuine, InOrder, Ordered, AllBefore
    <2>8. QED
        BY <2>2, <2>6, <2>7
<1>6. CASE FanReceive
    <2> DEFINE e == Head(core)
               c == Tail(core)
    <2>1. core # <<>> /\ core' = c /\ ui' = ui /\ fan'.todo = <<e>> /\ fan.todo = <<>>
        BY <1>6 DEF FanReceive, FanInv
    <2>2. e \in Event /\ c \in Seq(Event)
        BY <1>1, <2>1, TailFacts
    <2>3. /\ AllGenuine(c) /\ Genuine(e) /\ Ordered(c) /\ BeforeAll(e, c)
          /\ AllBefore(ui, c) /\ AfterAll(e, ui)
        BY <1>1, <1>4, <2>1, TailOrder DEF InOrder
    <2> HIDE DEF e, c
    <2>4. /\ <<e>> \in Seq(Event) /\ AllGenuine(<<e>>) /\ Ordered(<<e>>)
          /\ AllBefore(<<e>>, c) /\ AllBefore(ui, <<e>>)
        BY <1>1, <2>2, <2>3, SingleOrder
    <2>5. InOrder(ui, <<e>>, c)
        BY <1>4, <2>3, <2>4 DEF InOrder
    <2>6. QED
        BY <1>1, <1>3, <1>4, <2>1, <2>2, <2>3, <2>4, <2>5
<1>7. ASSUME core' = core, fan.todo # <<>>, Deliver(Head(fan.todo)),
             fan'.todo \in {<<>>, Tail(fan.todo)}
      PROVE  OrderInv'
    <2> DEFINE e == Head(fan.todo)
               t == Tail(fan.todo)
    <2>1. e \in Event /\ t \in Seq(Event) /\ <<>> \in Seq(Event)
        BY <1>1, <1>7, TailFacts, EmptySeq
    <2>2. /\ AllGenuine(t) /\ Genuine(e) /\ Ordered(t) /\ BeforeAll(e, t)
          /\ AllBefore(t, core) /\ BeforeAll(e, core) /\ AllBefore(ui, t) /\ AfterAll(e, ui)
        BY <1>1, <1>4, <1>7, TailOrder DEF InOrder
    <2>3. ui' \in {ui, Append(ui, e)} /\ ui' \in Seq(Event)
        BY <1>7, <2>1, DeliverFacts
    <2> HIDE DEF e, t
    <2>4. AllGenuine(ui') /\ Ordered(ui') /\ AllBefore(ui', t) /\ AllBefore(ui', core)
        <3>1. CASE ui' = ui
            BY <1>4, <2>2, <3>1 DEF InOrder
        <3>2. CASE ui' = Append(ui, e)
            BY <1>1, <1>4, <2>1, <2>2, <3>2, AppendOrder DEF InOrder
        <3>3. QED
            BY <2>3, <3>1, <3>2
    <2>5. InOrder(ui', t, core) /\ InOrder(ui', <<>>, core) /\ AllGenuine(<<>>)
        BY <1>1, <1>4, <2>2, <2>3, <2>4, EmptyOrder DEF InOrder
    <2>6. CASE fan'.todo = t
        BY <1>1, <1>3, <1>4, <1>7, <2>1, <2>2, <2>3, <2>4, <2>5, <2>6
    <2>7. CASE fan'.todo = <<>>
        BY <1>1, <1>3, <1>4, <1>7, <2>1, <2>2, <2>3, <2>4, <2>5, <2>7
    <2>8. QED
        BY <1>7, <2>6, <2>7 DEF t
<1>8. ASSUME core' = core, ui' = ui, fan'.todo \in {<<>>, fan.todo} PROVE OrderInv'
    <2>1. InOrder(ui, <<>>, core) /\ AllGenuine(<<>>) /\ <<>> \in Seq(Event)
        BY <1>1, <1>4, EmptyOrder, EmptySeq DEF InOrder
    <2>2. QED
        BY <1>1, <1>3, <1>4, <1>8, <2>1
<1>9. ASSUME core' = core, fan' = fan, ui # <<>>, ui' = Tail(ui) PROVE OrderInv'
    <2>1. Tail(ui) \in Seq(Event)
        BY <1>1, <1>9, TailFacts
    <2>2. /\ AllGenuine(Tail(ui)) /\ Ordered(Tail(ui))
          /\ AllBefore(Tail(ui), fan.todo) /\ AllBefore(Tail(ui), core)
        BY <1>1, <1>4, <1>9, TailOrder DEF InOrder
    <2>3. InOrder(Tail(ui), fan.todo, core)
        BY <1>4, <2>2 DEF InOrder
    <2>4. QED
        BY <1>1, <1>3, <1>4, <1>9, <2>1, <2>2, <2>3
<1>10. QED
    BY <1>5, <1>6, <1>7, <1>8, <1>9, QueueMoves DEF Moves

-----------------------------------------------------------------------------
(* The rows of an interface are behind the events still to come.           *)

\* The stage of a row is one of 1 to 4.
LEMMA StageType ==
    ASSUME NEW x \in Item
    PROVE  Stage(x) \in 1..4
BY DEF Stage, Item

\* A row stays behind a channel that grows by later events or loses its first.
LEMMA BehindFacts ==
    ASSUME NEW x \in Item, NEW s \in Seq(Event), NEW e \in Event
    PROVE  /\ Behind(x, <<>>)
           /\ BehindIt(x, e) => Behind(x, <<e>>)
           /\ Behind(x, s) /\ BehindIt(x, e) => Behind(x, Append(s, e))
           /\ s # <<>> /\ Behind(x, s) => BehindIt(x, Head(s)) /\ Behind(x, Tail(s))
<1>1. Behind(x, <<>>)
    <2>1. \A i \in 1..Len(<<>>) : FALSE
        BY EmptySeq
    <2>2. QED
        BY <2>1 DEF Behind
<1>2. BehindIt(x, e) => Behind(x, <<e>>)
    <2> DEFINE u == <<e>>
    <2>1. \A i \in 1..Len(u) : u[i] = e
        OBVIOUS
    <2> HIDE DEF u
    <2>2. BehindIt(x, e) => Behind(x, u)
        BY <2>1 DEF Behind
    <2>3. QED
        BY <2>2 DEF u
<1>3. ASSUME Behind(x, s), BehindIt(x, e) PROVE Behind(x, Append(s, e))
    <2> DEFINE u == Append(s, e)
    <2>1. /\ Len(u) = Len(s) + 1 /\ u[Len(s) + 1] = e
          /\ \A i \in 1..Len(s) : u[i] = s[i]
        BY AppendProperties
    <2> HIDE DEF u
    <2>2. \A i \in 1..Len(u) : i \in 1..Len(s) \/ i = Len(s) + 1
        BY <2>1
    <2>3. Behind(x, u)
        BY <1>3, <2>1, <2>2 DEF Behind
    <2>4. QED
        BY <2>3 DEF u
<1>4. ASSUME s # <<>>, Behind(x, s) PROVE BehindIt(x, Head(s)) /\ Behind(x, Tail(s))
    BY <1>4, TailFacts DEF Behind
<1>5. QED
    BY <1>1, <1>2, <1>3, <1>4

\* A row that stays as it is stays right and behind.
LEMMA RowStays ==
    ASSUME FlowTypes, ChannelTypes, LimitInv, FanInv, [Next]_vars, NEW x \in Item,
           RowOk(x), Behind(x, ui), Behind(x, fan.todo), Behind(x, core)
    PROVE  /\ RowAt(x, kind', done')
           /\ Behind(x, ui') /\ Behind(x, fan'.todo) /\ Behind(x, core')
<1>1. ui \in Seq(Event) /\ fan.todo \in Seq(Event) /\ core \in Seq(Event) /\ x.flow \in Ids
    BY DEF ChannelTypes, Item
<1>2. Stage(x) \in 1..4 /\ Stage(x) <= Level(x.flow) /\ Level(x.flow) \in 0..4
    BY <1>1, StageType, LevelType DEF RowOk, RowAt, Level
<1>3. RowAt(x, kind', done')
    <2>1. FlowTypes' /\ kind' = kind
        BY FlowTypesStep, Footprint DEF Touched
    <2>2. LevelAt(x.flow, kind', done') \in 0..4
        BY <1>1, <2>1, LevelAtType DEF FlowTypes
    <2>3. LevelAt(x.flow, kind', done') >= Level(x.flow)
        BY <1>1, LevelClimbs DEF Level
    <2>4. Stage(x) <= LevelAt(x.flow, kind', done')
        BY <1>2, <2>2, <2>3
    <2>5. QED
        BY <2>1, <2>4 DEF RowOk, RowAt
<1>4. ASSUME NEW f \in Flow, Emit(f)
      PROVE  Behind(x, ui') /\ Behind(x, fan'.todo) /\ Behind(x, core')
    <2> DEFINE e == Ev(f, Script(kind[f])[done[f] + 1])
    <2>1. e \in Event /\ e.flow = f /\ Level(f) < Rank(e.what)
        BY <1>4, EmitFacts
    <2>2. core' \in {core, Append(core, e)} /\ ui' = ui /\ fan' = fan
        BY <1>4 DEF Emit
    <2> HIDE DEF e
    <2>3. BehindIt(x, e)
        <3>1. Rank(e.what) \in 1..4
            BY <2>1, RankType DEF Event
        <3>2. QED
            BY <1>2, <2>1, <3>1 DEF BehindIt
    <2>4. QED
        BY <1>1, <2>1, <2>2, <2>3, BehindFacts
<1>5. CASE FanReceive
    <2>1. core # <<>> /\ core' = Tail(core) /\ ui' = ui /\ fan'.todo = <<Head(core)>>
        BY <1>5 DEF FanReceive
    <2> DEFINE e == Head(core)
    <2>2. e \in Event
        BY <1>1, <2>1, TailFacts
    <2>3. BehindIt(x, e) /\ Behind(x, Tail(core))
        BY <1>1, <2>1, <2>2, BehindFacts
    <2>4. fan'.todo = <<e>>
        BY <2>1
    <2> HIDE DEF e
    <2>5. Behind(x, <<e>>)
        BY <1>1, <2>2, <2>3, BehindFacts
    <2>6. QED
        BY <1>3, <2>1, <2>3, <2>4, <2>5
<1>6. ASSUME core' = core, fan.todo # <<>>, Deliver(Head(fan.todo)),
             fan'.todo \in {<<>>, Tail(fan.todo)}
      PROVE  Behind(x, ui') /\ Behind(x, fan'.todo) /\ Behind(x, core')
    <2> DEFINE e == Head(fan.todo)
    <2>1. e \in Event
        BY <1>1, <1>6, TailFacts
    <2>2. ui' \in {ui, Append(ui, e)}
        BY <1>6, <2>1, DeliverFacts
    <2>3. BehindIt(x, e) /\ Behind(x, Tail(fan.todo)) /\ Behind(x, <<>>)
        BY <1>1, <1>6, <2>1, BehindFacts
    <2> HIDE DEF e
    <2>4. Behind(x, ui')
        BY <1>1, <2>1, <2>2, <2>3, BehindFacts
    <2>5. QED
        BY <1>6, <2>3, <2>4
<1>7. ASSUME core' = core, ui' = ui, fan'.todo \in {<<>>, fan.todo}
      PROVE  Behind(x, ui') /\ Behind(x, fan'.todo) /\ Behind(x, core')
    <2>1. Behind(x, <<>>)
        <3>1. \A i \in 1..Len(<<>>) : FALSE
            BY EmptySeq
        <3>2. QED
            BY <3>1 DEF Behind
    <2>2. QED
        BY <1>7, <2>1
<1>8. ASSUME core' = core, fan' = fan, ui # <<>>, ui' = Tail(ui)
      PROVE  Behind(x, ui') /\ Behind(x, fan'.todo) /\ Behind(x, core')
    <2>1. Head(ui) \in Event
        BY <1>1, <1>8, TailFacts
    <2>2. QED
        BY <1>1, <1>8, <2>1, BehindFacts
<1>9. QED
    BY <1>3, <1>4, <1>5, <1>6, <1>7, <1>8, QueueMoves DEF Moves

-----------------------------------------------------------------------------
(* What an event makes of the rows.                                        *)

\* The row an event has added or changed, and the row it was before.
MovedTo(x, rows, e) ==
    /\ x \in Item /\ x.flow = e.flow
    /\ \/ e.what = "intercepted" /\ x.kind = "pending" /\ x.n = 0 /\ ~x.closed
       \/ e.what \in {"complete", "open", "error"} /\ x.kind = e.kind /\ x.n = 0 /\ ~x.closed
       \/ /\ e.what = "data" /\ x.kind = e.kind /\ x.n = 1 /\ ~x.closed
          /\ \E i \in 1..Len(rows) : rows[i].flow = e.flow /\ rows[i].kind = e.kind
       \/ /\ e.what = "end" /\ x.kind = e.kind /\ x.closed
          /\ \E i \in 1..Len(rows) :
                rows[i].flow = e.flow /\ rows[i].kind = e.kind /\ rows[i].n = x.n

\* A row that an event has just moved is at the stage of that event.
LEMMA MovedOk ==
    ASSUME NEW x, NEW rows, NEW e \in Event, Genuine(e), MovedTo(x, rows, e)
    PROVE  RowOk(x) /\ Stage(x) = Rank(e.what)
<1>1. e.kind \in Kind /\ e.kind # "pending"
    BY DEF Event, Kind
<1>2. Suits(e.what, e.kind) /\ e.kind = KindAt(e.flow, kind) /\ Rank(e.what) <= LevelAt(e.flow, kind, done)
    BY DEF Genuine, GenuineAt
<1>3. x.flow = e.flow /\ x.kind \in {"pending", e.kind}
    BY DEF MovedTo
<1>4. Stage(x) = Rank(e.what)
    BY <1>1 DEF MovedTo, Stage, Rank
<1>5. x.kind = "pending" => e.kind \in {"http", "ws"} /\ x.n = 0 /\ ~x.closed
    BY <1>1, <1>2 DEF MovedTo, Suits
<1>6. QED
    BY <1>2, <1>3, <1>4, <1>5 DEF RowOk, RowAt

\* Every row of the result is an old one in its place, or the one of the event.
LEMMA RowsApplied ==
    ASSUME NEW rows \in Seq(Item), NEW e \in Event, Suits(e.what, e.kind),
           \A i \in 1..Len(rows) : BehindIt(rows[i], e),
           NEW j \in 1..Len(Apply(rows, e))
    PROVE  \/ j \in 1..Len(rows) /\ Apply(rows, e)[j] = rows[j]
           \/ MovedTo(Apply(rows, e)[j], rows, e)
<1> DEFINE t == Apply(rows, e)
<1>1. \A i \in 1..Len(rows) : rows[i] \in Item
    OBVIOUS
<1>2. e.kind \in Kind
    BY DEF Event
<1>3. ASSUME NEW k \in {"pending", "http", e.kind}, t = Append(rows, Row(e, k)),
             \/ e.what = "intercepted" /\ k = "pending"
             \/ e.what \in {"complete", "open", "error"} /\ k = e.kind
      PROVE  \/ j \in 1..Len(rows) /\ t[j] = rows[j]
             \/ MovedTo(t[j], rows, e)
    <2>1. Row(e, k) \in Item
        BY NewItem
    <2>2. CASE j \in 1..Len(rows)
        BY <1>3, <2>1, <2>2, AppendFacts
    <2>3. CASE j \notin 1..Len(rows)
        <3>1. t[j] = Row(e, k)
            BY <1>3, <2>1, <2>3, AppendFacts
        <3>2. QED
            BY <1>3, <2>1, <3>1 DEF MovedTo, Row
    <2>4. QED
        BY <2>2, <2>3
<1>4. ASSUME NEW p \in 1..Len(rows), e.what = "complete", t = [rows EXCEPT ![p] = Row(e, "http")]
      PROVE  \/ j \in 1..Len(rows) /\ t[j] = rows[j]
             \/ MovedTo(t[j], rows, e)
    <2>1. Row(e, "http") \in Item /\ e.kind = "http"
        BY <1>4, NewItem DEF Suits
    <2>2. Len(t) = Len(rows) /\ \A i \in 1..Len(rows) : t[i] = IF i = p THEN Row(e, "http") ELSE rows[i]
        BY <1>4, <2>1, ExceptSeq
    <2>3. j \in 1..Len(rows) /\ (j = p => t[j] = Row(e, "http")) /\ (j # p => t[j] = rows[j])
        BY <2>2
    <2>4. MovedTo(Row(e, "http"), rows, e)
        BY <1>4, <2>1 DEF MovedTo, Row
    <2>5. QED
        BY <2>3, <2>4
<1>5. ASSUME e.what = "data", t = UpdateRow(rows, e, More)
      PROVE  \/ j \in 1..Len(rows) /\ t[j] = rows[j]
             \/ MovedTo(t[j], rows, e)
    <2> DEFINE u == UpdateRow(rows, e, More)
    <2>1. Len(u) = Len(rows)
        BY UpdateRowFacts
    <2>2. j \in 1..Len(rows)
        BY <1>5, <2>1
    <2>3. u[j] = IF rows[j].flow = e.flow /\ rows[j].kind = e.kind THEN More(rows[j]) ELSE rows[j]
        BY <2>2 DEF UpdateRow
    <2> HIDE DEF u
    <2>4. t[j] = u[j]
        BY <1>5 DEF u
    <2>5. CASE rows[j].flow = e.flow /\ rows[j].kind = e.kind
        <3> DEFINE x == rows[j]
        <3>1. x \in Item /\ BehindIt(x, e)
            BY <1>1, <2>2
        <3>2. Stage(x) < 3 /\ x.kind # "pending"
            BY <1>2, <1>5, <2>5, <3>1 DEF BehindIt, Rank, Kind
        <3>3. x.n = 0 /\ ~x.closed
            BY <3>1, <3>2 DEF Stage, Item
        <3>4. /\ More(x) \in Item /\ More(x).flow = x.flow /\ More(x).kind = x.kind
              /\ More(x).n = x.n + 1 /\ More(x).closed = x.closed
            BY <3>1, ItemFacts
        <3> DEFINE y == More(x)
        <3> HIDE DEF y
        <3>7. y \in Item /\ y.flow = e.flow /\ y.kind = e.kind /\ y.n = 1 /\ ~y.closed
            BY <2>5, <3>3, <3>4 DEF y
        <3>5. MovedTo(y, rows, e)
            BY <1>5, <2>2, <2>5, <3>7 DEF MovedTo
        <3>6. QED
            BY <2>3, <2>4, <2>5, <3>5 DEF y
    <2>6. QED
        BY <2>2, <2>3, <2>4, <2>5
<1>6. ASSUME e.what = "end", t = UpdateRow(rows, e, Shut)
      PROVE  \/ j \in 1..Len(rows) /\ t[j] = rows[j]
             \/ MovedTo(t[j], rows, e)
    <2> DEFINE u == UpdateRow(rows, e, Shut)
    <2>1. Len(u) = Len(rows)
        BY UpdateRowFacts
    <2>2. j \in 1..Len(rows)
        BY <1>6, <2>1
    <2>3. u[j] = IF rows[j].flow = e.flow /\ rows[j].kind = e.kind THEN Shut(rows[j]) ELSE rows[j]
        BY <2>2 DEF UpdateRow
    <2> HIDE DEF u
    <2>4. t[j] = u[j]
        BY <1>6 DEF u
    <2>5. CASE rows[j].flow = e.flow /\ rows[j].kind = e.kind
        <3> DEFINE x == rows[j]
        <3>1. x \in Item
            BY <1>1, <2>2
        <3>2. /\ Shut(x) \in Item /\ Shut(x).flow = x.flow /\ Shut(x).kind = x.kind
              /\ Shut(x).n = x.n /\ Shut(x).closed
            BY <3>1, ItemFacts
        <3>3. MovedTo(Shut(x), rows, e)
            BY <1>6, <2>2, <2>5, <3>2 DEF MovedTo
        <3>4. QED
            BY <2>3, <2>4, <2>5, <3>3
    <2>6. QED
        BY <2>2, <2>3, <2>4, <2>5
<1>7. e.what = "complete" => e.kind = "http"
    BY DEF Suits
<1>8. QED
    BY <1>3, <1>4, <1>5, <1>6, <1>7, ApplyCases

\* A list of which some rows have gone, the others as they were.
Thins(r, s) ==
    \E g \in [1..Len(r) -> 1..Len(s)] :
        /\ \A i \in 1..Len(r) : r[i] = s[g[i]]
        /\ \A i, j \in 1..Len(r) : i < j => g[i] < g[j]

OneRow(rows) ==
    \A i, j \in 1..Len(rows) :
        i < j /\ rows[i].flow = rows[j].flow => rows[i].kind = "pending" /\ rows[j].kind = "ws"

\* A list thinned from another one has no item and no double of its own.
LEMMA ThinsFacts ==
    ASSUME NEW r \in Seq(Item), NEW s \in Seq(Item), Thins(r, s)
    PROVE  /\ \A i \in 1..Len(r) : \E j \in 1..Len(s) : r[i] = s[j]
           /\ OneRow(s) => OneRow(r)
<1>1. PICK g \in [1..Len(r) -> 1..Len(s)] :
               /\ \A i \in 1..Len(r) : r[i] = s[g[i]]
               /\ \A i, j \in 1..Len(r) : i < j => g[i] < g[j]
    BY DEF Thins
<1>2. \A i \in 1..Len(r) : g[i] \in 1..Len(s)
    OBVIOUS
<1>3. \A i \in 1..Len(r) : \E j \in 1..Len(s) : r[i] = s[j]
    BY <1>1, <1>2
<1>4. ASSUME OneRow(s), NEW i \in 1..Len(r), NEW j \in 1..Len(r), i < j, r[i].flow = r[j].flow
      PROVE  r[i].kind = "pending" /\ r[j].kind = "ws"
    <2>1. g[i] < g[j] /\ r[i] = s[g[i]] /\ r[j] = s[g[j]]
        BY <1>1, <1>4
    <2>2. QED
        BY <1>2, <1>4, <2>1 DEF OneRow
<1>5. QED
    BY <1>3, <1>4 DEF OneRow

\* Every list is thinned from itself.
LEMMA SameThins ==
    ASSUME NEW s \in Seq(Item)
    PROVE  Thins(s, s)
<1> DEFINE g == [i \in 1..Len(s) |-> i]
<1>1. g \in [1..Len(s) -> 1..Len(s)] /\ \A i \in 1..Len(s) : g[i] = i
    OBVIOUS
<1> HIDE DEF g
<1>2. QED
    BY <1>1 DEF Thins

\* The empty list is thinned from every list.
LEMMA EmptyThins ==
    ASSUME NEW s \in Seq(Item)
    PROVE  <<>> \in Seq(Item) /\ Thins(<<>>, s)
<1> DEFINE r == <<>>
           g == [i \in 1..Len(r) |-> 1]
<1>1. r \in Seq(Item) /\ Len(r) = 0
    BY EmptySeq
<1>2. 1..Len(r) = {}
    BY <1>1
<1> HIDE DEF r
<1>3. g \in [1..Len(r) -> 1..Len(s)]
    BY <1>2
<1> HIDE DEF g
<1>4. Thins(r, s)
    BY <1>2, <1>3 DEF Thins
<1>5. QED
    BY <1>1, <1>4 DEF r

\* The list without its first item is thinned from it.
LEMMA TailThins ==
    ASSUME NEW s \in Seq(Item), s # <<>>
    PROVE  Tail(s) \in Seq(Item) /\ Len(Tail(s)) = Len(s) - 1 /\ Thins(Tail(s), s)
<1> DEFINE r == Tail(s)
           g == [i \in 1..Len(r) |-> i + 1]
<1>1. /\ r \in Seq(Item) /\ Len(r) = Len(s) - 1
      /\ \A i \in 1..Len(r) : i + 1 \in 1..Len(s) /\ r[i] = s[i + 1]
    BY TailFacts
<1> HIDE DEF r
<1>2. g \in [1..Len(r) -> 1..Len(s)] /\ \A i \in 1..Len(r) : g[i] = i + 1
    BY <1>1
<1> HIDE DEF g
<1>3. \A i, j \in 1..Len(r) : i < j => g[i] < g[j]
    BY <1>1, <1>2
<1>4. Thins(r, s)
    BY <1>1, <1>2, <1>3 DEF Thins
<1>5. QED
    BY <1>1, <1>4 DEF r

\* The list without one of its items is thinned from it.
LEMMA RemoveThins ==
    ASSUME NEW s \in Seq(Item), NEW p \in 1..Len(s)
    PROVE  /\ RemoveAt(s, p) \in Seq(Item) /\ Len(RemoveAt(s, p)) = Len(s) - 1
           /\ Thins(RemoveAt(s, p), s)
<1> DEFINE a == SubSeq(s, 1, p - 1)
           b == SubSeq(s, p + 1, Len(s))
           r == RemoveAt(s, p)
           g == [i \in 1..Len(r) |-> IF i < p THEN i ELSE i + 1]
<1>1. /\ a \in Seq(Item) /\ Len(a) = p - 1 /\ b \in Seq(Item) /\ Len(b) = Len(s) - p
      /\ \A i \in 1..Len(a) : a[i] = s[i]
      /\ \A i \in 1..Len(b) : b[i] = s[p + i]
    BY SubSeqProperties
<1>2. r = a \o b
    BY DEF RemoveAt
<1> HIDE DEF a, b, r
<1>3. /\ r \in Seq(Item) /\ Len(r) = Len(s) - 1
      /\ \A i \in 1..Len(r) : r[i] = IF i <= Len(a) THEN a[i] ELSE b[i - Len(a)]
    <2>1. /\ a \o b \in Seq(Item) /\ Len(a \o b) = Len(a) + Len(b)
          /\ \A i \in 1..Len(a) + Len(b) :
                (a \o b)[i] = IF i <= Len(a) THEN a[i] ELSE b[i - Len(a)]
        BY <1>1, ConcatProperties
    <2>2. QED
        BY <1>1, <1>2, <2>1
<1>4. \A i \in 1..Len(r) : r[i] = IF i < p THEN s[i] ELSE s[i + 1]
    <2> TAKE i \in 1..Len(r)
    <2>1. CASE i < p
        BY <1>1, <1>3, <2>1
    <2>2. CASE ~(i < p)
        <3>1. i - Len(a) \in 1..Len(b) /\ p + (i - Len(a)) = i + 1
            BY <1>1, <1>3, <2>2
        <3>2. QED
            BY <1>1, <1>3, <2>2, <3>1
    <2>3. QED
        BY <2>1, <2>2
<1>5. g \in [1..Len(r) -> 1..Len(s)] /\ \A i \in 1..Len(r) : g[i] = IF i < p THEN i ELSE i + 1
    BY <1>3
<1> HIDE DEF g
<1>6. \A i, j \in 1..Len(r) : i < j => g[i] < g[j]
    BY <1>3, <1>5
<1>7. \A i \in 1..Len(r) : r[i] = s[g[i]]
    BY <1>4, <1>5
<1>8. Thins(r, s)
    BY <1>5, <1>6, <1>7 DEF Thins
<1>9. QED
    BY <1>3, <1>8 DEF r

\* An event leaves one row an exchange, but for the pending row of a WebSocket.
LEMMA OneRowApplied ==
    ASSUME NEW rows \in Seq(Item), NEW e \in Event, Genuine(e), OneRow(rows),
           \A i \in 1..Len(rows) : RowOk(rows[i]) /\ BehindIt(rows[i], e)
    PROVE  OneRow(Apply(rows, e))
<1> DEFINE t == Apply(rows, e)
<1>1. \A i \in 1..Len(rows) : rows[i] \in Item
    OBVIOUS
<1>2. e.kind \in Kind /\ e.what \in What /\ Suits(e.what, e.kind) /\ e.kind = KindAt(e.flow, kind)
    BY DEF Event, Genuine, GenuineAt
\* What is there already of the flow of an event that adds a row.
<1>3. ASSUME NEW i \in 1..Len(rows), rows[i].flow = e.flow,
             e.what \in {"intercepted", "complete", "open", "error"}
      PROVE  /\ rows[i].kind = "pending" /\ e.what \in {"complete", "open"}
             /\ e.kind \in {"http", "ws"}
    <2> DEFINE x == rows[i]
    <2>1. x \in Item /\ Stage(x) < Rank(e.what) /\ Stage(x) \in 1..4
        BY <1>1, <1>3, StageType DEF BehindIt
    <2>2. e.what # "intercepted" /\ Stage(x) = 1
        BY <1>3, <2>1 DEF Rank
    <2>3. x.kind = "pending"
        BY <2>2 DEF Stage
    <2>4. e.kind \in {"http", "ws"}
        BY <1>2, <1>3, <2>3 DEF RowOk, RowAt
    <2>5. e.what # "error"
        BY <1>2, <2>4 DEF Suits
    <2>6. QED
        BY <1>3, <2>2, <2>3, <2>4, <2>5
<1>4. \A i, j \in 1..Len(rows) : i < j /\ rows[i].flow = rows[j].flow =>
          rows[i].kind = "pending" /\ rows[j].kind = "ws"
    BY DEF OneRow
<1>5. ASSUME NEW k \in {"pending", "http", e.kind}, t = Append(rows, Row(e, k)),
             \/ e.what = "intercepted" /\ k = "pending"
             \/ e.what \in {"open", "error"} /\ k = e.kind
             \/ /\ e.what = "complete" /\ k = "http"
                /\ \A i \in 1..Len(rows) : ~IsPending(rows[i], e.flow)
      PROVE  OneRow(t)
    <2>1. Row(e, k) \in Item /\ Row(e, k).flow = e.flow /\ Row(e, k).kind = k
        BY NewItem DEF Row
    <2>2. /\ Len(t) = Len(rows) + 1 /\ t[Len(rows) + 1] = Row(e, k)
          /\ \A i \in 1..Len(rows) : t[i] = rows[i]
        BY <1>5, <2>1, AppendFacts
    <2>3. \A i \in 1..Len(rows) : rows[i].flow = e.flow => rows[i].kind = "pending" /\ k = "ws"
        <3> SUFFICES ASSUME NEW i \in 1..Len(rows), rows[i].flow = e.flow
                     PROVE  rows[i].kind = "pending" /\ k = "ws"
            OBVIOUS
        <3>1. /\ rows[i].kind = "pending" /\ e.what \in {"complete", "open"}
              /\ e.kind \in {"http", "ws"}
            BY <1>3, <1>5
        <3>2. e.what = "open" /\ k = e.kind
            BY <1>5, <3>1 DEF IsPending
        <3>3. e.kind = "ws"
            BY <1>2, <3>1, <3>2 DEF Suits
        <3>4. QED
            BY <3>1, <3>2, <3>3
    <2> HIDE DEF t
    <2>4. QED
        <3> SUFFICES ASSUME NEW i \in 1..Len(t), NEW j \in 1..Len(t), i < j, t[i].flow = t[j].flow
                     PROVE  t[i].kind = "pending" /\ t[j].kind = "ws"
            BY DEF OneRow
        <3>1. i \in 1..Len(rows) /\ t[i] = rows[i]
            BY <2>2
        <3>2. CASE j \in 1..Len(rows)
            BY <1>4, <2>2, <3>1, <3>2
        <3>3. CASE j \notin 1..Len(rows)
            <4>1. j = Len(rows) + 1
                BY <2>2, <3>3
            <4>2. QED
                BY <2>1, <2>2, <2>3, <3>1, <4>1
        <3>4. QED
            BY <3>2, <3>3
<1>6. ASSUME NEW p \in 1..Len(rows), e.what = "complete", IsPending(rows[p], e.flow),
             t = [rows EXCEPT ![p] = Row(e, "http")]
      PROVE  OneRow(t)
    <2>1. Row(e, "http") \in Item /\ Row(e, "http").flow = e.flow
        BY NewItem DEF Row
    <2>2. Len(t) = Len(rows) /\ \A i \in 1..Len(rows) : t[i] = IF i = p THEN Row(e, "http") ELSE rows[i]
        BY <1>6, <2>1, ExceptSeq
    <2>3. rows[p].flow = e.flow
        BY <1>6 DEF IsPending
    <2>4. \A i \in 1..Len(rows) : rows[i].flow = e.flow => rows[i].kind = "pending"
        BY <1>3, <1>6
    <2>5. \A i \in 1..Len(rows) : rows[i].flow = e.flow => i = p
        <3> SUFFICES ASSUME NEW i \in 1..Len(rows), rows[i].flow = e.flow, i # p PROVE FALSE
            OBVIOUS
        <3>1. rows[i].kind = "pending" /\ rows[p].kind = "pending"
            BY <2>3, <2>4
        <3>2. CASE i < p
            BY <1>4, <2>3, <3>1, <3>2
        <3>3. CASE p < i
            BY <1>4, <2>3, <3>1, <3>3
        <3>4. QED
            BY <3>2, <3>3
    <2> HIDE DEF t
    <2>6. QED
        <3> SUFFICES ASSUME NEW i \in 1..Len(t), NEW j \in 1..Len(t), i < j, t[i].flow = t[j].flow
                     PROVE  t[i].kind = "pending" /\ t[j].kind = "ws"
            BY DEF OneRow
        <3>1. i \in 1..Len(rows) /\ j \in 1..Len(rows)
            BY <2>2
        <3>2. t[i].flow = rows[i].flow /\ t[j].flow = rows[j].flow
            BY <2>1, <2>2, <2>3, <3>1
        <3>3. i # p /\ j # p
            <4>1. i # j
                BY <2>2
            <4>2. rows[i].flow = e.flow /\ rows[j].flow = e.flow => FALSE
                BY <2>5, <3>1, <4>1
            <4>3. QED
                BY <2>3, <3>2, <4>2
        <3>4. QED
            BY <1>4, <2>2, <3>1, <3>2, <3>3
<1>7. ASSUME NEW u \in Seq(Item), t = u, Len(u) = Len(rows),
             \A i \in 1..Len(rows) : u[i].flow = rows[i].flow /\ u[i].kind = rows[i].kind
      PROVE  OneRow(t)
    BY <1>4, <1>7 DEF OneRow
<1>8. ASSUME t \in {UpdateRow(rows, e, More), UpdateRow(rows, e, Shut)}
      PROVE  OneRow(t)
    <2>1. \A i \in 1..Len(rows) :
              /\ More(rows[i]).flow = rows[i].flow /\ More(rows[i]).kind = rows[i].kind
              /\ Shut(rows[i]).flow = rows[i].flow /\ Shut(rows[i]).kind = rows[i].kind
        BY <1>1, ItemFacts
    <2>2. CASE t = UpdateRow(rows, e, More)
        <3> DEFINE u == UpdateRow(rows, e, More)
        <3>1. u \in Seq(Item) /\ Len(u) = Len(rows)
            BY UpdateRowFacts
        <3>2. \A i \in 1..Len(rows) : u[i] =
                 IF rows[i].flow = e.flow /\ rows[i].kind = e.kind THEN More(rows[i]) ELSE rows[i]
            BY DEF UpdateRow
        <3>3. t = u
            BY <2>2
        <3> HIDE DEF u, t
        <3>4. \A i \in 1..Len(rows) : u[i].flow = rows[i].flow /\ u[i].kind = rows[i].kind
            BY <2>1, <3>2
        <3>5. QED
            BY <1>7, <3>1, <3>3, <3>4
    <2>3. CASE t = UpdateRow(rows, e, Shut)
        <3> DEFINE u == UpdateRow(rows, e, Shut)
        <3>1. u \in Seq(Item) /\ Len(u) = Len(rows)
            BY UpdateRowFacts
        <3>2. \A i \in 1..Len(rows) : u[i] =
                 IF rows[i].flow = e.flow /\ rows[i].kind = e.kind THEN Shut(rows[i]) ELSE rows[i]
            BY DEF UpdateRow
        <3>3. t = u
            BY <2>3
        <3> HIDE DEF u, t
        <3>4. \A i \in 1..Len(rows) : u[i].flow = rows[i].flow /\ u[i].kind = rows[i].kind
            BY <2>1, <3>2
        <3>5. QED
            BY <1>7, <3>1, <3>3, <3>4
    <2>4. QED
        BY <1>8, <2>2, <2>3
<1>9. QED
    BY <1>5, <1>6, <1>8, ApplyCases

-----------------------------------------------------------------------------
(* The interface after a step.                                             *)

\* The filter shows no more rows than there are.
LEMMA ShowsFacts ==
    ASSUME NEW t \in TuiType
    PROVE  Shows(t) \in Nat /\ Shows(t) <= Len(t.rows)
<1>1. Len(t.rows) \in Nat
    BY DEF TuiType
<1>2. Visible(t) \subseteq 1..Len(t.rows)
    BY DEF Visible
<1>3. IsFiniteSet(1..Len(t.rows)) /\ Cardinality(1..Len(t.rows)) = Len(t.rows)
    BY <1>1, FS_Interval
<1>4. QED
    BY <1>1, <1>2, <1>3, FS_Subset, FS_CardinalityType DEF Shows

\* The TUI that has not been opened has no rows and fits.
LEMMA NoTuiFits ==
    Fits(NoTui) /\ NoTui.rows = <<>>
<1>1. <<>> \in Seq(Item) /\ Len(<<>>) = 0
    BY EmptySeq
<1>2. NoTui \in TuiType /\ NoTui.rows = <<>> /\ NoTui.sel = 0
    BY <1>1 DEF NoTui, TuiType
<1>3. QED
    BY <1>1, <1>2, CapAssumption DEF Fits

\* Dropping the pending row of a flow keeps the selection inside.
LEMMA WithoutFacts ==
    ASSUME NEW t, Fits(t), NEW f
    PROVE  Fits(Without(t, f)) /\ Thins(Without(t, f).rows, t.rows)
<1>1. t \in TuiType /\ t.rows \in Seq(Item) /\ t.sel \in Nat /\ MaxRows \in Nat
    BY CapAssumption DEF Fits, TuiType
<1>2. CASE ~\E i \in 1..Len(t.rows) : IsPending(t.rows[i], f)
    BY <1>1, <1>2, SameThins DEF Without
<1>3. CASE \E i \in 1..Len(t.rows) : IsPending(t.rows[i], f)
    <2> DEFINE p == CHOOSE i \in 1..Len(t.rows) : IsPending(t.rows[i], f)
               r == RemoveAt(t.rows, p)
               u == [t EXCEPT !.rows = r]
               n == IF u.sel > Shows(u) THEN Shows(u) ELSE u.sel
    <2>1. p \in 1..Len(t.rows)
        BY <1>3
    <2>2. Without(t, f) = [u EXCEPT !.sel = n]
        BY <1>3 DEF Without
    <2> HIDE DEF p
    <2>3. r \in Seq(Item) /\ Len(r) = Len(t.rows) - 1 /\ Thins(r, t.rows)
        BY <1>1, <2>1, RemoveThins
    <2> HIDE DEF r
    <2>4. u \in TuiType /\ u.rows = r /\ u.sel = t.sel
        BY <1>1, <2>3 DEF TuiType
    <2> HIDE DEF u
    <2>5. Shows(u) \in Nat
        BY <2>4, ShowsFacts
    <2>6. n \in Nat /\ n <= u.sel
        BY <1>1, <2>4, <2>5
    <2> HIDE DEF n
    <2> DEFINE w == [u EXCEPT !.sel = n]
    <2>7. w \in TuiType /\ w.rows = r /\ w.sel = n
        BY <2>4, <2>6 DEF TuiType
    <2> HIDE DEF w
    <2>8. Len(r) <= MaxRows /\ n <= MaxRows
        BY <1>1, <2>3, <2>4, <2>6 DEF Fits
    <2>9. Fits(w) /\ Thins(w.rows, t.rows)
        BY <2>3, <2>7, <2>8 DEF Fits
    <2>10. QED
        BY <2>2, <2>9 DEF w
<1>4. QED
    BY <1>2, <1>3

\* The keys move the selection, or take rows away.
LEMMA KeyFits ==
    ASSUME Fits(tui), Key
    PROVE  Fits(tui') /\ Thins(tui'.rows, tui.rows)
<1>1. /\ tui \in TuiType /\ tui.rows \in Seq(Item) /\ tui.sel \in Nat /\ tui.sel <= MaxRows
      /\ Len(tui.rows) <= MaxRows /\ MaxRows \in Nat \ {0}
    BY CapAssumption DEF Fits, TuiType
<1>2. Shows(tui) \in Nat /\ Shows(tui) <= MaxRows
    <2>1. Shows(tui) \in Nat /\ Shows(tui) <= Len(tui.rows) /\ Len(tui.rows) \in Nat
        BY <1>1, ShowsFacts
    <2>2. QED
        BY <1>1, <2>1
<1>3. ASSUME tui' = tui PROVE Fits(tui') /\ Thins(tui'.rows, tui.rows)
    BY <1>1, <1>3, SameThins
<1>4. ASSUME NEW i \in Nat, i <= MaxRows, Select(i) PROVE Fits(tui') /\ Thins(tui'.rows, tui.rows)
    <2>1. tui' \in TuiType /\ tui'.rows = tui.rows /\ tui'.sel = i
        BY <1>1, <1>4 DEF Select, TuiType
    <2>2. QED
        BY <1>1, <1>4, <2>1, SameThins DEF Fits
<1>5. CASE SelectNext \/ SelectPrev \/ SelectFirst \/ SelectLast
    <2>1. CASE SelectNext
        <3>1. Shows(tui) # 0 /\ Select(Clip(tui.sel + 1, 1, Shows(tui)))
            BY <2>1 DEF SelectNext
        <3>2. Clip(tui.sel + 1, 1, Shows(tui)) \in 1..Shows(tui)
            BY <1>1, <1>2, <3>1 DEF Clip
        <3>3. QED
            BY <1>1, <1>2, <1>4, <3>1, <3>2
    <2>2. CASE SelectPrev
        <3>1. Select(IF tui.sel > 1 THEN tui.sel - 1 ELSE 1)
            BY <2>2 DEF SelectPrev
        <3>2. (IF tui.sel > 1 THEN tui.sel - 1 ELSE 1) \in 1..MaxRows
            BY <1>1
        <3>3. QED
            BY <1>1, <1>4, <3>1, <3>2
    <2>3. CASE SelectFirst
        BY <1>1, <1>4, <2>3 DEF SelectFirst
    <2>4. CASE SelectLast
        BY <1>2, <1>4, <2>4 DEF SelectLast
    <2>5. QED
        BY <1>5, <2>1, <2>2, <2>3, <2>4
<1>6. CASE SetFilter
    <2>1. tui' \in TuiType /\ tui'.rows = tui.rows /\ tui'.sel = tui.sel
        BY <1>1, <1>6 DEF SetFilter, TuiType
    <2>2. QED
        BY <1>1, <2>1, SameThins DEF Fits
<1>7. CASE Clear
    <2>1. <<>> \in Seq(Item) /\ Len(<<>>) = 0 /\ Thins(<<>>, tui.rows)
        BY <1>1, EmptyThins, EmptySeq
    <2> DEFINE r == <<>>
    <2>2. tui' = [tui EXCEPT !.rows = r, !.sel = 0] /\ r \in Seq(Item) /\ Len(r) = 0 /\ Thins(r, tui.rows)
        BY <1>7, <2>1 DEF Clear
    <2> HIDE DEF r
    <2>3. tui' \in TuiType /\ tui'.rows = r /\ tui'.sel = 0
        BY <1>1, <2>2 DEF TuiType
    <2>4. QED
        BY <1>1, <2>2, <2>3 DEF Fits
<1>8. CASE Drop
    BY <1>8, WithoutFacts DEF Drop
<1>9. CASE Forward \/ Edit \/ Discard
    BY <1>3, <1>9 DEF Forward, Edit, Discard
<1>10. QED
    BY <1>5, <1>6, <1>7, <1>8, <1>9 DEF Key

\* An event that arrives, and the oldest row if there are too many.
LEMMA ReceiveFits ==
    ASSUME Fits(tui), ui \in Seq(Event), TuiReceive
    PROVE  /\ Fits(tui') /\ Head(ui) \in Event /\ ui # <<>>
           /\ Thins(tui'.rows, Apply(tui.rows, Head(ui)))
           /\ \/ tui'.rows = Apply(tui.rows, Head(ui)) /\ tui'.sel = tui.sel
              \/ /\ Len(Apply(tui.rows, Head(ui))) > MaxRows
                 /\ tui'.rows = Tail(Apply(tui.rows, Head(ui)))
                 /\ tui'.sel = IF tui.sel > 1 THEN tui.sel - 1 ELSE tui.sel
<1> DEFINE e == Head(ui)
           rows == Apply(tui.rows, e)
           full == Len(rows) > MaxRows
           r == IF full THEN Tail(rows) ELSE rows
           n == IF full /\ tui.sel > 1 THEN tui.sel - 1 ELSE tui.sel
<1>1. ui # <<>> /\ e \in Event
    BY TailFacts DEF TuiReceive
<1>2. /\ tui \in TuiType /\ tui.rows \in Seq(Item) /\ tui.sel \in Nat /\ tui.sel <= MaxRows
      /\ Len(tui.rows) <= MaxRows /\ MaxRows \in Nat \ {0} /\ Len(tui.rows) \in Nat
    BY CapAssumption DEF Fits, TuiType
<1>3. tui' = AddEvent(tui, e)
    BY DEF TuiReceive
<1> HIDE DEF e
<1>4. tui' = [tui EXCEPT !.rows = r, !.sel = n]
    BY <1>3 DEF AddEvent
<1>5. rows \in Seq(Item) /\ Len(rows) \in {Len(tui.rows), Len(tui.rows) + 1}
    BY <1>1, <1>2, ApplyKeeps
<1> HIDE DEF rows
<1>6. r \in Seq(Item) /\ Len(r) <= MaxRows /\ Thins(r, rows)
    <2>1. CASE full
        <3>1. rows # <<>>
            BY <1>2, <1>5, <2>1, EmptySeq
        <3>2. Tail(rows) \in Seq(Item) /\ Len(Tail(rows)) = Len(rows) - 1 /\ Thins(Tail(rows), rows)
            BY <1>5, <3>1, TailThins
        <3>3. r = Tail(rows)
            BY <2>1
        <3>4. Len(rows) - 1 <= MaxRows
            BY <1>2, <1>5
        <3> HIDE DEF r
        <3>5. QED
            BY <3>2, <3>3, <3>4
    <2>2. CASE ~full
        BY <1>2, <1>5, <2>2, SameThins
    <2>3. QED
        BY <2>1, <2>2
<1>7. n \in Nat /\ n <= MaxRows
    BY <1>2
<1>8. \/ r = rows /\ n = tui.sel
      \/ Len(rows) > MaxRows /\ r = Tail(rows) /\ n = IF tui.sel > 1 THEN tui.sel - 1 ELSE tui.sel
    OBVIOUS
<1> HIDE DEF r, n
<1>9. tui' \in TuiType /\ tui'.rows = r /\ tui'.sel = n
    BY <1>2, <1>4, <1>6, <1>7 DEF TuiType
<1>10. Fits(tui') /\ Thins(tui'.rows, rows)
    BY <1>6, <1>7, <1>9 DEF Fits
<1>11. QED
    BY <1>1, <1>8, <1>9, <1>10 DEF e, rows

\* The page keeps the last rows, MaxRows of them at most.
LEMMA LastRowsFacts ==
    ASSUME NEW s \in Seq(Ids)
    PROVE  LastRows(s) \in Seq(Ids) /\ Len(LastRows(s)) <= MaxRows
<1> DEFINE n == Clip(Len(s), 0, MaxRows)
           m == Len(s) - n + 1
<1>1. Len(s) \in Nat /\ MaxRows \in Nat
    BY CapAssumption
<1>2. n \in 0..MaxRows /\ n <= Len(s)
    BY <1>1 DEF Clip
<1> HIDE DEF n
<1>3. m \in 1..Len(s) + 1 /\ Len(s) - m + 1 = n
    BY <1>1, <1>2
<1>4. LastRows(s) = SubSeq(s, m, Len(s))
    BY DEF LastRows, m, n
<1> HIDE DEF m
<1>5. \A i \in m..Len(s) : s[i] \in Ids
    BY <1>3
<1>6. /\ SubSeq(s, m, Len(s)) \in Seq(Ids)
      /\ Len(SubSeq(s, m, Len(s))) = IF m <= Len(s) THEN Len(s) - m + 1 ELSE 0
    BY <1>1, <1>3, <1>5, SubSeqProperties
<1>7. QED
    BY <1>1, <1>2, <1>3, <1>4, <1>6

\* A page with one of its parts replaced is still a page.
LEMMA PageAt ==
    ASSUME NEW p, PageOk(p), NEW a \in {"load", "loaded", "open", "closed"}
    PROVE  PageOk([p EXCEPT !.at = a])
BY DEF PageOk, PageType

\* The page stays well formed with another list of requests.
LEMMA PageRequests ==
    ASSUME NEW p, PageOk(p), NEW s \in Seq(Ids), Len(s) <= MaxRows
    PROVE  PageOk([p EXCEPT !.requests = s])
BY DEF PageOk, PageType

\* The page stays well formed with other pending flows.
LEMMA PagePending ==
    ASSUME NEW p, PageOk(p), NEW s \in SUBSET Ids
    PROVE  PageOk([p EXCEPT !.pending = s])
BY DEF PageOk, PageType

\* The page stays well formed with other live rows.
LEMMA PageLive ==
    ASSUME NEW p, PageOk(p), NEW s \in SUBSET Item
    PROVE  PageOk([p EXCEPT !.live = s])
BY DEF PageOk, PageType

\* The page stays well formed with other events in its subscription.
LEMMA PageBuf ==
    ASSUME NEW p, PageOk(p), NEW s \in Seq(Event), Len(s) <= BusCap
    PROVE  PageOk([p EXCEPT !.buf = s])
BY DEF PageOk, PageType

\* A message is shown.
LEMMA ShownOk ==
    ASSUME NEW p, PageOk(p), NEW e \in Event
    PROVE  PageOk(Shown(p, e))
<1>1. /\ p.requests \in Seq(Ids) /\ p.pending \in SUBSET Ids /\ p.live \in SUBSET Item
      /\ e.flow \in Ids
    BY DEF PageOk, PageType, Event
<1>2. CASE e.what = "intercepted"
    <2>1. p.pending \cup {e.flow} \in SUBSET Ids
        BY <1>1
    <2>2. Shown(p, e) = [p EXCEPT !.pending = p.pending \cup {e.flow}]
        BY <1>2 DEF Shown
    <2>3. QED
        BY <2>1, <2>2, PagePending
<1>3. CASE e.what = "complete"
    <2> DEFINE q == [p EXCEPT !.pending = p.pending \ {e.flow}]
               s == LastRows(Append(p.requests, e.flow))
    <2>1. Append(p.requests, e.flow) \in Seq(Ids)
        BY <1>1, AppendProperties
    <2>2. s \in Seq(Ids) /\ Len(s) <= MaxRows
        BY <2>1, LastRowsFacts
    <2>3. Shown(p, e) = [q EXCEPT !.requests = s]
        BY <1>3 DEF Shown
    <2> HIDE DEF s
    <2>4. PageOk(q)
        <3>1. p.pending \ {e.flow} \in SUBSET Ids
            BY <1>1
        <3>2. QED
            BY <3>1, PagePending
    <2> HIDE DEF q
    <2>5. QED
        BY <2>2, <2>3, <2>4, PageRequests
<1>4. ASSUME NEW s \in SUBSET Item, Shown(p, e) = [p EXCEPT !.live = s]
      PROVE  PageOk(Shown(p, e))
    BY <1>4, PageLive
<1>5. CASE e.what = "open"
    <2> DEFINE s == {x \in p.live : ~SameItem(x, e)} \cup {Entry(e)}
    <2>1. s \in SUBSET Item
        BY <1>1, NewItem
    <2>2. Shown(p, e) = [p EXCEPT !.live = s]
        BY <1>5 DEF Shown
    <2> HIDE DEF s
    <2>3. QED
        BY <1>4, <2>1, <2>2
<1>6. CASE e.what = "data"
    <2> DEFINE s == {IF SameItem(x, e) THEN More(x) ELSE x : x \in p.live}
    <2>1. \A x \in p.live : x \in Item /\ More(x) \in Item
        BY <1>1, ItemFacts
    <2>2. s \in SUBSET Item
        BY <2>1
    <2>3. Shown(p, e) = [p EXCEPT !.live = s]
        BY <1>6 DEF Shown
    <2> HIDE DEF s
    <2>4. QED
        BY <1>4, <2>2, <2>3
<1>7. CASE e.what = "end"
    <2> DEFINE s == {IF SameItem(x, e) THEN Shut(x) ELSE x : x \in p.live}
    <2>1. \A x \in p.live : x \in Item /\ Shut(x) \in Item
        BY <1>1, ItemFacts
    <2>2. s \in SUBSET Item
        BY <2>1
    <2>3. Shown(p, e) = [p EXCEPT !.live = s]
        BY <1>7 DEF Shown
    <2> HIDE DEF s
    <2>4. QED
        BY <1>4, <2>2, <2>3
<1>8. CASE e.what \notin {"intercepted", "complete", "open", "data", "end"}
    BY <1>8 DEF Shown
<1>9. QED
    BY <1>2, <1>3, <1>5, <1>6, <1>7, <1>8

\* The page that no browser has opened is well formed.
LEMMA NoPageOk == PageOk(NoPage)
<1> DEFINE e == <<>>
<1>1. e \in Seq(Ids) /\ e \in Seq(Event) /\ Len(e) = 0
    BY EmptySeq
<1>2. NoPage = [at |-> "load", requests |-> e, pending |-> {}, live |-> {}, buf |-> e]
    BY DEF NoPage
<1> HIDE DEF e
<1>3. QED
    BY <1>1, <1>2, CapAssumption DEF PageOk, PageType

\* What is shown stays inside its limits.
LEMMA TuiStep ==
    ASSUME Fits(tui), ChannelTypes, [Next]_vars
    PROVE  /\ Fits(tui')
           /\ \/ Thins(tui'.rows, tui.rows)
              \/ /\ TuiReceive /\ ui # <<>> /\ Head(ui) \in Event
                 /\ Thins(tui'.rows, Apply(tui.rows, Head(ui)))
<1>1. tui.rows \in Seq(Item) /\ ui \in Seq(Event)
    BY DEF Fits, TuiType, ChannelTypes
<1>2. CASE tui' = tui
    BY <1>1, <1>2, SameThins
<1>3. CASE Return
    BY <1>1, <1>3, NoTuiFits, EmptyThins DEF Return
<1>4. CASE TuiReceive
    BY <1>1, <1>4, ReceiveFits
<1>5. CASE Key
    BY <1>5, KeyFits
<1>6. QED
    BY <1>2, <1>3, <1>4, <1>5, Footprint DEF Touched

\* Every step keeps the page well formed.
LEMMA PageTypesStep ==
    ASSUME FlowTypes, ChannelTypes, PageOk(page), [Next]_vars
    PROVE  PageOk(page')
<1>1. page.buf \in Seq(Event) /\ page.at \in {"load", "loaded", "open", "closed"}
    BY DEF PageOk, PageType
<1>2. <<>> \in Seq(Event) /\ Len(<<>>) = 0 /\ BusCap \in Nat \ {0} /\ MaxRows \in Nat \ {0}
    BY EmptySeq, CapAssumption
<1>3. CASE page' = page
    BY <1>3
<1>4. CASE Return
    BY <1>4, NoPageOk DEF Return
<1>5. CASE Broadcast
    <2> DEFINE b == Append(page.buf, Head(ui))
               c == IF Len(b) > BusCap THEN Tail(b) ELSE b
    <2>1. Head(ui) \in Event
        BY <1>5, TailFacts DEF Broadcast, ChannelTypes
    <2>2. b \in Seq(Event) /\ b # <<>> /\ Len(b) = Len(page.buf) + 1 /\ Len(page.buf) <= BusCap
        BY <1>1, <2>1, AppendProperties DEF PageOk
    <2>3. page' = page \/ page' = [page EXCEPT !.buf = c]
        BY <1>5 DEF Broadcast
    <2> HIDE DEF b
    <2>4. c \in Seq(Event) /\ Len(c) <= BusCap
        <3>1. Tail(b) \in Seq(Event) /\ Len(Tail(b)) = Len(b) - 1
            BY <2>2, TailFacts
        <3> DEFINE d == Tail(b)
        <3> HIDE DEF d
        <3>2. d \in Seq(Event) /\ Len(d) = Len(b) - 1 /\ c = IF Len(b) > BusCap THEN d ELSE b
            BY <3>1 DEF d
        <3> HIDE DEF c
        <3>3. QED
            BY <1>1, <1>2, <2>2, <3>2
    <2> HIDE DEF c
    <2>5. QED
        BY <2>3, <2>4, PageBuf
<1>6. CASE LoadSession
    <2> DEFINE s == LastRows(Flows(recorder["http"]))
               l == UNION {ToSet(recorder[k]) : k \in {"ws", "tcp", "dns", "udp"}}
               p == [page EXCEPT !.at = "loaded"]
               q == [p EXCEPT !.requests = s]
    <2>1. \A k \in Kept : recorder[k] \in Seq(Item)
        BY DEF ChannelTypes
    <2>2. Flows(recorder["http"]) \in Seq(Ids)
        <3> DEFINE r == recorder["http"]
        <3>1. r \in Seq(Item)
            BY <2>1 DEF Kept, Kind
        <3> HIDE DEF r
        <3>2. \A i \in 1..Len(r) : r[i] \in Item
            BY <3>1
        <3>4. \A i \in 1..Len(r) : r[i].flow \in Ids
            BY <3>2 DEF Item
        <3>3. Flows(r) \in Seq(Ids)
            BY <3>1, <3>4 DEF Flows
        <3>5. QED
            BY <3>3 DEF r
    <2>3. s \in Seq(Ids) /\ Len(s) <= MaxRows
        BY <2>2, LastRowsFacts
    <2>4. l \in SUBSET Item
        <3> SUFFICES ASSUME NEW k \in {"ws", "tcp", "dns", "udp"} PROVE ToSet(recorder[k]) \subseteq Item
            OBVIOUS
        <3>1. recorder[k] \in Seq(Item)
            BY <2>1 DEF Kept, Kind
        <3>2. QED
            BY <3>1 DEF ToSet
    <2>5. page' = [q EXCEPT !.live = l]
        BY <1>6 DEF LoadSession
    <2> HIDE DEF s, l
    <2>6. PageOk(p)
        BY PageAt
    <2> HIDE DEF p
    <2>7. PageOk(q)
        BY <2>3, <2>6, PageRequests
    <2> HIDE DEF q
    <2>8. QED
        BY <2>4, <2>5, <2>7, PageLive
<1>7. CASE Connect
    BY <1>7, PageAt DEF Connect
<1>8. CASE Disconnect
    <2> DEFINE p == [page EXCEPT !.at = "closed"]
               b == <<>>
    <2>1. page' = [p EXCEPT !.buf = b] /\ b \in Seq(Event) /\ Len(b) <= BusCap
        BY <1>2, <1>8 DEF Disconnect
    <2>2. PageOk(p)
        BY PageAt
    <2> HIDE DEF p, b
    <2>3. QED
        BY <2>1, <2>2, PageBuf
<1>9. CASE PageReceive
    <2> DEFINE p == Shown(page, Head(page.buf))
               b == Tail(page.buf)
    <2>1. /\ page' = [p EXCEPT !.buf = b] /\ page.buf # <<>>
        BY <1>9 DEF PageReceive
    <2>2. Head(page.buf) \in Event /\ b \in Seq(Event) /\ Len(b) = Len(page.buf) - 1
        BY <1>1, <2>1, TailFacts
    <2>3. Len(b) <= BusCap
        BY <1>1, <1>2, <2>2 DEF PageOk
    <2>4. PageOk(p)
        BY <2>2, ShownOk
    <2> HIDE DEF p, b
    <2>5. QED
        BY <2>1, <2>2, <2>3, <2>4, PageBuf
<1>10. CASE PageClear
    <2> DEFINE b == <<>>
               p == [page EXCEPT !.requests = b]
               q == [p EXCEPT !.pending = {}]
    <2>1. b \in Seq(Ids) /\ Len(b) <= MaxRows
        BY <1>2, EmptySeq
    <2>2. page' = [q EXCEPT !.live = {}]
        BY <1>10 DEF PageClear
    <2> HIDE DEF b
    <2>3. PageOk(p)
        BY <2>1, PageRequests
    <2> HIDE DEF p
    <2>4. PageOk(q)
        BY <2>3, PagePending
    <2> HIDE DEF q
    <2>5. QED
        BY <2>2, <2>4, PageLive
<1>11. ASSUME NEW f \in Flow, PageDecide(f) PROVE PageOk(page')
    <2>1. page.pending \ {f} \in SUBSET Ids
        BY DEF PageOk, PageType
    <2>2. PageOk([page EXCEPT !.pending = page.pending \ {f}])
        BY <2>1, PagePending
    <2>3. page' = page \/ page' = [page EXCEPT !.pending = page.pending \ {f}]
        BY <1>11 DEF PageDecide
    <2>4. QED
        BY <2>2, <2>3
<1>12. QED
    BY <1>3, <1>4, <1>5, <1>6, <1>7, <1>8, <1>9, <1>10, <1>11, Footprint DEF Touched

\* The rows stay right, and behind what is still to come.
LEMMA RowsStep ==
    ASSUME FlowTypes, ChannelTypes, ScreenInv, LimitInv, FanInv, OrderInv, RowsInv, [Next]_vars
    PROVE  RowsInv'
<1> DEFINE Good(x) == /\ RowAt(x, kind', done')
                      /\ Behind(x, ui') /\ Behind(x, fan'.todo) /\ Behind(x, core')
<1>1. tui.rows \in Seq(Item) /\ ui \in Seq(Event) /\ fan.todo \in Seq(Event) /\ core \in Seq(Event)
    BY DEF ScreenInv, Fits, TuiType, ChannelTypes
<1>2. \A i \in 1..Len(tui.rows) : tui.rows[i] \in Item
    BY <1>1
<1>3. \A i \in 1..Len(tui.rows) :
          /\ RowOk(tui.rows[i]) /\ Behind(tui.rows[i], ui)
          /\ Behind(tui.rows[i], fan.todo) /\ Behind(tui.rows[i], core)
    BY DEF RowsInv
<1>4. \A i \in 1..Len(tui.rows) : Good(tui.rows[i])
    BY <1>2, <1>3, RowStays
<1>5. iface' # "tui" => tui' = NoTui
    <2>1. iface' = iface
        BY Footprint DEF Touched
    <2>2. CASE tui' = tui
        BY <2>1, <2>2 DEF RowsInv
    <2>3. CASE Return
        BY <2>3 DEF Return
    <2>4. CASE TuiReceive \/ Key
        BY <2>1, <2>4 DEF TuiReceive, Key, KeyFree
    <2>5. QED
        BY <2>2, <2>3, <2>4, Footprint DEF Touched
<1>6. Fits(tui') /\ tui'.rows \in Seq(Item)
    BY TuiStep DEF ScreenInv, Fits, TuiType
<1>7. \A i \in 1..Len(tui'.rows) : Good(tui'.rows[i])
    <2> SUFFICES ASSUME NEW i \in 1..Len(tui'.rows) PROVE Good(tui'.rows[i])
        OBVIOUS
    <2>1. CASE Thins(tui'.rows, tui.rows)
        <3>1. PICK j \in 1..Len(tui.rows) : tui'.rows[i] = tui.rows[j]
            BY <1>1, <1>6, <2>1, ThinsFacts
        <3>2. QED
            BY <1>4, <3>1
    <2>2. CASE TuiReceive /\ ui # <<>> /\ Head(ui) \in Event /\ Thins(tui'.rows, Apply(tui.rows, Head(ui)))
        <3> DEFINE e == Head(ui)
                   t == Apply(tui.rows, e)
        <3>1. t \in Seq(Item)
            BY <1>1, <2>2, ApplyKeeps
        <3>2. PICK j \in 1..Len(t) : tui'.rows[i] = t[j]
            BY <1>6, <2>2, <3>1, ThinsFacts
        <3>3. AllGenuine(ui) /\ Ordered(ui) /\ AllBefore(ui, fan.todo) /\ AllBefore(ui, core)
            BY DEF OrderInv, AllGenuine
        <3>4. Genuine(e) /\ BeforeAll(e, Tail(ui)) /\ BeforeAll(e, fan.todo) /\ BeforeAll(e, core)
            BY <1>1, <2>2, <3>3, TailOrder
        <3>5. \A k \in 1..Len(tui.rows) : BehindIt(tui.rows[k], e)
            BY <1>1, <1>2, <1>3, <2>2, BehindFacts
        <3>6. \/ j \in 1..Len(tui.rows) /\ t[j] = tui.rows[j]
              \/ MovedTo(t[j], tui.rows, e)
            <4>1. Suits(e.what, e.kind)
                BY <3>4 DEF Genuine, GenuineAt
            <4>2. QED
                BY <1>1, <2>2, <3>5, <4>1, RowsApplied
        <3>7. CASE MovedTo(t[j], tui.rows, e)
            <4> DEFINE x == t[j]
            <4>1. RowOk(x) /\ Stage(x) = Rank(e.what) /\ x.flow = e.flow
                BY <2>2, <3>4, <3>7, MovedOk DEF MovedTo
            <4>2. ASSUME NEW s \in Seq(Event), BeforeAll(e, s) PROVE Behind(x, s)
                BY <4>1, <4>2 DEF BeforeAll, Before, Behind, BehindIt
            <4>3. kind' = kind /\ done' = done /\ core' = core /\ fan' = fan /\ ui' = Tail(ui)
                BY <2>2 DEF TuiReceive
            <4>4. Tail(ui) \in Seq(Event)
                BY <1>1, <2>2, TailFacts
            <4>5. Behind(x, Tail(ui)) /\ Behind(x, fan.todo) /\ Behind(x, core)
                BY <1>1, <3>4, <4>2, <4>4
            <4>6. QED
                BY <3>2, <4>1, <4>3, <4>5 DEF RowOk
        <3>8. QED
            BY <1>4, <3>2, <3>6, <3>7
    <2>3. QED
        BY <2>1, <2>2, TuiStep DEF ScreenInv
<1>8. QED
    BY <1>5, <1>7 DEF RowsInv, RowOk

\* An exchange keeps its one row.
LEMMA OneRowStep ==
    ASSUME ChannelTypes, ScreenInv, OrderInv, RowsInv, OneRowPerExchange, [Next]_vars
    PROVE  OneRowPerExchange'
<1>1. tui.rows \in Seq(Item) /\ ui \in Seq(Event) /\ OneRow(tui.rows)
    BY DEF ScreenInv, Fits, TuiType, ChannelTypes, OneRowPerExchange, OneRow
<1>2. tui'.rows \in Seq(Item)
    BY TuiStep DEF ScreenInv, Fits, TuiType
<1>3. CASE Thins(tui'.rows, tui.rows)
    <2>1. OneRow(tui'.rows)
        BY <1>1, <1>2, <1>3, ThinsFacts
    <2>2. QED
        BY <2>1 DEF OneRow, OneRowPerExchange
<1>4. CASE TuiReceive /\ ui # <<>> /\ Head(ui) \in Event /\ Thins(tui'.rows, Apply(tui.rows, Head(ui)))
    <2> DEFINE e == Head(ui)
               t == Apply(tui.rows, e)
    <2>1. t \in Seq(Item)
        BY <1>1, <1>4, ApplyKeeps
    <2>2. Genuine(e)
        <3>1. AllGenuine(ui)
            BY DEF OrderInv, AllGenuine
        <3>2. QED
            BY <1>1, <1>4, <3>1, TailOrder
    <2>3. \A i \in 1..Len(tui.rows) : RowOk(tui.rows[i]) /\ BehindIt(tui.rows[i], e)
        <3>1. \A i \in 1..Len(tui.rows) :
                  tui.rows[i] \in Item /\ RowOk(tui.rows[i]) /\ Behind(tui.rows[i], ui)
            BY <1>1 DEF RowsInv
        <3>2. QED
            BY <1>1, <1>4, <3>1, BehindFacts
    <2>4. OneRow(t)
        BY <1>1, <1>4, <2>2, <2>3, OneRowApplied
    <2>5. OneRow(tui'.rows)
        BY <1>2, <1>4, <2>1, <2>4, ThinsFacts
    <2>6. QED
        BY <2>5 DEF OneRow, OneRowPerExchange
<1>5. QED
    BY <1>3, <1>4, TuiStep DEF ScreenInv

-----------------------------------------------------------------------------
(* The recorder is ahead of the screen.                                    *)

\* What the recorder has of an exchange it keeps, unless the exchange begins anew.
LEMMA RecordGrows ==
    ASSUME NEW rec \in [Kept -> Seq(Item)], NEW e \in Event, Suits(e.what, e.kind),
           NEW k \in Kept, NEW f,
           k = e.kind /\ f = e.flow => e.what \notin {"open", "complete"}
    PROVE  LET r == Record(rec, e)[k]
           IN /\ Has(rec[k], f) => Has(r, f)
              /\ \A n \in Nat, c \in BOOLEAN : IsAt(rec[k], f, n, c) => IsAt(r, f, n, c)
<1> DEFINE s == rec[k]
           r == Record(rec, e)[k]
<1>1. s \in Seq(Item) /\ \A i \in 1..Len(s) : s[i] \in Item /\ s[i].n \in Nat
    <2>1. s \in Seq(Item)
        OBVIOUS
    <2>2. \A i \in 1..Len(s) : s[i] \in Item
        BY <2>1
    <2>3. QED
        BY <2>1, <2>2 DEF Item
<1>2. CASE r = s
    BY <1>2
<1>3. ASSUME NEW t \in Seq(Item), r = t,
             \A i \in 1..Len(s) : i \in 1..Len(t) /\ (s[i].flow = f => t[i].flow = f),
             \A i \in 1..Len(t) : t[i].flow = f =>
                 /\ i \in 1..Len(s) /\ s[i].flow = f
                 /\ t[i].n >= s[i].n /\ t[i].n \in Nat /\ (s[i].closed => t[i].closed)
      PROVE  /\ Has(s, f) => Has(r, f)
             /\ \A n \in Nat, c \in BOOLEAN : IsAt(s, f, n, c) => IsAt(r, f, n, c)
    <2> HIDE DEF s, r
    <2>1. Has(s, f) => Has(t, f)
        BY <1>3 DEF Has
    <2>2. ASSUME NEW n \in Nat, NEW c \in BOOLEAN, IsAt(s, f, n, c), NEW i \in 1..Len(t), t[i].flow = f
          PROVE  t[i].n >= n /\ (c => t[i].closed)
        <3>1. /\ i \in 1..Len(s) /\ s[i].flow = f
              /\ t[i].n >= s[i].n /\ t[i].n \in Nat /\ (s[i].closed => t[i].closed)
            BY <1>3, <2>2
        <3>2. s[i].n >= n /\ (c => s[i].closed) /\ s[i].n \in Nat
            BY <1>1, <2>2, <3>1 DEF IsAt
        <3>3. t[i].n >= n
            BY <3>1, <3>2
        <3>4. QED
            BY <3>1, <3>2, <3>3
    <2>3. \A n \in Nat, c \in BOOLEAN : IsAt(s, f, n, c) => IsAt(t, f, n, c)
        BY <2>2 DEF IsAt
    <2>4. QED
        BY <1>3, <2>1, <2>3
<1>4. CASE k # e.kind \/ e.what \in {"intercepted", "error"}
    BY <1>2, <1>4, RecordFacts
<1>5. CASE k = e.kind /\ e.what \in {"open", "complete"}
    <2>1. f # e.flow /\ Entry(e) \in Item /\ Entry(e).flow = e.flow
        BY <1>5, NewItem DEF Entry
    <2>2. r \in {Upsert(s, Entry(e)), Append(s, Entry(e))}
        BY <1>5, RecordFacts
    <2>3. CASE r = Upsert(s, Entry(e))
        <3> DEFINE t == Upsert(s, Entry(e))
        <3>1. /\ t \in Seq(Item)
              /\ \A i \in 1..Len(s) : i \in 1..Len(t)
              /\ \A i \in 1..Len(s) : t[i] = IF s[i].flow = e.flow THEN Entry(e) ELSE s[i]
              /\ \A i \in 1..Len(t) : i \notin 1..Len(s) => t[i] = Entry(e)
            <4> DEFINE x == Entry(e)
            <4>1. x \in Item /\ x.flow = e.flow
                BY <2>1
            <4> HIDE DEF x
            <4>2. /\ Upsert(s, x) \in Seq(Item)
                  /\ \A i \in 1..Len(s) : i \in 1..Len(Upsert(s, x))
                  /\ \A i \in 1..Len(s) : Upsert(s, x)[i] = IF s[i].flow = x.flow THEN x ELSE s[i]
                  /\ \A i \in 1..Len(Upsert(s, x)) : i \notin 1..Len(s) => Upsert(s, x)[i] = x
                BY <1>1, <4>1, UpsertFacts
            <4>3. QED
                BY <4>1, <4>2 DEF x
        <3>2. r = t
            BY <2>3
        <3> HIDE DEF t, r
        <3>3. \A i \in 1..Len(s) : i \in 1..Len(t) /\ (s[i].flow = f => t[i].flow = f)
            BY <2>1, <3>1
        <3>4. ASSUME NEW i \in 1..Len(t), t[i].flow = f
              PROVE  i \in 1..Len(s) /\ t[i] = s[i]
            BY <2>1, <3>1, <3>4
        <3>5. \A i \in 1..Len(t) : t[i].flow = f =>
                 /\ i \in 1..Len(s) /\ s[i].flow = f
                 /\ t[i].n >= s[i].n /\ t[i].n \in Nat /\ (s[i].closed => t[i].closed)
            <4> SUFFICES ASSUME NEW i \in 1..Len(t), t[i].flow = f
                         PROVE  /\ i \in 1..Len(s) /\ s[i].flow = f
                                /\ t[i].n >= s[i].n /\ t[i].n \in Nat /\ (s[i].closed => t[i].closed)
                OBVIOUS
            <4>1. i \in 1..Len(s) /\ t[i] = s[i]
                BY <3>4
            <4>2. s[i].n \in Nat
                BY <1>1, <4>1
            <4>3. QED
                BY <4>1, <4>2
        <3>6. QED
            BY <1>3, <3>1, <3>2, <3>3, <3>5 DEF r
    <2>4. CASE r = Append(s, Entry(e))
        <3> DEFINE t == Append(s, Entry(e))
        <3>1. /\ t \in Seq(Item) /\ Len(t) = Len(s) + 1
              /\ \A i \in 1..Len(s) : t[i] = s[i]
              /\ \A i \in 1..Len(t) : i \notin 1..Len(s) => i = Len(s) + 1
              /\ t[Len(s) + 1] = Entry(e)
            BY <1>1, <2>1, AppendFacts
        <3>2. r = t
            BY <2>4
        <3> HIDE DEF t, r
        <3>3. \A i \in 1..Len(s) : i \in 1..Len(t) /\ (s[i].flow = f => t[i].flow = f)
            BY <1>1, <2>1, <3>1
        <3>4. ASSUME NEW i \in 1..Len(t), t[i].flow = f
              PROVE  i \in 1..Len(s) /\ t[i] = s[i]
            BY <2>1, <3>1, <3>4
        <3>5. \A i \in 1..Len(t) : t[i].flow = f =>
                 /\ i \in 1..Len(s) /\ s[i].flow = f
                 /\ t[i].n >= s[i].n /\ t[i].n \in Nat /\ (s[i].closed => t[i].closed)
            <4> SUFFICES ASSUME NEW i \in 1..Len(t), t[i].flow = f
                         PROVE  /\ i \in 1..Len(s) /\ s[i].flow = f
                                /\ t[i].n >= s[i].n /\ t[i].n \in Nat /\ (s[i].closed => t[i].closed)
                OBVIOUS
            <4>1. i \in 1..Len(s) /\ t[i] = s[i]
                BY <3>4
            <4>2. s[i].n \in Nat
                BY <1>1, <4>1
            <4>3. QED
                BY <4>1, <4>2
        <3>6. QED
            BY <1>3, <3>1, <3>2, <3>3, <3>5 DEF r
    <2>5. QED
        BY <2>2, <2>3, <2>4
<1>6. CASE k = e.kind /\ e.what = "data"
    <2> DEFINE t == Update(s, e.flow, More)
    <2>1. t \in Seq(Item) /\ Len(t) = Len(s)
        BY <1>1, UpdateFacts
    <2>2. \A i \in 1..Len(s) : t[i] = IF s[i].flow = e.flow THEN More(s[i]) ELSE s[i]
        BY DEF Update
    <2>3. r = t
        BY <1>6, RecordFacts
    <2> HIDE DEF t, r
    <2>4. ASSUME NEW i \in 1..Len(s)
          PROVE  /\ t[i].flow = s[i].flow /\ t[i].n >= s[i].n /\ t[i].n \in Nat
                 /\ s[i].closed => t[i].closed
        <3> DEFINE x == s[i]
        <3>1. x \in Item /\ x.n \in Nat /\ More(x).flow = x.flow /\ More(x).n = x.n + 1
            BY <1>1, ItemFacts
        <3>2. x.closed => More(x).closed
            BY <1>1, ItemFacts
        <3>3. CASE t[i] = x
            BY <3>1, <3>3
        <3>4. CASE t[i] = More(x)
            <4> DEFINE y == More(x)
            <4> HIDE DEF y
            <4>1. y.flow = x.flow /\ y.n = x.n + 1 /\ (x.closed => y.closed) /\ t[i] = y
                BY <3>1, <3>2, <3>4 DEF y
            <4>2. QED
                BY <3>1, <4>1
        <3>5. QED
            BY <2>2, <3>3, <3>4
    <2>5. QED
        BY <1>3, <2>1, <2>3, <2>4 DEF r
<1>7. CASE k = e.kind /\ e.what = "end"
    <2> DEFINE t == Update(s, e.flow, Shut)
    <2>1. t \in Seq(Item) /\ Len(t) = Len(s)
        BY <1>1, UpdateFacts
    <2>2. \A i \in 1..Len(s) : t[i] = IF s[i].flow = e.flow THEN Shut(s[i]) ELSE s[i]
        BY DEF Update
    <2>3. r = t
        BY <1>7, RecordFacts
    <2> HIDE DEF t, r
    <2>4. ASSUME NEW i \in 1..Len(s)
          PROVE  /\ t[i].flow = s[i].flow /\ t[i].n >= s[i].n /\ t[i].n \in Nat
                 /\ s[i].closed => t[i].closed
        <3> DEFINE x == s[i]
        <3>1. x \in Item /\ x.n \in Nat /\ Shut(x).flow = x.flow /\ Shut(x).n = x.n
            BY <1>1, ItemFacts
        <3>2. x.closed => Shut(x).closed
            BY <1>1, ItemFacts
        <3>3. CASE t[i] = x
            BY <3>1, <3>3
        <3>4. CASE t[i] = Shut(x)
            <4> DEFINE y == Shut(x)
            <4> HIDE DEF y
            <4>1. y.flow = x.flow /\ y.n = x.n /\ (x.closed => y.closed) /\ t[i] = y
                BY <3>1, <3>2, <3>4 DEF y
            <4>2. QED
                BY <3>1, <4>1
        <3>5. QED
            BY <2>2, <3>3, <3>4
    <2>5. QED
        BY <1>3, <2>1, <2>3, <2>4 DEF r
<1>8. e.what \in What
    BY DEF Event
<1>9. QED
    BY <1>4, <1>5, <1>6, <1>7, <1>8 DEF What

\* What has been recorded is in the record.
LEMMA RecordHas ==
    ASSUME NEW rec \in [Kept -> Seq(Item)], NEW e \in Event, Suits(e.what, e.kind)
    PROVE  EventKept(e, Record(rec, e))
<1> DEFINE s == rec[e.kind]
           r == Record(rec, e)[e.kind]
<1>1. CASE e.what \in {"open", "complete"}
    <2> DEFINE x == Entry(e)
    <2>1. x \in Item /\ x.flow = e.flow
        BY NewItem DEF Entry
    <2>2. e.kind \in Kept /\ r \in {Upsert(s, x), Append(s, x)}
        BY <1>1, RecordFacts
    <2>3. s \in Seq(Item)
        BY <2>2
    <2> HIDE DEF x
    <2>4. CASE r = Upsert(s, x)
        <3>1. \E i \in 1..Len(Upsert(s, x)) : Upsert(s, x)[i].flow = x.flow
            BY <2>1, <2>3, UpsertFacts
        <3>2. Has(r, e.flow)
            BY <2>1, <2>4, <3>1 DEF Has
        <3>3. QED
            BY <1>1, <3>2 DEF EventKept
    <2>5. CASE r = Append(s, x)
        <3>1. Len(s) + 1 \in 1..Len(Append(s, x)) /\ Append(s, x)[Len(s) + 1] = x
            BY <2>1, <2>3, AppendFacts
        <3>2. Has(r, e.flow)
            BY <2>1, <2>5, <3>1 DEF Has
        <3>3. QED
            BY <1>1, <3>2 DEF EventKept
    <2>6. QED
        BY <2>2, <2>4, <2>5
<1>2. CASE e.what = "data"
    <2> DEFINE t == Update(s, e.flow, More)
    <2>1. e.kind \in Kept /\ r = t
        BY <1>2, RecordFacts
    <2>2. s \in Seq(Item)
        BY <2>1
    <2>3. Len(t) = Len(s) /\ \A i \in 1..Len(s) : t[i] = IF s[i].flow = e.flow THEN More(s[i]) ELSE s[i]
        BY <2>2 DEF Update
    <2> HIDE DEF t, s
    <2>4. IsAt(t, e.flow, 1, FALSE)
        <3> SUFFICES ASSUME NEW i \in 1..Len(t), t[i].flow = e.flow
                     PROVE  t[i].n >= 1
            BY DEF IsAt
        <3>1. i \in 1..Len(s) /\ s[i] \in Item
            BY <2>2, <2>3
        <3>2. s[i].flow = e.flow
            BY <2>3, <3>1
        <3>3. t[i] = More(s[i])
            BY <2>3, <3>1, <3>2
        <3> DEFINE y == More(s[i])
        <3>4. y.n = s[i].n + 1 /\ s[i].n \in Nat
            BY <3>1, ItemFacts DEF Item
        <3> HIDE DEF y
        <3>5. t[i] = y
            BY <3>3 DEF y
        <3>6. QED
            BY <3>4, <3>5
    <2>5. QED
        BY <1>2, <2>1, <2>4 DEF EventKept
<1>3. CASE e.what = "end"
    <2> DEFINE t == Update(s, e.flow, Shut)
    <2>1. e.kind \in Kept /\ r = t
        BY <1>3, RecordFacts
    <2>2. s \in Seq(Item)
        BY <2>1
    <2>3. Len(t) = Len(s) /\ \A i \in 1..Len(s) : t[i] = IF s[i].flow = e.flow THEN Shut(s[i]) ELSE s[i]
        BY <2>2 DEF Update
    <2> HIDE DEF t, s
    <2>4. IsAt(t, e.flow, 0, TRUE)
        <3> SUFFICES ASSUME NEW i \in 1..Len(t), t[i].flow = e.flow
                     PROVE  t[i].n >= 0 /\ t[i].closed
            BY DEF IsAt
        <3>1. i \in 1..Len(s) /\ s[i] \in Item
            BY <2>2, <2>3
        <3>2. s[i].flow = e.flow
            BY <2>3, <3>1
        <3>3. t[i] = Shut(s[i])
            BY <2>3, <3>1, <3>2
        <3> DEFINE y == Shut(s[i])
        <3>4. y.n = s[i].n /\ s[i].n \in Nat /\ y.closed
            BY <3>1, ItemFacts DEF Item
        <3> HIDE DEF y
        <3>5. t[i] = y
            BY <3>3 DEF y
        <3>6. QED
            BY <3>4, <3>5
    <2>5. QED
        BY <1>3, <2>1, <2>4 DEF EventKept
<1>4. CASE e.what \in {"intercepted", "error"}
    BY <1>4 DEF EventKept
<1>5. QED
    BY <1>1, <1>2, <1>3, <1>4 DEF Event, What

\* Recording leaves what is known of the rows and of the events before it.
LEMMA RowStaysKept ==
    ASSUME NEW rec \in [Kept -> Seq(Item)], NEW e \in Event, Suits(e.what, e.kind),
           NEW x \in Item, BehindIt(x, e), RowKept(x, rec)
    PROVE  RowKept(x, Record(rec, e))
<1> SUFFICES ASSUME x.kind \in Kept PROVE RowKept(x, Record(rec, e))
    BY DEF RowKept
<1> DEFINE k == x.kind
           s == rec[k]
           r == Record(rec, e)[k]
<1>1. Has(s, x.flow) /\ IsAt(s, x.flow, x.n, x.closed) /\ x.n \in Nat /\ x.closed \in BOOLEAN
    BY DEF RowKept, Item
<1>2. k = e.kind /\ x.flow = e.flow => e.what \notin {"open", "complete"}
    <2> SUFFICES ASSUME x.flow = e.flow, e.what \in {"open", "complete"} PROVE FALSE
        OBVIOUS
    <2>1. Stage(x) < 2
        BY DEF BehindIt, Rank
    <2>2. x.kind # "pending"
        BY DEF Kept, Kind
    <2>3. QED
        BY <2>1, <2>2 DEF Stage
<1>3. /\ Has(s, x.flow) => Has(r, x.flow)
      /\ \A n \in Nat, c \in BOOLEAN : IsAt(s, x.flow, n, c) => IsAt(r, x.flow, n, c)
    BY <1>2, RecordGrows
<1>4. QED
    BY <1>1, <1>3 DEF RowKept

\* Recording an event does not lose what the recorder keeps of an earlier one.
LEMMA EventStaysKept ==
    ASSUME NEW rec \in [Kept -> Seq(Item)], NEW e \in Event, Suits(e.what, e.kind),
           NEW d \in Event, Suits(d.what, d.kind), Before(d, e), EventKept(d, rec)
    PROVE  EventKept(d, Record(rec, e))
<1> SUFFICES ASSUME d.what \in {"open", "complete", "data", "end"}
             PROVE  EventKept(d, Record(rec, e))
    BY DEF EventKept
<1> DEFINE s == rec[d.kind]
           r == Record(rec, e)[d.kind]
<1>1. d.kind \in Kept
    BY DEF Suits, Kept, Event
<1>2. d.kind = e.kind /\ d.flow = e.flow => e.what \notin {"open", "complete"}
    BY DEF Before, Rank
<1>3. /\ Has(s, d.flow) => Has(r, d.flow)
      /\ \A n \in Nat, c \in BOOLEAN : IsAt(s, d.flow, n, c) => IsAt(r, d.flow, n, c)
    BY <1>1, <1>2, RecordGrows
<1>4. /\ IsAt(s, d.flow, 1, FALSE) => IsAt(r, d.flow, 1, FALSE)
      /\ IsAt(s, d.flow, 0, TRUE) => IsAt(r, d.flow, 0, TRUE)
    BY <1>3
<1>5. QED
    BY <1>3, <1>4 DEF EventKept

\* A row made of an event that has been recorded is recorded.
LEMMA MovedKept ==
    ASSUME NEW rec \in [Kept -> Seq(Item)], NEW rows \in Seq(Item), NEW e \in Event,
           Suits(e.what, e.kind), EventKept(e, rec), NEW x, MovedTo(x, rows, e),
           \A i \in 1..Len(rows) : RowKept(rows[i], rec)
    PROVE  RowKept(x, rec)
<1> SUFFICES ASSUME x.kind \in Kept PROVE RowKept(x, rec)
    BY DEF RowKept
<1> DEFINE s == rec[x.kind]
<1>1. x \in Item /\ x.flow = e.flow /\ x.kind = e.kind
    BY DEF MovedTo, Kept, Kind
<1>2. s \in Seq(Item) /\ \A j \in 1..Len(s) : s[j].n \in Nat
    <2>1. s \in Seq(Item)
        OBVIOUS
    <2>2. \A j \in 1..Len(s) : s[j] \in Item
        BY <2>1
    <2>3. QED
        BY <2>1, <2>2 DEF Item
<1>3. CASE e.what \in {"complete", "open"}
    <2>1. Has(s, x.flow) /\ x.n = 0 /\ ~x.closed
        BY <1>1, <1>3 DEF EventKept, MovedTo
    <2>2. IsAt(s, x.flow, x.n, x.closed)
        BY <1>2, <2>1 DEF IsAt
    <2>3. QED
        BY <2>1, <2>2 DEF RowKept
<1>4. CASE e.what = "data"
    <2>1. x.n = 1 /\ ~x.closed /\ IsAt(s, x.flow, 1, FALSE)
        BY <1>1, <1>4 DEF EventKept, MovedTo
    <2>2. PICK i \in 1..Len(rows) : rows[i].flow = e.flow /\ rows[i].kind = e.kind
        BY <1>4 DEF MovedTo
    <2>3. Has(s, x.flow)
        BY <1>1, <2>2 DEF RowKept
    <2>4. IsAt(s, x.flow, x.n, x.closed)
        BY <2>1 DEF IsAt
    <2>5. QED
        BY <2>3, <2>4 DEF RowKept
<1>5. CASE e.what = "end"
    <2>1. x.closed /\ IsAt(s, x.flow, 0, TRUE)
        BY <1>1, <1>5 DEF EventKept, MovedTo
    <2>2. PICK i \in 1..Len(rows) :
                  rows[i].flow = e.flow /\ rows[i].kind = e.kind /\ rows[i].n = x.n
        BY <1>5 DEF MovedTo
    <2>3. Has(s, x.flow) /\ IsAt(s, x.flow, x.n, rows[i].closed)
        BY <1>1, <2>2 DEF RowKept
    <2>4. IsAt(s, x.flow, x.n, x.closed)
        BY <2>1, <2>3 DEF IsAt
    <2>5. QED
        BY <2>3, <2>4 DEF RowKept
<1>6. CASE e.what \in {"intercepted", "error"}
    BY <1>1, <1>6 DEF MovedTo, Suits, Kept, Kind
<1>7. QED
    BY <1>3, <1>4, <1>5, <1>6 DEF Event, What

\* Every step keeps the recorder true to the events it has been given.
LEMMA RecordStep ==
    ASSUME FlowTypes, ChannelTypes, ScreenInv, LimitInv, FanInv, OrderInv, RowsInv, RecordInv,
           [Next]_vars
    PROVE  RecordInv'
<1> SUFFICES ASSUME iface' = "tui" PROVE RecordInv'
    BY DEF RecordInv
<1> DEFINE R(rows, rec) == \A i \in 1..Len(rows) : RowKept(rows[i], rec)
           E(s, rec) == \A i \in 1..Len(s) : EventKept(s[i], rec)
<1>1. iface = "tui"
    BY Footprint DEF Touched
<1>2. /\ tui.rows \in Seq(Item) /\ tui'.rows \in Seq(Item) /\ ui \in Seq(Event)
      /\ fan.todo \in Seq(Event) /\ recorder \in [Kept -> Seq(Item)]
    BY TuiStep DEF ScreenInv, Fits, TuiType, ChannelTypes
<1>3. /\ R(tui.rows, recorder) /\ E(ui, recorder)
      /\ fan.at \in {"initial", "send"} => E(fan.todo, recorder)
    BY <1>1 DEF RecordInv
<1>4. AllGenuine(ui) /\ AllGenuine(fan.todo) /\ AllBefore(ui, fan.todo)
    BY DEF OrderInv, AllGenuine
<1>5. ASSUME NEW rows \in Seq(Item), Thins(rows, tui.rows), NEW rec, R(tui.rows, rec)
      PROVE  R(rows, rec)
    BY <1>2, <1>5, ThinsFacts
\* No entry is touched: the rows may have become fewer, and events have moved on.
<1>6. ASSUME Thins(tui'.rows, tui.rows), UNCHANGED recorder, E(ui', recorder),
             fan'.at \in {"initial", "send"} => E(fan'.todo, recorder)
      PROVE  RecordInv'
    <2>1. R(tui'.rows, recorder)
        BY <1>2, <1>3, <1>5, <1>6
    <2>2. QED
        BY <1>6, <2>1 DEF RecordInv
<1>7. ASSUME UNCHANGED <<tui, recorder>>, fan.at \in {"initial", "send"}, fan.todo # <<>>,
             Deliver(Head(fan.todo)), fan'.at \in {"initial", "recv"}, fan'.todo \in {Tail(fan.todo), <<>>}
      PROVE  RecordInv'
    <2> DEFINE e == Head(fan.todo)
    <2>1. /\ e \in Event /\ e = fan.todo[1] /\ 1 \in 1..Len(fan.todo)
          /\ \A i \in 1..Len(Tail(fan.todo)) :
                i + 1 \in 1..Len(fan.todo) /\ Tail(fan.todo)[i] = fan.todo[i + 1]
        BY <1>2, <1>7, TailFacts
    <2>2. EventKept(e, recorder) /\ E(Tail(fan.todo), recorder)
        BY <1>3, <1>7, <2>1
    <2>3. ui' \in {ui, Append(ui, e)}
        BY <1>7, <2>1, DeliverFacts
    <2> HIDE DEF e
    <2>4. E(Append(ui, e), recorder)
        <3> DEFINE u == Append(ui, e)
        <3>1. /\ Len(u) = Len(ui) + 1 /\ u[Len(ui) + 1] = e
              /\ \A i \in 1..Len(ui) : u[i] = ui[i]
            BY <1>2, <2>1, AppendProperties
        <3> HIDE DEF u
        <3>2. \A i \in 1..Len(u) : i \in 1..Len(ui) \/ i = Len(ui) + 1
            BY <1>2, <3>1
        <3>3. E(u, recorder)
            BY <1>3, <2>2, <3>1, <3>2
        <3>4. QED
            BY <3>3 DEF u
    <2>5. E(ui', recorder)
        BY <1>3, <2>3, <2>4
    <2>6. E(<<>>, recorder)
        <3>1. \A i \in 1..Len(<<>>) : FALSE
            BY EmptySeq
        <3>2. QED
            BY <3>1
    <2>7. E(fan'.todo, recorder)
        BY <1>7, <2>2, <2>6
    <2>8. Thins(tui'.rows, tui.rows)
        BY <1>2, <1>7, SameThins
    <2>9. QED
        BY <1>6, <1>7, <2>5, <2>7, <2>8
<1>8. CASE FanInitial
    <2>1. CASE fan.todo = <<>>
        <3>1. UNCHANGED <<tui, recorder, ui>> /\ fan'.at = "recv"
            BY <1>8, <2>1 DEF FanInitial, FanIdle, screen
        <3>2. QED
            BY <1>2, <1>3, <1>6, <3>1, SameThins
    <2>2. CASE fan.todo # <<>>
        <3>1. /\ UNCHANGED <<tui, recorder>> /\ fan.at = "initial" /\ Deliver(Head(fan.todo))
              /\ fan'.at = "initial" /\ fan'.todo = Tail(fan.todo)
            BY <1>8, <2>2 DEF FanInitial, screen, ChannelTypes
        <3>2. QED
            BY <1>7, <2>2, <3>1
    <2>3. QED
        BY <2>1, <2>2
<1>9. CASE FanSend
    <2>1. fan.at = "send" /\ fan.todo # <<>>
        BY <1>9, FanFacts DEF FanSend, FanInv
    <2>2. fan.todo[1] = Head(fan.todo)
        BY <1>2, <2>1, TailFacts
    <2>3. /\ UNCHANGED <<tui, recorder>> /\ Deliver(Head(fan.todo))
          /\ fan'.at = "recv" /\ fan'.todo = <<>>
        BY <1>9, <2>2 DEF FanSend, FanIdle, screen
    <2>4. QED
        BY <1>7, <2>1, <2>3
<1>10. CASE FanReceive \/ FanEnd \/ SaveLate
    <2>1. UNCHANGED <<tui, recorder, ui>> /\ fan'.at \in {"record", "ended", "aborted"}
        BY <1>10 DEF FanReceive, FanEnd, SaveLate, screen
    <2>2. QED
        BY <1>2, <1>3, <1>6, <2>1, SameThins
<1>11. CASE FanRecord
    <2> DEFINE e == fan.todo[1]
    <2>1. fan.at = "record" /\ fan.todo # <<>> /\ Len(fan.todo) = 1
        BY <1>11, FanFacts DEF FanRecord, FanInv
    <2>2. e \in Event /\ e = Head(fan.todo)
        BY <1>2, <2>1, TailFacts
    <2>3. Genuine(e) /\ AfterAll(e, ui)
        BY <1>2, <1>4, <2>1, <2>2, TailOrder
    <2>4. Suits(e.what, e.kind)
        BY <2>3 DEF Genuine, GenuineAt
    <2>5. /\ recorder' = Record(recorder, e) /\ UNCHANGED <<tui, ui>>
          /\ fan'.at = "send" /\ fan'.todo = fan.todo
        BY <1>11 DEF FanRecord, screen, ChannelTypes
    <2>6. R(tui.rows, recorder')
        <3> SUFFICES ASSUME NEW i \in 1..Len(tui.rows) PROVE RowKept(tui.rows[i], recorder')
            OBVIOUS
        <3>1. tui.rows[i] \in Item /\ Behind(tui.rows[i], fan.todo)
            BY <1>2 DEF RowsInv
        <3>2. BehindIt(tui.rows[i], e)
            BY <2>1, <3>1 DEF Behind
        <3>3. QED
            BY <1>2, <1>3, <2>2, <2>4, <2>5, <3>1, <3>2, RowStaysKept
    <2>7. E(ui, recorder')
        <3> SUFFICES ASSUME NEW i \in 1..Len(ui) PROVE EventKept(ui[i], recorder')
            OBVIOUS
        <3>1. ui[i] \in Event /\ Suits(ui[i].what, ui[i].kind)
            BY <1>2, <1>4 DEF AllGenuine, Genuine, GenuineAt
        <3>2. Before(ui[i], e)
            BY <2>3 DEF AfterAll
        <3>3. QED
            BY <1>2, <1>3, <2>2, <2>4, <2>5, <3>1, <3>2, EventStaysKept
    <2>8. E(fan.todo, recorder')
        <3>1. EventKept(e, recorder')
            BY <1>2, <2>2, <2>4, <2>5, RecordHas
        <3>2. \A i \in 1..Len(fan.todo) : fan.todo[i] = e
            BY <2>1
        <3>3. QED
            BY <3>1, <3>2
    <2>9. QED
        BY <2>5, <2>6, <2>7, <2>8 DEF RecordInv
<1>12. CASE TuiReceive
    <2> DEFINE e == Head(ui)
               t == Apply(tui.rows, e)
    <2>1. /\ ui # <<>> /\ ui' = Tail(ui) /\ UNCHANGED <<fan, recorder>>
        BY <1>12 DEF TuiReceive
    <2>2. /\ e \in Event /\ e = ui[1] /\ 1 \in 1..Len(ui)
          /\ \A i \in 1..Len(Tail(ui)) : i + 1 \in 1..Len(ui) /\ Tail(ui)[i] = ui[i + 1]
        BY <1>2, <2>1, TailFacts
    <2>3. EventKept(e, recorder) /\ E(ui', recorder)
        BY <1>3, <2>1, <2>2
    <2>4. Suits(e.what, e.kind)
        BY <1>4, <2>2 DEF AllGenuine, Genuine, GenuineAt
    <2>5. \A i \in 1..Len(tui.rows) : BehindIt(tui.rows[i], e)
        BY <2>2 DEF RowsInv, Behind
    <2>6. R(t, recorder)
        <3> SUFFICES ASSUME NEW j \in 1..Len(t) PROVE RowKept(t[j], recorder)
            OBVIOUS
        <3>1. \/ j \in 1..Len(tui.rows) /\ t[j] = tui.rows[j]
              \/ MovedTo(t[j], tui.rows, e)
            BY <1>2, <2>2, <2>4, <2>5, RowsApplied
        <3>2. CASE MovedTo(t[j], tui.rows, e)
            BY <1>2, <1>3, <2>2, <2>3, <2>4, <3>2, MovedKept
        <3>3. QED
            BY <1>3, <3>1, <3>2
    <2>7. t \in Seq(Item) /\ Thins(tui'.rows, t)
        BY <1>2, <1>12, <2>2, ApplyKeeps, ReceiveFits DEF ScreenInv
    <2>8. R(tui'.rows, recorder)
        BY <1>2, <2>6, <2>7, ThinsFacts
    <2>9. QED
        BY <1>3, <2>1, <2>3, <2>8 DEF RecordInv
<1>13. ASSUME UNCHANGED <<ui, fan, recorder>>, ~TuiReceive PROVE RecordInv'
    <2>1. Thins(tui'.rows, tui.rows)
        BY <1>13, TuiStep DEF ScreenInv
    <2>2. QED
        BY <1>3, <1>6, <1>13, <2>1
<1>14. CASE ~Fanout /\ ~SaveLate /\ ~TuiReceive
    <2>1. ~FanInitial /\ ~FanSend /\ ~FanRecord
        BY <1>14 DEF Fanout
    <2>2. ~TerminalReceive /\ ~Broadcast /\ ~PageClear
        BY <1>1 DEF TerminalReceive, Broadcast, PageClear, Serving
    <2>3. QED
        BY <1>13, <1>14, <2>1, <2>2, Footprint DEF Touched
<1>15. QED
    BY <1>8, <1>9, <1>10, <1>11, <1>12, <1>14 DEF Fanout

\* Arriving events do not move the selection.
LEMMA SelectionStep ==
    ASSUME ChannelTypes, ScreenInv, [Next]_vars, ui' # ui, Len(ui') < Len(ui),
           ~tui.filtered, tui.sel \in 1..Len(tui.rows),
           ~(tui.sel = 1 /\ Len(tui.rows) = MaxRows)
    PROVE  tui'.rows[tui'.sel].flow = tui.rows[tui.sel].flow
<1>1. /\ Fits(tui) /\ tui.rows \in Seq(Item) /\ ui \in Seq(Event) /\ Len(tui.rows) \in Nat
      /\ Len(tui.rows) <= MaxRows /\ MaxRows \in Nat
    BY CapAssumption DEF ScreenInv, Fits, TuiType, ChannelTypes
<1>2. CASE TuiReceive
    <2> DEFINE t == Apply(tui.rows, Head(ui))
               n == tui.sel
    <2>1. Head(ui) \in Event
        BY <1>1, <1>2, ReceiveFits
    <2>2. /\ t \in Seq(Item) /\ Len(t) \in {Len(tui.rows), Len(tui.rows) + 1}
          /\ t[n].flow = tui.rows[n].flow
        BY <1>1, <2>1, ApplyKeeps
    <2>3. \/ tui'.rows = t /\ tui'.sel = n
          \/ /\ Len(t) > MaxRows /\ tui'.rows = Tail(t)
             /\ tui'.sel = IF n > 1 THEN n - 1 ELSE n
        BY <1>1, <1>2, ReceiveFits
    <2> HIDE DEF t
    <2>4. CASE tui'.rows = t /\ tui'.sel = n
        BY <2>2, <2>4
    <2>5. CASE /\ Len(t) > MaxRows /\ tui'.rows = Tail(t)
               /\ tui'.sel = IF n > 1 THEN n - 1 ELSE n
        <3>1. Len(tui.rows) = MaxRows /\ Len(t) = MaxRows + 1
            BY <1>1, <2>2, <2>5
        <3>2. n > 1 /\ n \in 1..MaxRows
            BY <3>1
        <3>3. t # <<>>
            BY <1>1, <3>1, EmptySeq
        <3>4. \A i \in 1..Len(Tail(t)) : Tail(t)[i] = t[i + 1]
            BY <2>2, <3>3, TailFacts
        <3>5. Len(Tail(t)) = MaxRows
            BY <1>1, <2>2, <3>1, <3>3, TailFacts
        <3>6. n - 1 \in 1..Len(Tail(t)) /\ (n - 1) + 1 = n
            BY <1>1, <3>2, <3>5
        <3>7. Tail(t)[n - 1] = t[n]
            BY <3>4, <3>6
        <3>8. tui'.sel = n - 1
            BY <2>5, <3>2
        <3>9. QED
            BY <2>2, <2>5, <3>7, <3>8
    <2>6. QED
        BY <2>3, <2>4, <2>5
<1>3. CASE TerminalReceive \/ Broadcast
    BY <1>3 DEF TerminalReceive, Broadcast, screen
<1>4. CASE ui' # ui /\ ~TuiReceive /\ ~TerminalReceive /\ ~Broadcast
    <2>1. CASE FanInitial
        <3>1. fan.todo # <<>> /\ Deliver(Head(fan.todo))
            BY <1>4, <2>1 DEF FanInitial
        <3>2. Head(fan.todo) \in Event
            BY <3>1, FanFacts, TailFacts
        <3>3. ui' = Append(ui, Head(fan.todo))
            BY <1>4, <3>1 DEF Deliver
        <3>4. Len(ui') = Len(ui) + 1
            BY <1>1, <3>2, <3>3, AppendProperties
        <3>5. QED
            BY <1>1, <3>4
    <2>2. CASE FanSend
        <3>1. ui' = Append(ui, fan.todo[1])
            BY <1>4, <2>2 DEF FanSend, Deliver
        <3>2. Len(ui') = Len(ui) + 1
            BY <1>1, <3>1
        <3>3. QED
            BY <1>1, <3>2
    <2>3. QED
        BY <1>4, <2>1, <2>2, Footprint DEF Touched
<1>5. QED
    BY <1>2, <1>3, <1>4
\* The queues, the fan-out, the session and the account keep their types, and
\* the queues their limits.
LEMMA ChannelTypesStep ==
    ASSUME FlowTypes, ChannelTypes, LimitInv, FanInv, OrderInv, [Next]_vars
    PROVE  ChannelTypes' /\ LimitInv'
<1>1. recorder' \in [Kept -> Seq(Item)]
    <2>1. recorder \in [Kept -> Seq(Item)]
        BY DEF ChannelTypes
    <2>2. CASE FanRecord
        <3>1. fan.at = "record" /\ recorder' = Record(recorder, fan.todo[1])
            BY <2>2 DEF FanRecord
        <3>2. fan.todo \in Seq(Event) /\ Len(fan.todo) = 1
            BY <3>1 DEF ChannelTypes, FanInv
        <3>3. fan.todo[1] \in Event /\ Genuine(fan.todo[1])
            BY <3>2 DEF OrderInv
        <3>4. Suits(fan.todo[1].what, fan.todo[1].kind)
            BY <3>3 DEF Genuine, GenuineAt
        <3>5. QED
            BY <2>1, <3>1, <3>3, <3>4, RecordFacts
    <2>3. CASE PageClear
        <3>1. Empty \in [Kept -> Seq(Item)]
            BY DEF Empty, Kept
        <3>2. QED
            BY <2>1, <2>3, <3>1 DEF PageClear
    <2>4. QED
        BY <2>1, <2>2, <2>3, Footprint DEF Touched
<1>2. QED
    BY <1>1, CoreStep, UiStep, FanStep DEF ChannelTypes, LimitInv

-----------------------------------------------------------------------------
(* The initial states: the imported history is one finished request.       *)

\* The recorder and the fan-out task start with the imported history.
LEMMA HistoryIs ==
    ASSUME Init
    PROVE  /\ recorder \in [Kept -> Seq(Item)]
           /\ Has(recorder["http"], 0)
           /\ fan = [at |-> "initial",
                     todo |-> <<[flow |-> 0, kind |-> "http", what |-> "complete"]>>]
<1> DEFINE x == [flow |-> 0, kind |-> "http", n |-> 0, closed |-> FALSE]
           e == [flow |-> 0, kind |-> "http", what |-> "complete"]
           Of(k) == FlattenSeq([i \in 1..Len(recorder[k]) |-> EventsOf(recorder[k][i])])
<1>1. x \in Item /\ <<x>> \in Seq(Item) /\ Len(<<x>>) = 1 /\ <<x>>[1] = x
    BY DEF Item, Ids, Kind
<1>2. recorder = [Empty EXCEPT !["http"] = <<x>>]
    BY DEF Init
<1>3. /\ recorder \in [Kept -> Seq(Item)] /\ recorder["http"] = <<x>>
      /\ \A k \in Kept \ {"http"} : recorder[k] = <<>>
    <2> DEFINE u == <<x>>
    <2>1. u \in Seq(Item)
        BY <1>1
    <2>2. "http" \in Kept
        BY DEF Kept, Kind
    <2>3. Empty \in [Kept -> Seq(Item)] /\ \A k \in Kept : Empty[k] = <<>>
        BY DEF Empty, Kept
    <2>4. recorder = [Empty EXCEPT !["http"] = u]
        BY <1>2
    <2> HIDE DEF u
    <2>5. /\ recorder \in [Kept -> Seq(Item)] /\ recorder["http"] = u
          /\ \A k \in Kept \ {"http"} : recorder[k] = <<>>
        BY <2>1, <2>2, <2>3, <2>4
    <2>6. QED
        BY <2>5 DEF u
<1>4. Of("http") = <<e>>
    <2>1. EventsOf(x) = <<e>>
        <3>1. [i \in 1..0 |-> Again(x, "data")] = <<>>
            OBVIOUS
        <3>2. <<e>> \o <<>> = <<e>>
            OBVIOUS
        <3>3. Again(x, "complete") = e
            BY DEF Again
        <3>4. QED
            BY <3>1, <3>2, <3>3 DEF EventsOf
    <2> DEFINE s == [i \in 1..Len(recorder["http"]) |-> EventsOf(recorder["http"][i])]
    <2>2. Len(s) = 1 /\ s[1] = <<e>>
        <3>1. Len(recorder["http"]) = 1 /\ recorder["http"][1] = x
            BY <1>1, <1>3
        <3> HIDE DEF x
        <3>2. QED
            BY <2>1, <3>1
    <2> HIDE DEF s
    <2>3. FlattenSeq(s) = <<e>>
        <3> DEFINE Step(f) == [i \in 1..Len(s) |-> IF i = 1 THEN s[i] ELSE f[i - 1] \o s[i]]
                   all == CHOOSE f : f = Step(f)
                   first == <<e>>
                   one == [i \in 1..1 |-> first]
        <3> HIDE DEF first
        <3>1. one = Step(one)
            <4>1. 1..Len(s) = 1..1 /\ s[1] = first /\ \A i \in 1..1 : i = 1
                BY <2>2 DEF first
            <4>2. QED
                BY <4>1
        <3>2. all = Step(all)
            BY Zenon, <3>1
        <3> HIDE DEF all
        <3>3. all[1] = <<e>>
            BY <2>2, <3>2
        <3>4. FlattenSeq(s) = all[Len(s)]
            BY <2>2 DEF FlattenSeq, all
        <3>5. QED
            BY <2>2, <3>3, <3>4
    <2>4. QED
        BY <2>3 DEF s
<1>5. \A k \in Kept \ {"http"} : Of(k) = <<>>
    BY <1>3 DEF FlattenSeq
<1>6. SessionEvents(recorder) = <<e>>
    <2>1. Of("ws") = <<>> /\ Of("tcp") = <<>> /\ Of("dns") = <<>> /\ Of("udp") = <<>>
        BY <1>5 DEF Kept, Kind
    <2>2. SessionEvents(recorder) = Of("http") \o Of("ws") \o Of("tcp") \o Of("dns") \o Of("udp")
        BY DEF SessionEvents
    <2> HIDE DEF Of, e
    <2>3. <<e>> \o <<>> = <<e>>
        OBVIOUS
    <2>4. QED
        BY <1>4, <2>1, <2>2, <2>3
<1>7. Has(recorder["http"], 0)
    BY <1>1, <1>3 DEF Has
<1>8. QED
    BY <1>3, <1>6, <1>7 DEF Init

\* The initial states satisfy the inductive invariant.
LEMMA InitInv == Init => IInv
<1> SUFFICES ASSUME Init PROVE IInv
    OBVIOUS
<1> DEFINE e == [flow |-> 0, kind |-> "http", what |-> "complete"]
           s == <<e>>
<1>1. /\ recorder \in [Kept -> Seq(Item)] /\ Has(recorder["http"], 0)
      /\ fan = [at |-> "initial", todo |-> s]
    BY HistoryIs
<1>2. /\ e \in Event /\ s \in Seq(Event) /\ Len(s) = 1 /\ s[1] = e /\ <<>> \in Seq(Event)
      /\ e.flow = 0 /\ e.kind = "http" /\ e.what = "complete"
    BY DEF Event, Ids, Kind, What
<1> HIDE DEF e
<1>3. /\ core = <<>> /\ ui = <<>> /\ held = {} /\ main = "running" /\ tui = NoTui
      /\ edit = NoEdit /\ page = NoPage /\ filter = NoFilter /\ backlog = 0
      /\ done = [f \in Flow |-> 0]
    BY DEF Init
<1>4. iface \in {"tui", "web", "terminal"} /\ kind \in [Flow -> Kind]
    BY SetupAssumption DEF Init
<1>5. FlowTypes
    <2>1. \A f \in Flow : done[f] <= Len(Script(kind[f]))
        BY <1>3, <1>4, ScriptFacts
    <2>2. QED
        BY <1>3, <1>4, <2>1 DEF FlowTypes
<1>6. fan.at = "initial" /\ fan.todo = s
    BY <1>1
<1> HIDE DEF s
<1>7. ChannelTypes
    BY <1>1, <1>2, <1>3 DEF ChannelTypes
<1>8. Len(<<>>) = 0 /\ (\A i \in 1..Len(<<>>) : FALSE)
    OBVIOUS
<1>9. LimitInv
    BY <1>3, <1>8, CapAssumption DEF LimitInv
<1>10. ScreenInv
    BY <1>3, NoTuiFits, NoPageOk DEF ScreenInv
<1>11. FanInv
    BY <1>3, <1>6, <1>8 DEF FanInv
<1>12. OrderInv
    <2>1. Genuine(e)
        BY <1>2 DEF Genuine, GenuineAt, KindAt, LevelAt, Suits, Rank
    <2>2. \A i \in 1..Len(s) : i = 1
        BY <1>2
    <2>3. \A i \in 1..Len(s) : Genuine(s[i])
        BY <1>2, <2>1, <2>2
    <2>4. Ordered(s)
        BY <2>2 DEF Ordered
    <2>5. Ordered(<<>>) /\ AllBefore(<<>>, s) /\ AllBefore(<<>>, <<>>) /\ AllBefore(s, <<>>)
        BY <1>2, EmptyOrder
    <2>6. QED
        BY <1>3, <1>6, <1>8, <2>3, <2>4, <2>5 DEF OrderInv
<1>13. tui.rows = <<>>
    BY <1>3, NoTuiFits
<1>14. RowsInv
    BY <1>3, <1>8, <1>13 DEF RowsInv
<1>15. RecordInv
    <2>1. EventKept(e, recorder)
        BY <1>1, <1>2 DEF EventKept
    <2>2. \A i \in 1..Len(s) : EventKept(s[i], recorder)
        BY <1>2, <2>1
    <2>3. QED
        BY <1>3, <1>6, <1>8, <1>13, <2>2 DEF RecordInv
<1>16. OneRowPerExchange
    BY <1>8, <1>13 DEF OneRowPerExchange
<1>17. EditInv
    BY <1>3 DEF EditInv, NoEdit, Session, Ids
<1>18. FilterInv
    BY <1>3, BoundAssumption DEF FilterInv, FilterIsLatest, NoFilter
<1>19. QED
    BY <1>5, <1>7, <1>9, <1>10, <1>11, <1>12, <1>14, <1>15, <1>16, <1>17, <1>18 DEF IInv

-----------------------------------------------------------------------------
(* The theorems.                                                           *)

\* What main.rs, the recorder and the interfaces keep up together: the queues
\* carry each flow's events in its order and inside their limits, what the TUI
\* shows is behind the events still to come, and what it shows has been recorded.
THEOREM Invariance == Spec => []IInv
<1>1. IInv /\ [Next]_vars => IInv'
    <2> SUFFICES ASSUME IInv, [Next]_vars PROVE IInv'
        OBVIOUS
    <2> USE DEF IInv
    <2>1. FlowTypes'
        BY FlowTypesStep
    <2>2. ChannelTypes' /\ LimitInv'
        BY ChannelTypesStep
    <2>3. Fits(tui') /\ PageOk(page')
        BY TuiStep, PageTypesStep DEF ScreenInv
    <2>4. ScreenInv'
        BY <2>3 DEF ScreenInv
    <2>5. FanInv'
        BY FanStep
    <2>6. OrderInv'
        BY OrderStep
    <2>7. RowsInv'
        BY RowsStep
    <2>8. RecordInv'
        BY RecordStep
    <2>9. OneRowPerExchange'
        BY OneRowStep
    <2>10. EditInv' /\ FilterInv'
        BY EditStep, FilterStep
    <2>11. QED
        BY <2>1, <2>2, <2>4, <2>5, <2>6, <2>7, <2>8, <2>9, <2>10
<1>2. QED
    BY <1>1, InitInv, PTL DEF Spec

\* SavedIsComplete and RecordedFirst: what add_event has shown of an exchange
\* SessionRecorder::record has stored, for every interleaving of the tasks.
THEOREM RecordIsFaithfulHolds == Spec => []RecordIsFaithful
<1>1. IInv => RecordIsFaithful
    <2> SUFFICES ASSUME IInv PROVE RecordIsFaithful
        OBVIOUS
    <2>1. TypeOK
        <3>1. done \in [Flow -> 0..4]
            <4>1. \A f \in Flow : kind[f] \in Kind /\ done[f] \in Nat /\ done[f] <= Len(Script(kind[f]))
                BY DEF IInv, FlowTypes
            <4>2. \A f \in Flow : done[f] \in 0..4
                BY <4>1, ScriptFacts
            <4>3. QED
                BY <4>2 DEF IInv, FlowTypes
        <3>2. tui.sel \in 0..MaxRows /\ Len(tui.rows) <= MaxRows
            BY CapAssumption DEF IInv, ScreenInv, Fits, TuiType
        <3>3. Len(page.requests) <= MaxRows /\ Len(page.buf) <= BusCap
            BY DEF IInv, ScreenInv, PageOk
        <3>4. fan.at \in {"initial", "recv", "record", "send", "ended", "aborted"} /\ backlog \in Nat
            BY DEF IInv, ChannelTypes
        <3>5. /\ iface \in {"tui", "web", "terminal"} /\ kind \in [Flow -> Kind]
              /\ held \in SUBSET Flow /\ main \in {"running", "returned", "stopped", "saved"}
            BY DEF IInv, FlowTypes
        <3>6. Len(core) <= CoreCap /\ Len(ui) <= UiCap /\ filter.gen \in 0..MaxGen
            BY DEF IInv, LimitInv, FilterInv
        <3>7. QED
            BY <3>1, <3>2, <3>3, <3>4, <3>5, <3>6 DEF TypeOK
    <2>2. SavedIsComplete
        <3> SUFFICES ASSUME main = "saved", fan.at = "ended" PROVE core = <<>> /\ backlog = 0
            BY DEF SavedIsComplete
        <3>1. core = <<>>
            BY DEF IInv, FanInv
        <3>2. backlog = Len(core) + (IF fan.at = "record" THEN 1 ELSE 0)
            BY DEF IInv, FanInv
        <3>3. Len(core) = 0
            BY <3>1
        <3>4. QED
            BY <3>1, <3>2, <3>3
    <2>3. RecordedFirst
        <3> SUFFICES ASSUME NEW i \in 1..Len(tui.rows),
                            tui.rows[i].kind \in {"http", "ws", "tcp", "dns", "udp"}
                     PROVE  \E j \in 1..Len(recorder[tui.rows[i].kind]) :
                               LET y == recorder[tui.rows[i].kind][j]
                               IN /\ y.flow = tui.rows[i].flow /\ y.n >= tui.rows[i].n
                                  /\ tui.rows[i].closed => y.closed
            BY DEF RecordedFirst
        <3> DEFINE x == tui.rows[i]
        <3>1. iface = "tui"
            <4>1. \A j \in 1..Len(<<>>) : FALSE
                OBVIOUS
            <4>2. iface # "tui" => tui.rows = <<>>
                BY NoTuiFits DEF IInv, RowsInv
            <4>3. QED
                BY <4>1, <4>2
        <3>2. RowKept(x, recorder) /\ x.kind \in Kept
            BY <3>1 DEF IInv, RecordInv, Kept, Kind
        <3> HIDE DEF x
        <3>3. Has(recorder[x.kind], x.flow) /\ IsAt(recorder[x.kind], x.flow, x.n, x.closed)
            BY <3>2 DEF RowKept
        <3>4. \E j \in 1..Len(recorder[x.kind]) :
                  LET y == recorder[x.kind][j]
                  IN y.flow = x.flow /\ y.n >= x.n /\ (x.closed => y.closed)
            BY <3>3 DEF Has, IsAt
        <3>5. QED
            BY <3>4 DEF x
    <2>4. QED
        BY <2>1, <2>2, <2>3 DEF RecordIsFaithful
<1>2. QED
    BY <1>1, Invariance, PTL

\* An exchange has one row of the TUI: a held request completes in its row
\* (add_event, promote), and only one that became a WebSocket leaves it behind.
THEOREM OneRowPerExchangeHolds == Spec => []OneRowPerExchange
BY Invariance, PTL DEF IInv

\* The indices EditSession::handle_key uses are inside the text.
THEOREM CursorInsideHolds == Spec => []CursorInside
<1>1. IInv => CursorInside
    BY DEF IInv, EditInv, CursorInside
<1>2. QED
    BY <1>1, Invariance, PTL

\* refreshFilter never shows the answer to an expression that has been replaced.
THEOREM FilterIsLatestHolds == Spec => []FilterIsLatest
<1>1. IInv => FilterIsLatest
    BY DEF IInv, FilterInv
<1>2. QED
    BY <1>1, Invariance, PTL

\* add_event moves the selection with the row it is on.
THEOREM SelectionStaysHolds == Spec => SelectionStays
<1> DEFINE Stays ==
        /\ ui' # ui /\ Len(ui') < Len(ui)
        /\ ~tui.filtered
        /\ tui.sel \in 1..Len(tui.rows)
        /\ ~(tui.sel = 1 /\ Len(tui.rows) = MaxRows)
        => tui'.rows[tui'.sel].flow = tui.rows[tui.sel].flow
<1>1. IInv /\ [Next]_vars => [Stays]_vars
    BY SelectionStep DEF IInv
<1>2. SelectionStays <=> [][Stays]_vars
    BY DEF SelectionStays
<1>3. QED
    BY <1>1, <1>2, Invariance, PTL DEF Spec

-----------------------------------------------------------------------------
(* Replaying a session.  What follows is by induction over the entries of a  *)
(* kind: a fold and FlattenSeq are each the function they are defined by.    *)

\* A set of naturals that is not empty has a least element.
LEMMA LeastNatural ==
    ASSUME NEW T, T \subseteq Nat, T # {}
    PROVE  \E x \in T : \A y \in T : x <= y
<1>1. IsWellFoundedOn(OpToRel(<, Nat), Nat)
    BY NatLessThanWellFounded
<1>2. PICK x \in T : \A y \in T : ~(<<y, x>> \in OpToRel(<, Nat))
    BY <1>1, WFMin
<1>3. x \in Nat /\ \A y \in T : y \in Nat
    OBVIOUS
<1>4. \A y \in T : ~(y < x)
    BY <1>2, <1>3 DEF OpToRel
<1>5. \A y \in T : x <= y
    BY <1>3, <1>4
<1>6. QED
    BY <1>5

\* A set that holds 0 and with each natural the next one holds them all.
LEMMA Induction ==
    ASSUME NEW S, 0 \in S, \A i \in Nat : i \in S => i + 1 \in S
    PROVE  Nat \subseteq S
<1> DEFINE T == {i \in Nat : i \notin S}
<1>1. SUFFICES ASSUME T # {} PROVE FALSE
    OBVIOUS
<1>2. PICK x \in T : \A y \in T : x <= y
    BY <1>1, LeastNatural
<1>3. x # 0 /\ x - 1 \in Nat /\ x - 1 \notin T
    BY <1>2
<1>4. QED
    BY <1>2, <1>3
\* The prefixes one after the other: what has been put together after each.
LEMMA Flattening ==
    ASSUME NEW S, NEW s \in Seq(Seq(S)), s # <<>>
    PROVE  \E f \in [1..Len(s) -> Seq(S)] :
             /\ f[1] = s[1] /\ \A i \in 1..Len(s) - 1 : f[i + 1] = f[i] \o s[i + 1]
             /\ FlattenSeq(s) = f[Len(s)]
<1> DEFINE Eq(f) == f = [i \in 1..Len(s) |-> IF i = 1 THEN s[i] ELSE f[i - 1] \o s[i]]
           Partial(j) == {f \in [1..j + 1 -> Seq(S)] :
              f[1] = s[1] /\ \A i \in 1..j : f[i + 1] = f[i] \o s[i + 1]}
           Good == {j \in Nat : j + 1 <= Len(s) => Partial(j) # {}}
<1>1. Len(s) \in Nat /\ Len(s) >= 1 /\ \A i \in 1..Len(s) : s[i] \in Seq(S)
    BY EmptySeq, LenProperties, ElementOfSeq
<1>2. 0 \in Good
    <2>1. [i \in 1..0 + 1 |-> s[1]] \in Partial(0)
        BY <1>1
    <2>2. QED
        BY <2>1
<1>3. ASSUME NEW j \in Nat, j \in Good
      PROVE  j + 1 \in Good
    <2> HIDE DEF Partial
    <2>1. SUFFICES ASSUME j + 1 + 1 <= Len(s) PROVE Partial(j + 1) # {}
        OBVIOUS
    <2>2. PICK f : f \in Partial(j)
        BY <1>1, <1>3, <2>1
    <2> USE DEF Partial
    <2> DEFINE g == [i \in 1..j + 1 + 1 |-> IF i <= j + 1 THEN f[i] ELSE f[j + 1] \o s[j + 1 + 1]]
    <2>g. \A i \in 1..j + 1 + 1 : g[i] = IF i <= j + 1 THEN f[i] ELSE f[j + 1] \o s[j + 1 + 1]
        OBVIOUS
    <2>3. f[j + 1] \in Seq(S) /\ s[j + 1 + 1] \in Seq(S)
        BY <1>1, <2>1, <2>2
    <2>4. f[j + 1] \o s[j + 1 + 1] \in Seq(S)
        BY <2>3, ConcatProperties
    <2>5. g \in [1..j + 1 + 1 -> Seq(S)]
        BY <2>2, <2>4
    <2> HIDE DEF g
    <2>6. g[1] = s[1]
        BY <2>2, <2>g
    <2>7. ASSUME NEW i \in 1..j + 1 PROVE g[i + 1] = g[i] \o s[i + 1]
        <3>1. CASE i = j + 1
            <4>1. g[i + 1] = f[j + 1] \o s[j + 1 + 1] /\ g[i] = f[j + 1] /\ i + 1 = j + 1 + 1
                <5>1. j + 1 \in 1..j + 1 + 1 /\ j + 1 + 1 \in 1..j + 1 + 1 /\ ~(j + 1 + 1 <= j + 1)
                    OBVIOUS
                <5>2. g[j + 1 + 1] = f[j + 1] \o s[j + 1 + 1]
                    BY <2>g, <5>1, Zenon
                <5>3. g[j + 1] = f[j + 1]
                    BY <2>g, <5>1, j + 1 <= j + 1, Zenon
                <5>4. QED
                    BY <3>1, <5>2, <5>3
            <4>2. QED
                BY <4>1
        <3>2. CASE i # j + 1
            <4>1. i \in 1..j /\ i + 1 \in 1..j + 1 + 1 /\ i \in 1..j + 1 + 1 /\ i + 1 <= j + 1 /\ i <= j + 1
                BY <3>2
            <4>2. g[i + 1] = f[i + 1] /\ g[i] = f[i]
                BY <2>g, <4>1, Zenon
            <4>3. QED
                BY <2>2, <4>1, <4>2
        <3>3. QED
            BY <3>1, <3>2
    <2>8. g \in Partial(j + 1)
        BY <2>5, <2>6, <2>7
    <2>9. QED
        BY <2>8
<1>4. Partial(Len(s) - 1) # {}
    <2> HIDE DEF Good, Partial
    <2>1. Nat \subseteq Good
        BY <1>2, <1>3, Induction
    <2>2. Len(s) - 1 \in Good /\ (Len(s) - 1) + 1 <= Len(s)
        BY <1>1, <2>1
    <2>3. QED
        BY <2>2 DEF Good
<1>5. PICK f : f \in Partial(Len(s) - 1)
    BY <1>4
<1>6. f \in [1..Len(s) -> Seq(S)] /\ f[1] = s[1] /\ \A i \in 1..Len(s) - 1 : f[i + 1] = f[i] \o s[i + 1]
    BY <1>1, <1>5, (Len(s) - 1) + 1 = Len(s)
<1>7. Eq(f)
    <2>1. ASSUME NEW i \in 1..Len(s), i # 1 PROVE f[i] = f[i - 1] \o s[i]
        <3>1. i - 1 \in 1..Len(s) - 1 /\ (i - 1) + 1 = i
            BY <1>1, <2>1
        <3>2. QED
            BY <1>6, <3>1
    <2>2. \A i \in 1..Len(s) : f[i] = IF i = 1 THEN s[i] ELSE f[i - 1] \o s[i]
        BY <1>6, <2>1
    <2>3. QED
        BY <1>6, <2>2
<1> DEFINE F == CHOOSE h : Eq(h)
<1>8. Eq(F)
    BY <1>7
<1>9. FlattenSeq(s) = F[Len(s)]
    BY <1>1 DEF FlattenSeq
<1>10. F = f
    <2>1. DOMAIN F = 1..Len(s) /\ DOMAIN f = 1..Len(s)
        BY <1>7, <1>8
    <2> DEFINE Same == {j \in Nat : j + 1 <= Len(s) => F[j + 1] = f[j + 1]}
    <2>2. \A i \in 1..Len(s) : F[i] = IF i = 1 THEN s[i] ELSE F[i - 1] \o s[i]
        BY <1>8
    <2>3. \A i \in 1..Len(s) : f[i] = IF i = 1 THEN s[i] ELSE f[i - 1] \o s[i]
        BY <1>7
    <2> HIDE DEF F
    <2>4. 0 \in Same
        BY <1>1, <2>2, <2>3
    <2>5. ASSUME NEW j \in Nat, j \in Same PROVE j + 1 \in Same
        <3>1. SUFFICES ASSUME j + 1 + 1 <= Len(s) PROVE F[j + 1 + 1] = f[j + 1 + 1]
            OBVIOUS
        <3>2. F[j + 1] = f[j + 1] /\ j + 1 + 1 \in 1..Len(s) /\ j + 1 + 1 # 1 /\ (j + 1 + 1) - 1 = j + 1
            BY <1>1, <2>5, <3>1
        <3>3. F[j + 1 + 1] = F[j + 1] \o s[j + 1 + 1] /\ f[j + 1 + 1] = f[j + 1] \o s[j + 1 + 1]
            BY <2>2, <2>3, <3>2
        <3>4. QED
            BY <3>2, <3>3
    <2>6. Nat \subseteq Same
        <3> HIDE DEF Same
        <3>1. QED
            BY <2>4, <2>5, Induction
    <2>7. ASSUME NEW i \in 1..Len(s) PROVE F[i] = f[i]
        <3>1. i - 1 \in Nat /\ (i - 1) + 1 = i
            BY <1>1
        <3>2. i - 1 \in Same
            BY <2>6, <3>1
        <3>3. QED
            BY <1>1, <3>1, <3>2
    <2>8. F = [i \in 1..Len(s) |-> F[i]] /\ f = [i \in 1..Len(s) |-> f[i]]
        <3>1. F = [i \in 1..Len(s) |-> IF i = 1 THEN s[i] ELSE F[i - 1] \o s[i]]
            BY <1>8
        <3>2. f = [i \in 1..Len(s) |-> f[i]]
            BY <1>6
        <3>3. QED
            BY <3>1, <3>2
    <2>9. QED
        BY <2>7, <2>8
<1>11. QED
    BY <1>6, <1>9, <1>10
-----------------------------------------------------------------------------
(* Replaying a session: a fold, by the function it is defined by.            *)

Sessions == [Kept -> Seq(Item)]

\* Recording an event keeps the session a session, whatever the event.
LEMMA RecordType ==
    ASSUME NEW rec \in Sessions, NEW e \in Event
    PROVE  Record(rec, e) \in Sessions
<1>1. Entry(e) \in Item /\ e.what \in What
    BY NewItem DEF Event
<1>2. ASSUME NEW k \in Kept
      PROVE  /\ Upsert(rec[k], Entry(e)) \in Seq(Item) /\ Append(rec[k], Entry(e)) \in Seq(Item)
             /\ Update(rec[k], e.flow, More) \in Seq(Item) /\ Update(rec[k], e.flow, Shut) \in Seq(Item)
    <2>1. rec[k] \in Seq(Item)
        BY DEF Sessions
    <2>2. QED
        BY <1>1, <2>1, UpsertFacts, AppendFacts, UpdateFacts
<1>3. CASE e.what = "complete"
    <2> DEFINE k == "http"
               x == Upsert(rec["http"], Entry(e))
    <2>1. Record(rec, e) = [rec EXCEPT ![k] = x]
        BY <1>3 DEF Record
    <2>2. k \in Kept => x \in Seq(Item)
        BY <1>2
    <2> HIDE DEF k, x
    <2>3. [rec EXCEPT ![k] = x] \in Sessions
        BY <2>2 DEF Sessions
    <2>4. QED
        BY <2>1, <2>3
<1>4. CASE e.what = "open"
    <2> DEFINE k == e.kind
               x == Upsert(rec[e.kind], Entry(e))
               y == Append(rec[e.kind], Entry(e))
    <2>1. Record(rec, e) = [rec EXCEPT ![k] = x] \/ Record(rec, e) = [rec EXCEPT ![k] = y]
        BY <1>4 DEF Record
    <2>2. k \in Kept => x \in Seq(Item) /\ y \in Seq(Item)
        BY <1>2
    <2> HIDE DEF k, x, y
    <2>3. [rec EXCEPT ![k] = x] \in Sessions /\ [rec EXCEPT ![k] = y] \in Sessions
        BY <2>2 DEF Sessions
    <2>4. QED
        BY <2>1, <2>3
<1>5. CASE e.what = "data"
    <2> DEFINE k == e.kind
               x == Update(rec[e.kind], e.flow, More)
    <2>1. Record(rec, e) = [rec EXCEPT ![k] = x]
        BY <1>5 DEF Record
    <2>2. k \in Kept => x \in Seq(Item)
        BY <1>2
    <2> HIDE DEF k, x
    <2>3. [rec EXCEPT ![k] = x] \in Sessions
        BY <2>2 DEF Sessions
    <2>4. QED
        BY <2>1, <2>3
<1>6. CASE e.what = "end"
    <2> DEFINE k == e.kind
               x == Update(rec[e.kind], e.flow, Shut)
    <2>1. Record(rec, e) = [rec EXCEPT ![k] = x]
        BY <1>6 DEF Record
    <2>2. k \in Kept => x \in Seq(Item)
        BY <1>2
    <2> HIDE DEF k, x
    <2>3. [rec EXCEPT ![k] = x] \in Sessions
        BY <2>2 DEF Sessions
    <2>4. QED
        BY <2>1, <2>3
<1>7. CASE e.what \in {"intercepted", "error"}
    BY <1>7 DEF Record
<1>8. QED
    BY <1>1, <1>3, <1>4, <1>5, <1>6, <1>7 DEF What

\* The sessions on the way: one before each event and one after the last.
IsReplay(g, rec, s) ==
    /\ g \in [0..Len(s) -> Sessions] /\ g[0] = rec
    /\ \A i \in 1..Len(s) : g[i] = Record(g[i - 1], s[i])

\* There is always a way.
LEMMA ReplayExists ==
    ASSUME NEW rec \in Sessions, NEW s \in Seq(Event)
    PROVE  \E g : IsReplay(g, rec, s)
<1> DEFINE Partial(j) == {g \in [0..j -> Sessions] :
              g[0] = rec /\ \A i \in 1..j : g[i] = Record(g[i - 1], s[i])}
           Good == {j \in Nat : j <= Len(s) => Partial(j) # {}}
<1>1. Len(s) \in Nat /\ \A i \in 1..Len(s) : s[i] \in Event
    BY LenProperties, ElementOfSeq
<1>2. 0 \in Good
    <2>1. [i \in 0..0 |-> rec] \in Partial(0)
        OBVIOUS
    <2>2. QED
        BY <2>1
<1>3. ASSUME NEW j \in Nat, j \in Good
      PROVE  j + 1 \in Good
    <2> HIDE DEF Partial
    <2>1. SUFFICES ASSUME j + 1 <= Len(s) PROVE Partial(j + 1) # {}
        OBVIOUS
    <2>2. PICK f : f \in Partial(j)
        BY <1>1, <1>3, <2>1
    <2> USE DEF Partial
    <2> DEFINE new == Record(f[j], s[j + 1])
               g == [i \in 0..j + 1 |-> IF i <= j THEN f[i] ELSE new]
    <2>3. f[j] \in Sessions /\ s[j + 1] \in Event
        BY <1>1, <2>1, <2>2
    <2>4. new \in Sessions
        BY <2>3, RecordType
    <2> HIDE DEF new
    <2>5. g \in [0..j + 1 -> Sessions]
        BY <2>2, <2>4
    <2>6. \A i \in 0..j + 1 : g[i] = IF i <= j THEN f[i] ELSE new
        OBVIOUS
    <2> HIDE DEF g
    <2>7. g[0] = rec
        BY <2>2, <2>6
    <2>8. ASSUME NEW i \in 1..j + 1 PROVE g[i] = Record(g[i - 1], s[i])
        <3>1. CASE i = j + 1
            <4>1. g[i] = new /\ g[i - 1] = f[j]
                BY <2>6, <3>1
            <4>2. QED
                BY <3>1, <4>1 DEF new
        <3>2. CASE i # j + 1
            <4>1. i \in 1..j /\ g[i] = f[i] /\ g[i - 1] = f[i - 1]
                BY <2>6, <3>2
            <4>2. QED
                BY <2>2, <4>1
        <3>3. QED
            BY <3>1, <3>2
    <2>9. g \in Partial(j + 1)
        BY <2>5, <2>7, <2>8
    <2>10. QED
        BY <2>9
<1>4. Len(s) \in Good
    <2> HIDE DEF Good, Partial
    <2>1. QED
        BY <1>1, <1>2, <1>3, Induction
<1>5. PICK g : g \in Partial(Len(s))
    BY <1>1, <1>4
<1>6. IsReplay(g, rec, s)
    BY <1>5 DEF IsReplay
<1>7. QED
    BY <1>6

\* There is one way only, and Replay is where it leads.
LEMMA ReplayIs ==
    ASSUME NEW rec \in Sessions, NEW s \in Seq(Event), NEW g, IsReplay(g, rec, s)
    PROVE  Replay(rec, s) = g[Len(s)] /\ Replay(rec, s) \in Sessions
<1> DEFINE Eq(f) == f = [i \in 0..Len(s) |-> IF i = 0 THEN rec ELSE Record(f[i - 1], s[i])]
           h == CHOOSE f : Eq(f)
<1>1. Len(s) \in Nat /\ g \in [0..Len(s) -> Sessions] /\ g[0] = rec
      /\ \A i \in 1..Len(s) : g[i] = Record(g[i - 1], s[i])
    BY LenProperties DEF IsReplay
<1>2. Eq(g)
    <2>1. \A i \in 0..Len(s) : g[i] = IF i = 0 THEN rec ELSE Record(g[i - 1], s[i])
        BY <1>1
    <2>2. g = [i \in 0..Len(s) |-> g[i]]
        BY <1>1
    <2>3. QED
        BY <2>1, <2>2
<1>3. Eq(h)
    BY <1>2
<1>4. Replay(rec, s) = h[Len(s)]
    BY DEF Replay
<1>5. \A i \in 0..Len(s) : h[i] = IF i = 0 THEN rec ELSE Record(h[i - 1], s[i])
    BY <1>3
<1> HIDE DEF h
<1> DEFINE Same == {j \in Nat : j <= Len(s) => h[j] = g[j]}
<1>6. 0 \in Same
    BY <1>1, <1>5
<1>7. ASSUME NEW j \in Nat, j \in Same PROVE j + 1 \in Same
    <2>1. SUFFICES ASSUME j + 1 <= Len(s) PROVE h[j + 1] = g[j + 1]
        OBVIOUS
    <2>2. j + 1 \in 1..Len(s) /\ j + 1 \in 0..Len(s) /\ j + 1 # 0 /\ (j + 1) - 1 = j /\ h[j] = g[j]
        BY <1>1, <1>7, <2>1
    <2>3. h[j + 1] = Record(h[j], s[j + 1]) /\ g[j + 1] = Record(g[j], s[j + 1])
        BY <1>1, <1>5, <2>2
    <2>4. QED
        BY <2>2, <2>3
<1>8. Len(s) \in Same
    <2> HIDE DEF Same
    <2>1. QED
        BY <1>1, <1>6, <1>7, Induction
<1>9. QED
    BY <1>1, <1>4, <1>8

\* Events after others are replayed on what the others have made.
LEMMA ReplayConcat ==
    ASSUME NEW rec \in Sessions, NEW s \in Seq(Event), NEW t \in Seq(Event)
    PROVE  /\ Replay(rec, s) \in Sessions
           /\ Replay(rec, s \o t) = Replay(Replay(rec, s), t)
           /\ Replay(rec, <<>>) = rec
<1>1. PICK g : IsReplay(g, rec, s)
    BY ReplayExists
<1>2. Replay(rec, s) = g[Len(s)] /\ g[Len(s)] \in Sessions
    BY <1>1, ReplayIs
<1> DEFINE m == Len(s)
           n == Len(t)
           mid == g[m]
<1>3. PICK h : IsReplay(h, mid, t)
    BY <1>2, ReplayExists
<1>4. Replay(mid, t) = h[n]
    BY <1>2, <1>3, ReplayIs
<1>5. /\ m \in Nat /\ n \in Nat /\ s \o t \in Seq(Event) /\ Len(s \o t) = m + n
      /\ \A i \in 1..m + n : (s \o t)[i] = IF i <= m THEN s[i] ELSE t[i - m]
    BY ConcatProperties, LenProperties
<1> DEFINE f == [i \in 0..m + n |-> IF i <= m THEN g[i] ELSE h[i - m]]
           u == s \o t
<1>6. /\ g \in [0..m -> Sessions] /\ g[0] = rec /\ \A i \in 1..m : g[i] = Record(g[i - 1], s[i])
      /\ h \in [0..n -> Sessions] /\ h[0] = mid /\ \A i \in 1..n : h[i] = Record(h[i - 1], t[i])
    BY <1>1, <1>3 DEF IsReplay
<1> HIDE DEF u, m, n
<1>7. f \in [0..m + n -> Sessions]
    BY <1>5, <1>6
<1>8. \A i \in 0..m + n : f[i] = IF i <= m THEN g[i] ELSE h[i - m]
    OBVIOUS
<1> HIDE DEF f, mid
<1>9. f[0] = rec
    BY <1>5, <1>6, <1>8
<1>10. ASSUME NEW i \in 1..m + n PROVE f[i] = Record(f[i - 1], u[i])
    <2>1. CASE i <= m
        <3>1. i \in 1..m /\ f[i] = g[i] /\ f[i - 1] = g[i - 1] /\ u[i] = s[i]
            BY <1>5, <1>8, <2>1 DEF u
        <3>2. QED
            BY <1>6, <3>1
    <2>2. CASE ~(i <= m)
        <3>1. i - m \in 1..n /\ f[i] = h[i - m] /\ u[i] = t[i - m] /\ (i - m) - 1 = (i - 1) - m
            BY <1>5, <1>8, <2>2 DEF u
        <3>2. f[i - 1] = h[(i - m) - 1]
            <4>1. CASE i = m + 1
                <5>1. i - 1 = m /\ m \in 0..m + n /\ m <= m /\ (i - m) - 1 = 0
                    BY <1>5, <4>1
                <5>2. f[m] = g[m]
                    BY <1>8, <5>1
                <5>3. QED
                    BY <1>6, <5>1, <5>2 DEF mid
            <4>2. CASE i # m + 1
                BY <1>5, <1>8, <2>2, <3>1, <4>2
            <4>3. QED
                BY <4>1, <4>2
        <3>3. QED
            BY <1>6, <3>1, <3>2
    <2>3. QED
        BY <2>1, <2>2
<1>11. u \in Seq(Event) /\ Len(u) = m + n
    BY <1>5 DEF u
<1>12. IsReplay(f, rec, u)
    BY <1>7, <1>9, <1>10, <1>11 DEF IsReplay
<1>13. Replay(rec, u) = f[m + n]
    BY <1>11, <1>12, ReplayIs
<1>14. f[m + n] = h[n]
    <2>1. CASE n = 0
        <3>1. f[m + n] = g[m]
            BY <1>5, <1>8, <2>1
        <3>2. QED
            BY <1>6, <2>1, <3>1 DEF mid
    <2>2. CASE n # 0
        BY <1>5, <1>8, <2>2
    <2>3. QED
        BY <2>1, <2>2
<1>15. Replay(rec, <<>>) = rec
    <2> DEFINE e == <<>>
               f0 == [i \in 0..0 |-> rec]
    <2>1. e \in Seq(Event) /\ Len(e) = 0
        BY EmptySeq
    <2> HIDE DEF e
    <2>2. IsReplay(f0, rec, e)
        BY <2>1 DEF IsReplay
    <2>3. Replay(rec, e) = f0[0]
        <3> HIDE DEF f0
        <3>1. QED
            BY <2>1, <2>2, ReplayIs
    <2>4. QED
        BY <2>3 DEF e
<1>16. QED
    BY <1>2, <1>4, <1>13, <1>14, <1>15 DEF u, mid, m, n

-----------------------------------------------------------------------------
(* What an entry, a kind and a session come to when they are replayed.       *)

\* The events of an entry: it begins, it goes on, and it may end.
LEMMA EventsOfFacts ==
    ASSUME NEW x \in Item, x.kind \in Kept
    PROVE  /\ EventsOf(x) \in Seq(Event)
           /\ Len(EventsOf(x)) = x.n + 1 + (IF x.closed THEN 1 ELSE 0)
           /\ EventsOf(x)[1] = Again(x, IF x.kind = "http" THEN "complete" ELSE "open")
           /\ \A i \in 1..x.n : EventsOf(x)[i + 1] = Again(x, "data")
           /\ x.closed => EventsOf(x)[x.n + 2] = Again(x, "end")
<1>1. x.n \in Nat /\ x.closed \in BOOLEAN /\ x.flow \in Ids /\ x.kind \in Kind
    BY DEF Item, Kept
<1>2. \A w \in What : Again(x, w) \in Event
    BY <1>1 DEF Again, Event
<1> DEFINE first == Again(x, IF x.kind = "http" THEN "complete" ELSE "open")
           more == Again(x, "data")
           last == Again(x, "end")
           a == << first >>
           b == [i \in 1..x.n |-> more]
           c == IF x.closed THEN << last >> ELSE <<>>
           n == x.n
           l == IF x.closed THEN 1 ELSE 0
<1>3. first \in Event /\ more \in Event /\ last \in Event
    BY <1>2 DEF What
<1>4. EventsOf(x) = (a \o b) \o c
    BY DEF EventsOf
<1> HIDE DEF first, more, last
<1>5. a \in Seq(Event) /\ Len(a) = 1 /\ a[1] = first
    BY <1>3
<1>6. b \in Seq(Event) /\ Len(b) = n /\ \A i \in 1..n : b[i] = more
    BY <1>1, <1>3
<1>7. c \in Seq(Event) /\ Len(c) = l /\ (x.closed => c[1] = last)
    BY <1>3
<1>8. n \in Nat /\ l \in Nat
    BY <1>1
<1> HIDE DEF a, b, c, n
<1>9. /\ a \o b \in Seq(Event) /\ Len(a \o b) = 1 + n
      /\ \A i \in 1..1 + n : (a \o b)[i] = IF i <= 1 THEN a[i] ELSE b[i - 1]
    <2>1. /\ a \o b \in Seq(Event) /\ Len(a \o b) = Len(a) + Len(b)
          /\ \A i \in 1..Len(a) + Len(b) :
                (a \o b)[i] = IF i <= Len(a) THEN a[i] ELSE b[i - Len(a)]
        BY <1>5, <1>6, ConcatProperties
    <2>2. QED
        BY <1>5, <1>6, <2>1
<1> DEFINE d == a \o b
           e == d \o c
<1>10. d \in Seq(Event) /\ Len(d) = 1 + n /\ d[1] = first /\ \A i \in 1..n : d[i + 1] = more
    <2>1. 1 \in 1..1 + n /\ 1 <= 1
        BY <1>8
    <2>2. d[1] = first
        BY <1>5, <1>9, <2>1
    <2>3. ASSUME NEW i \in 1..n PROVE d[i + 1] = more
        <3>1. i + 1 \in 1..1 + n /\ ~(i + 1 <= 1) /\ (i + 1) - 1 = i
            BY <1>8
        <3>2. QED
            BY <1>6, <1>9, <3>1
    <2>4. QED
        BY <1>9, <2>2, <2>3
<1> HIDE DEF d, l
<1>11. /\ e \in Seq(Event) /\ Len(e) = 1 + n + l
       /\ \A i \in 1..1 + n + l : e[i] = IF i <= 1 + n THEN d[i] ELSE c[i - (1 + n)]
    <2>1. /\ d \o c \in Seq(Event) /\ Len(d \o c) = Len(d) + Len(c)
          /\ \A i \in 1..Len(d) + Len(c) :
                (d \o c)[i] = IF i <= Len(d) THEN d[i] ELSE c[i - Len(d)]
        BY <1>7, <1>10, ConcatProperties
    <2>2. QED
        BY <1>7, <1>10, <2>1
<1> HIDE DEF e
<1>12. e[1] = first /\ \A i \in 1..n : e[i + 1] = more
    <2>1. 1 \in 1..1 + n + l /\ 1 <= 1 + n
        BY <1>8
    <2>2. ASSUME NEW i \in 1..n PROVE e[i + 1] = more
        <3>1. i + 1 \in 1..1 + n + l /\ i + 1 <= 1 + n
            BY <1>8
        <3>2. QED
            BY <1>10, <1>11, <3>1
    <2>3. QED
        BY <1>10, <1>11, <2>1, <2>2
<1>13. x.closed => e[n + 2] = last
    <2>1. SUFFICES ASSUME x.closed PROVE e[n + 2] = last
        OBVIOUS
    <2>2. l = 1
        BY <2>1 DEF l
    <2>3. n + 2 \in 1..1 + n + l /\ ~(n + 2 <= 1 + n) /\ (n + 2) - (1 + n) = 1
        BY <1>8, <2>2
    <2>4. QED
        BY <1>7, <1>11, <2>1, <2>3
<1>14. EventsOf(x) = e /\ Len(e) = n + 1 + l
    BY <1>4, <1>8, <1>11 DEF e, d
<1>15. QED
    BY <1>11, <1>12, <1>13, <1>14 DEF first, more, last, n, l

\* Changing the last entry, when it is the only one of its flow.
LEMMA UpdateLast ==
    ASSUME NEW s \in Seq(Item), NEW x \in Item, ~Has(s, x.flow)
    PROVE  /\ Upsert(s, x) = Append(s, x)
           /\ Update(Append(s, x), x.flow, More) = Append(s, More(x))
           /\ Update(Append(s, x), x.flow, Shut) = Append(s, Shut(x))
<1>1. \A i \in 1..Len(s) : s[i].flow # x.flow
    BY DEF Has
<1> DEFINE t == Append(s, x)
           n == Len(s) + 1
<1>2. t \in Seq(Item) /\ Len(t) = n /\ (\A i \in 1..Len(s) : t[i] = s[i]) /\ t[n] = x
    BY AppendProperties
<1>3. Len(s) \in Nat /\ More(x) \in Item /\ Shut(x) \in Item
    BY LenProperties, ItemFacts
<1> HIDE DEF t, n
<1>4. ASSUME NEW y \in Item, NEW u, u = [i \in 1..Len(t) |-> IF t[i].flow = x.flow THEN y ELSE t[i]]
      PROVE  u = Append(s, y)
    <2> DEFINE v == Append(s, y)
    <2>1. v \in Seq(Item) /\ Len(v) = n /\ (\A i \in 1..Len(s) : v[i] = s[i]) /\ v[n] = y
        BY AppendProperties DEF n
    <2> HIDE DEF v
    <2>2. \A i \in 1..n : i \in 1..Len(s) \/ i = n
        BY <1>3 DEF n
    <2>3. \A i \in 1..n : (IF t[i].flow = x.flow THEN y ELSE t[i]) = v[i]
        BY <1>1, <1>2, <2>1, <2>2
    <2>4. v = [i \in 1..n |-> v[i]]
        BY <2>1
    <2>5. QED
        BY <1>2, <1>4, <2>3, <2>4 DEF v
<1>5. Update(t, x.flow, More) = [i \in 1..Len(t) |-> IF t[i].flow = x.flow THEN More(x) ELSE t[i]]
    <2>1. \A i \in 1..Len(t) : t[i].flow = x.flow => t[i] = x
        BY <1>1, <1>2, <1>3 DEF n
    <2>2. QED
        BY <2>1 DEF Update
<1>6. Update(t, x.flow, Shut) = [i \in 1..Len(t) |-> IF t[i].flow = x.flow THEN Shut(x) ELSE t[i]]
    <2>1. \A i \in 1..Len(t) : t[i].flow = x.flow => t[i] = x
        BY <1>1, <1>2, <1>3 DEF n
    <2>2. QED
        BY <2>1 DEF Update
<1>7. QED
    BY <1>3, <1>4, <1>5, <1>6 DEF Upsert, t

\* An entry that the session does not have is put at the end of its kind.
LEMMA ReplayEntry ==
    ASSUME NEW rec \in Sessions, NEW x \in Item, x.kind \in Kept, ~Has(rec[x.kind], x.flow)
    PROVE  /\ EventsOf(x) \in Seq(Event)
           /\ Replay(rec, EventsOf(x)) = [rec EXCEPT ![x.kind] = Append(@, x)]
<1> DEFINE k == x.kind
           s == rec[k]
           n == x.n
           l == IF x.closed THEN 1 ELSE 0
           events == EventsOf(x)
           Upto(i) == [flow |-> x.flow, kind |-> k, n |-> i, closed |-> FALSE]
           With(y) == [rec EXCEPT ![k] = Append(s, y)]
           g == [i \in 0..n + 1 + l |->
                   IF i = 0 THEN rec ELSE IF i <= n + 1 THEN With(Upto(i - 1)) ELSE With(x)]
<1>1. /\ n \in Nat /\ l \in Nat /\ x.flow \in Ids /\ k \in Kind /\ k \in Kept /\ s \in Seq(Item)
      /\ x = [flow |-> x.flow, kind |-> k, n |-> n, closed |-> x.closed]
    BY DEF Item, Kept, Sessions
<1>2. /\ events \in Seq(Event) /\ Len(events) = n + 1 + l
      /\ events[1] = Again(x, IF k = "http" THEN "complete" ELSE "open")
      /\ \A i \in 1..n : events[i + 1] = Again(x, "data")
      /\ x.closed => events[n + 2] = Again(x, "end")
    BY EventsOfFacts
<1>3. \A i \in Nat : /\ Upto(i) \in Item /\ Upto(i).flow = x.flow /\ Upto(i).kind = k
                     /\ More(Upto(i)) = Upto(i + 1)
    <2>1. ASSUME NEW i \in Nat PROVE Upto(i) \in Item /\ Upto(i).flow = x.flow /\ Upto(i).kind = k
        BY <1>1 DEF Item
    <2>2. ASSUME NEW i \in Nat PROVE More(Upto(i)) = Upto(i + 1)
        <3> DEFINE y == Upto(i)
                   z == More(y)
        <3>1. y \in Item /\ y.flow = x.flow /\ y.kind = k /\ y.n = i /\ y.closed = FALSE
            BY <2>1
        <3> HIDE DEF y
        <3>2. z \in Item /\ z.flow = x.flow /\ z.kind = k /\ z.n = i + 1 /\ z.closed = FALSE
            BY <3>1, ItemFacts
        <3> HIDE DEF z
        <3>3. z = [flow |-> z.flow, kind |-> z.kind, n |-> z.n, closed |-> z.closed]
            BY <3>2 DEF Item
        <3>4. QED
            BY <3>2, <3>3 DEF y, z
    <2>3. QED
        BY <2>1, <2>2
<1>4. x.closed => Shut(Upto(n)) = x
    BY <1>1 DEF Shut
<1>5. ~x.closed => Upto(n) = x
    <2>1. x.closed \in BOOLEAN
        BY DEF Item
    <2>2. QED
        BY <1>1, <2>1
<1> HIDE DEF events, n, l, Upto
<1>6. \A y \in Item : y.flow = x.flow =>
         /\ With(y) \in Sessions /\ With(y)[k] = Append(s, y)
         /\ \A u : [With(y) EXCEPT ![k] = u] = [rec EXCEPT ![k] = u]
    BY <1>1, AppendProperties DEF Sessions
<1>7. Record(rec, events[1]) = With(Upto(0))
    <2> DEFINE e == events[1]
    <2>1. e.flow = x.flow /\ e.kind = k /\ e.what = (IF k = "http" THEN "complete" ELSE "open")
        BY <1>2 DEF Again
    <2>2. Entry(e) = Upto(0)
        BY <2>1 DEF Entry, Upto
    <2>3. Upsert(s, Upto(0)) = Append(s, Upto(0))
        BY <1>1, <1>3, UpdateLast
    <2> HIDE DEF e
    <2>4. CASE k = "http"
        <3>1. Record(rec, e) = [rec EXCEPT !["http"] = Upsert(rec["http"], Entry(e))]
            BY <2>1, <2>4 DEF Record
        <3>2. QED
            BY <2>2, <2>3, <2>4, <3>1 DEF e
    <2>5. CASE k # "http"
        <3>1. \/ Record(rec, e) = [rec EXCEPT ![k] = Upsert(s, Entry(e))]
              \/ Record(rec, e) = [rec EXCEPT ![k] = Append(s, Entry(e))]
            BY <2>1, <2>5 DEF Record
        <3>2. QED
            BY <2>2, <2>3, <3>1 DEF e
    <2>6. QED
        BY <2>4, <2>5
<1>8. ASSUME NEW i \in 1..n PROVE Record(With(Upto(i - 1)), events[i + 1]) = With(Upto(i))
    <2> DEFINE e == events[i + 1]
               y == Upto(i - 1)
               w == With(y)
    <2>1. e.flow = x.flow /\ e.kind = k /\ e.what = "data"
        BY <1>2 DEF Again
    <2>2. y \in Item /\ y.flow = x.flow /\ More(y) = Upto(i)
        <3>1. i - 1 \in Nat /\ (i - 1) + 1 = i
            BY <1>1
        <3>2. QED
            BY <1>3, <3>1
    <2>3. w[k] = Append(s, y) /\ \A u : [w EXCEPT ![k] = u] = [rec EXCEPT ![k] = u]
        BY <1>6, <2>2
    <2>4. Update(Append(s, y), x.flow, More) = Append(s, Upto(i))
        BY <1>1, <2>2, UpdateLast
    <2> HIDE DEF e, w
    <2>5. Record(w, e) = [w EXCEPT ![k] = Update(w[k], x.flow, More)]
        BY <2>1 DEF Record
    <2>6. QED
        BY <2>3, <2>4, <2>5 DEF e, w
<1>9. ASSUME x.closed PROVE Record(With(Upto(n)), events[n + 2]) = With(x)
    <2> DEFINE e == events[n + 2]
               y == Upto(n)
               w == With(y)
    <2>1. e.flow = x.flow /\ e.kind = k /\ e.what = "end"
        BY <1>2, <1>9 DEF Again
    <2>2. y \in Item /\ y.flow = x.flow /\ Shut(y) = x
        BY <1>1, <1>3, <1>4, <1>9
    <2>3. w[k] = Append(s, y) /\ \A u : [w EXCEPT ![k] = u] = [rec EXCEPT ![k] = u]
        BY <1>6, <2>2
    <2>4. Update(Append(s, y), x.flow, Shut) = Append(s, x)
        BY <1>1, <2>2, UpdateLast
    <2> HIDE DEF e, w
    <2>5. Record(w, e) = [w EXCEPT ![k] = Update(w[k], x.flow, Shut)]
        BY <2>1 DEF Record
    <2>6. QED
        BY <2>3, <2>4, <2>5 DEF e, w
<1>10. With(x) \in Sessions /\ \A i \in Nat : With(Upto(i)) \in Sessions
    BY <1>3, <1>6
<1> HIDE DEF With, s
<1>11. /\ g \in [0..n + 1 + l -> Sessions]
       /\ \A i \in 0..n + 1 + l :
             g[i] = IF i = 0 THEN rec ELSE IF i <= n + 1 THEN With(Upto(i - 1)) ELSE With(x)
    BY <1>1, <1>10
<1> HIDE DEF g
<1>12. ASSUME NEW i \in 1..n + 1 + l PROVE g[i] = Record(g[i - 1], events[i])
    <2>1. i \in 0..n + 1 + l /\ i - 1 \in 0..n + 1 + l /\ i # 0
        BY <1>1
    <2>2. CASE i = 1
        <3>1. g[i] = With(Upto(0)) /\ g[i - 1] = rec
            BY <1>1, <1>11, <2>1, <2>2
        <3>2. QED
            BY <1>7, <2>2, <3>1
    <2>3. CASE i # 1 /\ i <= n + 1
        <3> DEFINE j == i - 1
        <3>1. j \in 1..n /\ i = j + 1 /\ j <= n + 1 /\ j # 0
            BY <1>1, <2>3
        <3>2. g[i] = With(Upto(j)) /\ g[i - 1] = With(Upto(j - 1))
            BY <1>11, <2>1, <2>3, <3>1
        <3> HIDE DEF j
        <3>3. QED
            BY <1>8, <3>1, <3>2
    <2>4. CASE ~(i <= n + 1)
        <3>1. l = 1 /\ i = n + 2 /\ i - 1 = n + 1 /\ (i - 1) - 1 = n /\ i - 1 # 0
            BY <1>1, <2>4 DEF l
        <3>2. x.closed
            BY <3>1 DEF l
        <3>3. g[i] = With(x)
            BY <1>11, <2>1, <2>4
        <3>4. g[i - 1] = With(Upto(n))
            BY <1>1, <1>11, <2>1, <3>1
        <3>5. QED
            BY <1>9, <3>1, <3>2, <3>3, <3>4
    <2>5. QED
        BY <2>2, <2>3, <2>4
<1>13. g[0] = rec
    BY <1>1, <1>11
<1>14. Replay(rec, events) = g[n + 1 + l]
    <2>1. IsReplay(g, rec, events)
        BY <1>2, <1>11, <1>12, <1>13 DEF IsReplay
    <2>2. QED
        BY <1>2, <2>1, ReplayIs
<1>15. g[n + 1 + l] = With(x)
    <2>1. n + 1 + l \in 0..n + 1 + l /\ n + 1 + l # 0
        BY <1>1
    <2>2. CASE x.closed
        <3>1. l = 1 /\ ~(n + 1 + l <= n + 1)
            BY <1>1, <2>2 DEF l
        <3>2. QED
            BY <1>11, <2>1, <3>1
    <2>3. CASE ~x.closed
        <3>1. l = 0 /\ n + 1 + l <= n + 1 /\ (n + 1 + l) - 1 = n
            BY <1>1, <2>3 DEF l
        <3>2. QED
            BY <1>5, <1>11, <2>1, <2>3, <3>1
    <2>4. QED
        BY <2>2, <2>3
<1>16. QED
    BY <1>2, <1>14, <1>15 DEF events, With, s

\* The entries of a kind are of that kind, and of one flow each.
EntriesOk(s, k) ==
    \A i \in 1..Len(s) :
        s[i].kind = k /\ \A j \in 1..Len(s) : s[j].flow = s[i].flow => i = j

\* The events of a list of entries, as SessionEvents has them.
EventsOfAll(q) == FlattenSeq([i \in 1..Len(q) |-> EventsOf(q[i])])

\* A list of entries fills the kind that was empty.
LEMMA ReplayKind ==
    ASSUME NEW rec \in Sessions, NEW k \in Kept, rec[k] = <<>>,
           NEW q \in Seq(Item), EntriesOk(q, k)
    PROVE  /\ EventsOfAll(q) \in Seq(Event)
           /\ Replay(rec, EventsOfAll(q)) = [rec EXCEPT ![k] = q]
<1> DEFINE p == [i \in 1..Len(q) |-> EventsOf(q[i])]
           With(u) == [rec EXCEPT ![k] = u]
<1>1. /\ Len(q) \in Nat /\ \A i \in 1..Len(q) : q[i] \in Item /\ q[i].kind = k
      /\ \A i, j \in 1..Len(q) : q[j].flow = q[i].flow => i = j
    BY LenProperties, ElementOfSeq DEF EntriesOk
<1>2. \A i \in 1..Len(q) : EventsOf(q[i]) \in Seq(Event)
    BY <1>1, EventsOfFacts
<1>3. p \in Seq(Seq(Event)) /\ Len(p) = Len(q) /\ \A i \in 1..Len(q) : p[i] = EventsOf(q[i])
    BY <1>1, <1>2
<1>4. EventsOfAll(q) = FlattenSeq(p)
    BY DEF EventsOfAll
<1> HIDE DEF p
<1>5. \A u \in Seq(Item) :
         /\ With(u) \in Sessions /\ With(u)[k] = u
         /\ \A v : [With(u) EXCEPT ![k] = v] = With(v)
    BY DEF Sessions
<1>6. CASE q = <<>>
    <2>1. Len(p) = 0 /\ p = <<>>
        BY <1>3, <1>6, EmptySeq
    <2>2. FlattenSeq(p) = <<>>
        BY <2>1 DEF FlattenSeq
    <2>3. With(q) = rec
        BY <1>6 DEF Sessions
    <2>4. <<>> \in Seq(Event)
        BY EmptySeq
    <2>5. Replay(rec, <<>>) = rec
        BY <2>4, ReplayConcat
    <2>6. QED
        BY <1>4, <2>2, <2>3, <2>4, <2>5
<1>7. CASE q # <<>>
    <2> DEFINE m == Len(q)
    <2>1. m \in Nat \ {0} /\ p # <<>>
        BY <1>1, <1>3, <1>7, EmptySeq
    <2>2. PICK f \in [1..Len(p) -> Seq(Event)] :
             /\ f[1] = p[1] /\ \A i \in 1..Len(p) - 1 : f[i + 1] = f[i] \o p[i + 1]
             /\ FlattenSeq(p) = f[Len(p)]
        BY <1>3, <2>1, Flattening
    <2>3. /\ f[1] = p[1] /\ (\A i \in 1..m - 1 : f[i + 1] = f[i] \o p[i + 1])
          /\ FlattenSeq(p) = f[m] /\ \A i \in 1..m : f[i] \in Seq(Event)
        BY <1>3, <2>2
    <2> DEFINE Prefix(i) == SubSeq(q, 1, i)
    <2>4. ASSUME NEW i \in 1..m
          PROVE  /\ Prefix(i) \in Seq(Item) /\ Len(Prefix(i)) = i
                 /\ \A j \in 1..i : Prefix(i)[j] = q[j]
        <3>1. /\ SubSeq(q, 1, i) \in Seq(Item)
              /\ Len(SubSeq(q, 1, i)) = IF 1 <= i THEN i - 1 + 1 ELSE 0
              /\ \A j \in 1..i - 1 + 1 : SubSeq(q, 1, i)[j] = q[1 + j - 1]
            <4>1. \A j \in 1..i : q[j] \in Item
                BY <1>1
            <4>2. QED
                BY <4>1, SubSeqProperties
        <3>2. i - 1 + 1 = i /\ 1 <= i /\ \A j \in 1..i : 1 + j - 1 = j
            OBVIOUS
        <3>3. QED
            BY <3>1, <3>2
    <2>5. ASSUME NEW i \in 1..m - 1 PROVE Append(Prefix(i), q[i + 1]) = Prefix(i + 1)
        <3>1. i \in 1..m /\ i + 1 \in 1..m /\ q[i + 1] \in Item
            BY <1>1, <2>1
        <3> DEFINE a == Append(Prefix(i), q[i + 1])
                   b == Prefix(i + 1)
        <3>2. /\ a \in Seq(Item) /\ Len(a) = i + 1 /\ a[i + 1] = q[i + 1]
              /\ \A j \in 1..i : a[j] = q[j]
            <4> DEFINE c == Prefix(i)
            <4>1. c \in Seq(Item) /\ Len(c) = i /\ \A j \in 1..i : c[j] = q[j]
                BY <2>4, <3>1
            <4> HIDE DEF c
            <4>2. /\ Append(c, q[i + 1]) \in Seq(Item) /\ Len(Append(c, q[i + 1])) = i + 1
                  /\ Append(c, q[i + 1])[i + 1] = q[i + 1]
                  /\ \A j \in 1..i : Append(c, q[i + 1])[j] = c[j]
                BY <3>1, <4>1, AppendProperties
            <4>3. QED
                BY <4>1, <4>2 DEF c
        <3>3. b \in Seq(Item) /\ Len(b) = i + 1 /\ \A j \in 1..i + 1 : b[j] = q[j]
            BY <2>4, <3>1
        <3> HIDE DEF a, b
        <3>4. \A j \in 1..Len(a) : a[j] = b[j]
            BY <3>2, <3>3
        <3>5. a = b
            BY <3>2, <3>3, <3>4, SeqEqual
        <3>6. QED
            BY <3>5 DEF a, b
    <2>6. ASSUME NEW r \in Sessions, NEW i \in 1..m, \A j \in 1..Len(r[k]) : r[k][j].flow # q[i].flow
          PROVE  Replay(r, p[i]) = [r EXCEPT ![k] = Append(r[k], q[i])]
        <3> DEFINE x == q[i]
        <3>1. x \in Item /\ x.kind = k /\ ~Has(r[x.kind], x.flow) /\ p[i] = EventsOf(x)
            BY <1>1, <1>3, <2>6 DEF Has
        <3> HIDE DEF x
        <3>2. Replay(r, EventsOf(x)) = [r EXCEPT ![x.kind] = Append(@, x)]
            BY <3>1, ReplayEntry
        <3>3. QED
            BY <3>1, <3>2 DEF x
    <2> HIDE DEF m, With
    <2> DEFINE Good == {j \in Nat : j + 1 <= m => Replay(rec, f[j + 1]) = With(Prefix(j + 1))}
    <2>7. 0 \in Good
        <3>1. 1 \in 1..m /\ \A j \in 1..Len(rec[k]) : FALSE
            BY <2>1
        <3>2. Replay(rec, p[1]) = [rec EXCEPT ![k] = Append(rec[k], q[1])]
            BY <2>6, <3>1
        <3>3. Append(rec[k], q[1]) = Prefix(1)
            <4> DEFINE a == Append(rec[k], q[1])
                       b == Prefix(1)
            <4>1. rec[k] \in Seq(Item) /\ Len(rec[k]) = 0 /\ q[1] \in Item
                BY <1>1, <3>1 DEF Sessions, m
            <4>2. a \in Seq(Item) /\ Len(a) = 1 /\ a[1] = q[1]
                <5>1. /\ a \in Seq(Item) /\ Len(a) = Len(rec[k]) + 1
                      /\ a[Len(rec[k]) + 1] = q[1]
                    BY <4>1, AppendProperties
                <5>2. QED
                    BY <4>1, <5>1
            <4>3. b \in Seq(Item) /\ Len(b) = 1 /\ b[1] = q[1]
                BY <2>4, <3>1
            <4> HIDE DEF a, b
            <4>4. \A j \in 1..Len(a) : a[j] = b[j]
                BY <4>2, <4>3
            <4>5. a = b
                BY <4>2, <4>3, <4>4, SeqEqual
            <4>6. QED
                BY <4>5 DEF a, b
        <3> HIDE DEF Prefix
        <3>4. With(Prefix(1)) = [rec EXCEPT ![k] = Append(rec[k], q[1])]
            BY <3>3 DEF With
        <3>5. Replay(rec, f[1]) = With(Prefix(1)) /\ 0 + 1 = 1
            BY <2>3, <3>2, <3>4
        <3>6. QED
            BY <3>5
    <2>8. ASSUME NEW j \in Nat, j \in Good PROVE j + 1 \in Good
        <3>1. SUFFICES ASSUME j + 1 + 1 <= m PROVE Replay(rec, f[j + 1 + 1]) = With(Prefix(j + 1 + 1))
            OBVIOUS
        <3> DEFINE i == j + 1
        <3>2. i \in 1..m - 1 /\ i \in 1..m /\ i + 1 \in 1..m
            BY <2>1, <3>1
        <3>3. Replay(rec, f[i]) = With(Prefix(i))
            BY <2>8, <3>1, <2>1
        <3>4. f[i + 1] = f[i] \o p[i + 1] /\ f[i] \in Seq(Event) /\ p[i + 1] \in Seq(Event)
            BY <1>2, <1>3, <2>3, <3>2 DEF m
        <3>5. Replay(rec, f[i + 1]) = Replay(With(Prefix(i)), p[i + 1])
            BY <3>3, <3>4, ReplayConcat
        <3> DEFINE r == With(Prefix(i))
        <3>6. r \in Sessions /\ r[k] = Prefix(i) /\ \A v : [r EXCEPT ![k] = v] = With(v)
            BY <1>5, <2>4, <3>2
        <3>7. \A h \in 1..Len(r[k]) : r[k][h].flow # q[i + 1].flow
            <4>1. Len(r[k]) = i /\ \A h \in 1..i : r[k][h] = q[h]
                BY <2>4, <3>2, <3>6
            <4>2. \A h \in 1..i : h \in 1..Len(q) /\ i + 1 \in 1..Len(q) /\ h # i + 1
                BY <2>1, <3>2 DEF m
            <4>3. QED
                BY <1>1, <4>1, <4>2
        <3> HIDE DEF r, i, Prefix
        <3>8. Replay(r, p[i + 1]) = [r EXCEPT ![k] = Append(r[k], q[i + 1])]
            BY <2>6, <3>2, <3>6, <3>7
        <3>9. Replay(r, p[i + 1]) = With(Prefix(i + 1))
            BY <2>5, <3>2, <3>6, <3>8
        <3>10. QED
            BY <3>5, <3>9 DEF r, i
    <2>9. Nat \subseteq Good
        <3> HIDE DEF Good
        <3>1. QED
            BY <2>7, <2>8, Induction
    <2>10. Replay(rec, f[m]) = With(Prefix(m))
        <3>1. m - 1 \in Nat /\ (m - 1) + 1 = m /\ m <= m
            BY <2>1
        <3>2. m - 1 \in Good
            <4> HIDE DEF Good
            <4>1. QED
                BY <2>9, <3>1
        <3> HIDE DEF Prefix
        <3>3. QED
            BY <3>1, <3>2
    <2>11. Prefix(m) = q
        BY SubSeqFull DEF m
    <2>12. f[m] \in Seq(Event)
        BY <2>1, <2>3
    <2>13. QED
        BY <1>4, <2>3, <2>10, <2>11, <2>12 DEF With
<1>8. QED
    BY <1>6, <1>7

\* A session whose entries are in order is what its events make of an empty one.
LEMMA ReplaySession ==
    ASSUME NEW rec \in Sessions, \A k \in Kept : EntriesOk(rec[k], k)
    PROVE  Replay(Empty, SessionEvents(rec)) = rec
<1> DEFINE E(k) == EventsOfAll(rec[k])
           Fill(r, k) == [r EXCEPT ![k] = rec[k]]
<1>1. /\ Kept = {"http", "ws", "tcp", "dns", "udp"}
      /\ Empty \in Sessions /\ \A k \in Kept : Empty[k] = <<>>
    BY EmptySeq DEF Kept, Kind, Empty, Sessions
<1>2. SessionEvents(rec) = (((E("http") \o E("ws")) \o E("tcp")) \o E("dns")) \o E("udp")
    BY DEF SessionEvents, EventsOfAll
<1>3. ASSUME NEW r \in Sessions, NEW k \in Kept, r[k] = <<>>
      PROVE  /\ E(k) \in Seq(Event) /\ Replay(r, E(k)) = Fill(r, k)
             /\ Fill(r, k) \in Sessions /\ Fill(r, k)[k] = rec[k]
             /\ \A j \in Kept \ {k} : Fill(r, k)[j] = r[j]
    <2>1. rec[k] \in Seq(Item)
        BY DEF Sessions
    <2>2. E(k) \in Seq(Event) /\ Replay(r, E(k)) = Fill(r, k)
        BY <1>3, <2>1, ReplayKind
    <2>3. QED
        BY <2>1, <2>2 DEF Sessions
<1> HIDE DEF E, Fill
<1>4. ASSUME NEW a \in Seq(Event), NEW r \in Sessions, Replay(Empty, a) = r,
             NEW k \in Kept, r[k] = <<>>
      PROVE  /\ a \o E(k) \in Seq(Event) /\ Replay(Empty, a \o E(k)) = Fill(r, k)
             /\ Fill(r, k) \in Sessions /\ Fill(r, k)[k] = rec[k]
             /\ \A j \in Kept \ {k} : Fill(r, k)[j] = r[j]
    <2>1. /\ E(k) \in Seq(Event) /\ Replay(r, E(k)) = Fill(r, k)
          /\ Fill(r, k) \in Sessions /\ Fill(r, k)[k] = rec[k]
          /\ \A j \in Kept \ {k} : Fill(r, k)[j] = r[j]
        BY <1>3, <1>4
    <2>2. a \o E(k) \in Seq(Event) /\ Replay(Empty, a \o E(k)) = Replay(r, E(k))
        BY <1>1, <1>4, <2>1, ReplayConcat, ConcatProperties
    <2>3. QED
        BY <2>1, <2>2
<1> DEFINE r1 == Fill(Empty, "http")
           r2 == Fill(r1, "ws")
           r3 == Fill(r2, "tcp")
           r4 == Fill(r3, "dns")
           r5 == Fill(r4, "udp")
           e1 == E("http")
           e2 == e1 \o E("ws")
           e3 == e2 \o E("tcp")
           e4 == e3 \o E("dns")
           e5 == e4 \o E("udp")
<1>5. /\ e1 \in Seq(Event) /\ Replay(Empty, e1) = r1 /\ r1 \in Sessions
      /\ r1["http"] = rec["http"] /\ \A j \in Kept \ {"http"} : r1[j] = <<>>
    BY <1>1, <1>3
<1> HIDE DEF r1, e1
<1>6. /\ e2 \in Seq(Event) /\ Replay(Empty, e2) = r2 /\ r2 \in Sessions
      /\ r2["ws"] = rec["ws"] /\ \A j \in Kept \ {"ws"} : r2[j] = r1[j]
    BY <1>1, <1>4, <1>5
<1> HIDE DEF r2, e2
<1>7. /\ e3 \in Seq(Event) /\ Replay(Empty, e3) = r3 /\ r3 \in Sessions
      /\ r3["tcp"] = rec["tcp"] /\ \A j \in Kept \ {"tcp"} : r3[j] = r2[j]
    BY <1>1, <1>4, <1>5, <1>6
<1> HIDE DEF r3, e3
<1>8. /\ e4 \in Seq(Event) /\ Replay(Empty, e4) = r4 /\ r4 \in Sessions
      /\ r4["dns"] = rec["dns"] /\ \A j \in Kept \ {"dns"} : r4[j] = r3[j]
    BY <1>1, <1>4, <1>5, <1>6, <1>7
<1> HIDE DEF r4, e4
<1>9. /\ e5 \in Seq(Event) /\ Replay(Empty, e5) = r5 /\ r5 \in Sessions
      /\ r5["udp"] = rec["udp"] /\ \A j \in Kept \ {"udp"} : r5[j] = r4[j]
    BY <1>1, <1>4, <1>5, <1>6, <1>7, <1>8
<1>10. SessionEvents(rec) = e5
    BY <1>2 DEF e4, e3, e2, e1
<1> HIDE DEF r5, e5
<1>11. \A k \in Kept : r5[k] = rec[k]
    BY <1>1, <1>5, <1>6, <1>7, <1>8, <1>9
<1>12. r5 = rec
    BY <1>9, <1>11 DEF Sessions
<1>13. QED
    BY <1>9, <1>10, <1>12

-----------------------------------------------------------------------------
(* The recorder keeps such a session.                                        *)

\* What the flow still sends comes after its beginning.
Past(f, s) == \A i \in 1..Len(s) : s[i].flow = f => Rank(s[i].what) > 2

\* A TCP tunnel or a DNS query is added without looking: it begins once, and an
\* event that would begin it again is neither on its way nor still to be emitted.
BegunAt(f, k, d, c, at, todo) ==
    LevelAt(f, k, d) >= 2 /\ Past(f, c) /\ (at = "record" => Past(f, todo))

SessionInv ==
    /\ \A k \in Kept : EntriesOk(recorder[k], k)
    /\ \A k \in {"tcp", "dns"} : \A i \in 1..Len(recorder[k]) :
          BegunAt(recorder[k][i].flow, kind, done, core, fan.at, fan.todo)

\* The entries of a kind when one of them changes and when one is added.
LEMMA EntriesStay ==
    ASSUME NEW k \in Kept, NEW s \in Seq(Item), EntriesOk(s, k), NEW f,
           NEW x \in Item, x.kind = k
    PROVE  /\ EntriesOk(<<>>, k)
           /\ EntriesOk(Update(s, f, More), k) /\ EntriesOk(Update(s, f, Shut), k)
           /\ EntriesOk(Upsert(s, x), k)
           /\ ~Has(s, x.flow) => EntriesOk(Append(s, x), k)
<1>1. /\ Len(s) \in Nat
      /\ \A i \in 1..Len(s) : s[i] \in Item /\ s[i].kind = k
      /\ \A i, j \in 1..Len(s) : s[j].flow = s[i].flow => i = j
    BY LenProperties, ElementOfSeq DEF EntriesOk
<1>2. ASSUME NEW t \in Seq(Item), Len(t) = Len(s),
             \A i \in 1..Len(s) : t[i].flow = s[i].flow /\ t[i].kind = k
      PROVE  EntriesOk(t, k)
    BY <1>1, <1>2 DEF EntriesOk
<1>3. EntriesOk(Update(s, f, More), k)
    <2> DEFINE t == Update(s, f, More)
    <2>1. t \in Seq(Item) /\ Len(t) = Len(s)
        BY UpdateFacts
    <2>2. \A i \in 1..Len(s) : t[i] = IF s[i].flow = f THEN More(s[i]) ELSE s[i]
        BY DEF Update
    <2> HIDE DEF t
    <2>3. ASSUME NEW i \in 1..Len(s) PROVE t[i].flow = s[i].flow /\ t[i].kind = k
        <3> DEFINE y == More(s[i])
        <3>1. y.flow = s[i].flow /\ y.kind = s[i].kind /\ s[i].kind = k
            BY <1>1, ItemFacts
        <3>2. t[i] = y \/ t[i] = s[i]
            BY <2>2
        <3> HIDE DEF y
        <3>3. QED
            BY <3>1, <3>2
    <2>4. QED
        BY <1>2, <2>1, <2>3 DEF t
<1>4. EntriesOk(Update(s, f, Shut), k)
    <2> DEFINE t == Update(s, f, Shut)
    <2>1. t \in Seq(Item) /\ Len(t) = Len(s)
        BY UpdateFacts
    <2>2. \A i \in 1..Len(s) : t[i] = IF s[i].flow = f THEN Shut(s[i]) ELSE s[i]
        BY DEF Update
    <2> HIDE DEF t
    <2>3. ASSUME NEW i \in 1..Len(s) PROVE t[i].flow = s[i].flow /\ t[i].kind = k
        <3> DEFINE y == Shut(s[i])
        <3>1. y.flow = s[i].flow /\ y.kind = s[i].kind /\ s[i].kind = k
            BY <1>1, ItemFacts
        <3>2. t[i] = y \/ t[i] = s[i]
            BY <2>2
        <3> HIDE DEF y
        <3>3. QED
            BY <3>1, <3>2
    <2>4. QED
        BY <1>2, <2>1, <2>3 DEF t
<1>5. ASSUME ~Has(s, x.flow) PROVE EntriesOk(Append(s, x), k)
    <2> DEFINE t == Append(s, x)
               n == Len(s) + 1
    <2>1. /\ t \in Seq(Item) /\ Len(t) = n /\ t[n] = x
          /\ \A i \in 1..Len(s) : t[i] = s[i]
        BY AppendProperties
    <2>2. \A i \in 1..Len(s) : s[i].flow # x.flow
        BY <1>5 DEF Has
    <2>3. \A i \in 1..n : i \in 1..Len(s) \/ i = n
        BY <1>1
    <2> HIDE DEF t, n
    <2>4. \A i \in 1..Len(t) : t[i].kind = k
        BY <1>1, <2>1, <2>3
    <2>5. \A i, j \in 1..Len(t) : t[j].flow = t[i].flow => i = j
        BY <1>1, <2>1, <2>2, <2>3
    <2>6. QED
        BY <2>4, <2>5 DEF EntriesOk, t
<1>6. EntriesOk(Upsert(s, x), k)
    <2>1. CASE Has(s, x.flow)
        <3> DEFINE t == [i \in 1..Len(s) |-> IF s[i].flow = x.flow THEN x ELSE s[i]]
        <3>1. t \in Seq(Item) /\ Len(t) = Len(s) /\ Upsert(s, x) = t
            BY <1>1, <2>1 DEF Upsert
        <3>2. \A i \in 1..Len(s) : t[i].flow = s[i].flow /\ t[i].kind = k
            BY <1>1
        <3> HIDE DEF t
        <3>3. QED
            BY <1>2, <3>1, <3>2
    <2>2. CASE ~Has(s, x.flow)
        BY <1>5, <2>2 DEF Upsert
    <2>3. QED
        BY <2>1, <2>2
<1>7. EntriesOk(<<>>, k)
    BY EmptySeq DEF EntriesOk
<1>8. QED
    BY <1>3, <1>4, <1>5, <1>6, <1>7

\* Recording an event keeps the entries of every kind in order, when a tunnel
\* or a query that begins is not there yet.
LEMMA RecordedOk ==
    ASSUME NEW rec \in Sessions, \A k \in Kept : EntriesOk(rec[k], k),
           NEW e \in Event, Suits(e.what, e.kind),
           e.what = "open" /\ e.kind \in {"tcp", "dns"} => ~Has(rec[e.kind], e.flow)
    PROVE  \A k \in Kept : EntriesOk(Record(rec, e)[k], k)
<1> DEFINE x == Entry(e)
           c == e.kind
           s == rec[c]
           r == Record(rec, e)[c]
<1>1. x \in Item /\ x.flow = e.flow /\ x.kind = c /\ e.what \in What /\ c \in Kind
    BY NewItem DEF Entry, Event
<1>2. SUFFICES ASSUME c \in Kept, Record(rec, e) # rec PROVE EntriesOk(r, c)
    <2>1. rec \in [Kept -> Seq(Item)]
        BY DEF Sessions
    <2>2. CASE c \in Kept /\ Record(rec, e) # rec
        BY <2>1, <2>2, <1>2, RecordFacts
    <2>3. CASE ~(c \in Kept /\ Record(rec, e) # rec)
        BY <1>1, <2>1, <2>3, RecordFacts DEF What
    <2>4. QED
        BY <2>2, <2>3
<1>3. s \in Seq(Item) /\ EntriesOk(s, c) /\ rec \in [Kept -> Seq(Item)]
    BY <1>2 DEF Sessions
<1>4. /\ EntriesOk(Upsert(s, x), c)
      /\ EntriesOk(Update(s, e.flow, More), c) /\ EntriesOk(Update(s, e.flow, Shut), c)
      /\ ~Has(s, e.flow) => EntriesOk(Append(s, x), c)
    BY <1>1, <1>2, <1>3, EntriesStay
<1>5. CASE e.what \in {"intercepted", "error"}
    BY <1>2, <1>3, <1>5, RecordFacts
<1>6. CASE e.what = "complete"
    <2>1. c = "http"
        BY <1>6 DEF Suits
    <2>2. Record(rec, e) = [rec EXCEPT ![c] = Upsert(s, x)]
        BY <1>6, <2>1 DEF Record
    <2>3. QED
        BY <1>2, <1>3, <1>4, <2>2
<1>7. CASE e.what = "open"
    <2>1. CASE c \in {"ws", "udp"}
        <3>1. Record(rec, e) = [rec EXCEPT ![c] = Upsert(s, x)]
            BY <1>7, <2>1 DEF Record
        <3>2. QED
            BY <1>2, <1>3, <1>4, <3>1
    <2>2. CASE c \notin {"ws", "udp"}
        <3>1. c \in {"tcp", "dns"}
            BY <1>1, <1>7, <2>2 DEF Suits, Kind
        <3>2. Record(rec, e) = [rec EXCEPT ![c] = Append(s, x)]
            BY <1>7, <2>2 DEF Record
        <3>3. QED
            BY <1>2, <1>3, <1>4, <1>7, <3>1, <3>2
    <2>3. QED
        BY <2>1, <2>2
<1>8. CASE e.what = "data"
    BY <1>3, <1>4, <1>8, RecordFacts
<1>9. CASE e.what = "end"
    BY <1>3, <1>4, <1>9, RecordFacts
<1>10. QED
    BY <1>1, <1>5, <1>6, <1>7, <1>8, <1>9 DEF What

\* The flows that have entries of a kind: recording adds that of the event only.
LEMMA RecordedFlows ==
    ASSUME NEW rec \in Sessions, NEW e \in Event, Suits(e.what, e.kind),
           NEW k \in {"tcp", "dns"}, NEW i \in 1..Len(Record(rec, e)[k])
    PROVE  LET f == Record(rec, e)[k][i].flow
           IN \/ \E j \in 1..Len(rec[k]) : rec[k][j].flow = f
              \/ e.what = "open" /\ e.flow = f
<1> DEFINE x == Entry(e)
           s == rec[k]
           r == Record(rec, e)[k]
<1>1. x \in Item /\ x.flow = e.flow /\ e.what \in What /\ k \in Kept /\ k # "http"
    BY NewItem DEF Entry, Event, Kept, Kind
<1>2. rec \in [Kept -> Seq(Item)] /\ s \in Seq(Item)
    BY <1>1 DEF Sessions
<1>3. \A j \in 1..Len(s) : s[j] \in Item
    BY <1>2, ElementOfSeq
<1>4. CASE r = s
    BY <1>4
<1>5. CASE e.kind # k \/ e.what \in {"intercepted", "error"}
    BY <1>1, <1>2, <1>5, RecordFacts
<1>6. CASE e.kind = k /\ e.what \in {"open", "complete"}
    <2>1. e.what = "open"
        BY <1>1, <1>6 DEF Suits
    <2>2. r \in {Upsert(s, x), Append(s, x)}
        BY <1>2, <1>6, RecordFacts
    <2> HIDE DEF x
    <2>3. (i \in 1..Len(s) /\ r[i] = s[i]) \/ r[i] = x
        <3>1. CASE r = Upsert(s, x)
            <4> DEFINE u == Upsert(s, x)
            <4>1. /\ \A j \in 1..Len(s) : u[j] = IF s[j].flow = x.flow THEN x ELSE s[j]
                  /\ \A j \in 1..Len(u) : j \notin 1..Len(s) => u[j] = x
                BY <1>1, <1>2, UpsertFacts
            <4> HIDE DEF u
            <4>2. r = u
                BY <3>1 DEF u
            <4>3. QED
                BY <4>1, <4>2
        <3>2. CASE r = Append(s, x)
            BY <1>1, <1>2, <3>2, AppendFacts
        <3>3. QED
            BY <2>2, <3>1, <3>2
    <2>4. QED
        BY <1>1, <2>1, <2>3
<1>7. CASE e.kind = k /\ e.what \in {"data", "end"}
    <2> DEFINE t == IF e.what = "data" THEN Update(s, e.flow, More) ELSE Update(s, e.flow, Shut)
    <2>1. r = t
        BY <1>2, <1>7, RecordFacts
    <2>2. Len(t) = Len(s)
        BY <1>2, UpdateFacts
    <2>3. \A j \in 1..Len(s) : t[j] \in {s[j], More(s[j]), Shut(s[j])}
        BY DEF Update
    <2> HIDE DEF t
    <2>4. i \in 1..Len(s) /\ r[i] = t[i]
        BY <2>1, <2>2
    <2>5. t[i].flow = s[i].flow
        <3> DEFINE y == More(s[i])
                   z == Shut(s[i])
        <3>1. y.flow = s[i].flow /\ z.flow = s[i].flow
            BY <1>3, <2>4, ItemFacts
        <3>2. t[i] = s[i] \/ t[i] = y \/ t[i] = z
            BY <2>3, <2>4
        <3> HIDE DEF y, z
        <3>3. QED
            BY <3>1, <3>2
    <2>6. QED
        BY <2>4, <2>5
<1>8. QED
    BY <1>1, <1>5, <1>6, <1>7 DEF What

\* A flow that has begun is not begun again by any step.
LEMMA BegunStays ==
    ASSUME IInv, [Next]_vars, NEW f \in Ids, BegunAt(f, kind, done, core, fan.at, fan.todo)
    PROVE  BegunAt(f, kind', done', core', fan'.at, fan'.todo)
<1> USE DEF IInv
<1>1. Level(f) >= 2 /\ Past(f, core) /\ (fan.at = "record" => Past(f, fan.todo))
    BY DEF BegunAt, Level
<1>2. core \in Seq(Event) /\ fan.todo \in Seq(Event)
    BY DEF ChannelTypes
<1>3. LevelAt(f, kind', done') >= 2
    <2>1. Level(f) \in 0..4 /\ Level(f)' \in 0..4
        <3>1. FlowTypes'
            BY FlowTypesStep
        <3>2. Level(f)' \in 0..4
            BY <3>1, LevelAtType DEF Level, FlowTypes
        <3>3. QED
            BY <3>2, LevelType
    <2>2. Level(f)' >= Level(f)
        BY LevelClimbs
    <2>3. Level(f)' >= 2
        BY <1>1, <2>1, <2>2
    <2>4. QED
        BY <2>3 DEF Level
<1>4. Past(f, core')
    <2>1. ASSUME NEW g \in Flow, Emit(g) PROVE Past(f, core')
        <3> DEFINE e == Ev(g, Script(kind[g])[done[g] + 1])
        <3>1. e \in Event /\ e.flow = g /\ Level(g) < Rank(e.what)
            BY <2>1, EmitFacts
        <3>2. core' = core \/ core' = Append(core, e)
            BY <2>1 DEF Emit
        <3>3. e.flow = f => Rank(e.what) > 2
            <4>1. Rank(e.what) \in 1..4 /\ Level(f) \in 0..4
                BY <3>1, RankType, LevelType DEF Event
            <4> HIDE DEF e
            <4>2. QED
                BY <1>1, <3>1, <4>1
        <3> HIDE DEF e
        <3>4. CASE core' = core
            BY <1>1, <3>4
        <3>5. CASE core' = Append(core, e)
            <4>1. /\ Len(core') = Len(core) + 1 /\ core'[Len(core) + 1] = e
                  /\ \A i \in 1..Len(core) : core'[i] = core[i]
                BY <1>2, <3>1, <3>5, AppendProperties
            <4>2. \A i \in 1..Len(core') : i \in 1..Len(core) \/ i = Len(core) + 1
                BY <1>2, <4>1, LenProperties
            <4>3. QED
                BY <1>1, <3>3, <4>1, <4>2 DEF Past
        <3>6. QED
            BY <3>2, <3>4, <3>5
    <2>2. CASE FanReceive
        <3>1. core # <<>> /\ core' = Tail(core)
            BY <2>2 DEF FanReceive
        <3>2. \A i \in 1..Len(core') : i + 1 \in 1..Len(core) /\ core'[i] = core[i + 1]
            BY <1>2, <3>1, TailFacts
        <3>3. QED
            BY <1>1, <3>2 DEF Past
    <2>3. CASE FanRecord
        BY <1>1, <2>3 DEF FanRecord
    <2>4. QED
        BY <1>1, <2>1, <2>2, <2>3, Footprint DEF Touched
<1>5. ASSUME fan'.at = "record" PROVE Past(f, fan'.todo)
    <2>1. CASE UNCHANGED fan
        BY <1>1, <1>5, <2>1
    <2>2. CASE Fanout
        <3>1. core # <<>> /\ fan'.todo = << Head(core) >>
            BY <1>5, <2>2, FanMoves DEF FanIdle
        <3>2. Head(core) = core[1] /\ 1 \in 1..Len(core)
            BY <1>2, <3>1, TailFacts
        <3> DEFINE e == Head(core)
        <3>3. e.flow = f => Rank(e.what) > 2
            BY <1>1, <3>2 DEF Past
        <3> HIDE DEF e
        <3>4. fan'.todo = << e >>
            BY <3>1 DEF e
        <3>5. Len(fan'.todo) = 1 /\ fan'.todo[1] = e
            BY <3>4
        <3>6. QED
            BY <3>3, <3>5 DEF Past
    <2>3. CASE SaveLate
        BY <1>5, <2>3 DEF SaveLate, ChannelTypes
    <2>4. QED
        BY <2>1, <2>2, <2>3, Footprint DEF Touched
<1>6. QED
    BY <1>3, <1>4, <1>5 DEF BegunAt

\* No step disturbs the entries: a tunnel or a query is recorded once.
LEMMA SessionStep ==
    ASSUME IInv, SessionInv, [Next]_vars
    PROVE  SessionInv'
<1>1. /\ recorder \in Sessions /\ FlowTypes /\ ChannelTypes /\ LimitInv /\ FanInv /\ OrderInv
      /\ \A k \in Kept : EntriesOk(recorder[k], k)
    BY DEF IInv, ChannelTypes, SessionInv, Sessions
<1>2. ASSUME NEW k \in {"tcp", "dns"}, NEW i \in 1..Len(recorder[k])
      PROVE  recorder[k][i].flow \in Ids
    <2>1. k \in Kept
        BY DEF Kept, Kind
    <2>2. recorder[k] \in Seq(Item)
        BY <1>1, <2>1 DEF Sessions
    <2>3. recorder[k][i] \in Item
        BY <2>2, ElementOfSeq
    <2>4. QED
        BY <2>3 DEF Item
<1>3. ASSUME NEW k \in {"tcp", "dns"}, NEW i \in 1..Len(recorder[k])
      PROVE  BegunAt(recorder[k][i].flow, kind', done', core', fan'.at, fan'.todo)
    <2>1. BegunAt(recorder[k][i].flow, kind, done, core, fan.at, fan.todo)
        BY DEF SessionInv
    <2>2. QED
        BY <1>2, <2>1, BegunStays
<1>4. CASE UNCHANGED recorder
    BY <1>1, <1>3, <1>4 DEF SessionInv
<1>5. CASE recorder' = Empty
    <2>1. \A k \in Kept : recorder'[k] = <<>>
        BY <1>5 DEF Empty, Kept
    <2>2. \A k \in Kept : EntriesOk(recorder'[k], k)
        BY <2>1, EmptySeq DEF EntriesOk
    <2>3. \A k \in {"tcp", "dns"} : \A i \in 1..Len(recorder'[k]) : FALSE
        BY <2>1, EmptySeq DEF Kept, Kind
    <2>4. QED
        BY <2>2, <2>3 DEF SessionInv
<1>6. CASE FanRecord
    <2> DEFINE e == fan.todo[1]
    <2>1. /\ fan.at = "record" /\ recorder' = Record(recorder, e)
          /\ core' = core /\ fan'.at = "send"
        BY <1>1, <1>6 DEF FanRecord, ChannelTypes
    <2>2. /\ fan.todo \in Seq(Event) /\ Len(fan.todo) = 1 /\ 1 \in 1..Len(fan.todo)
          /\ e \in Event /\ Genuine(e) /\ core \in Seq(Event)
        BY <1>1, <2>1 DEF ChannelTypes, FanInv, OrderInv
    <2>3. Suits(e.what, e.kind) /\ Rank(e.what) <= Level(e.flow) /\ e.flow \in Ids
        BY <2>2 DEF Genuine, GenuineAt, Level, Event
    <2>4. \A i \in 1..Len(core) : Before(e, core[i])
        BY <1>1, <2>2 DEF OrderInv, AllBefore
    <2>5. ASSUME e.what = "open"
          PROVE  BegunAt(e.flow, kind', done', core', fan'.at, fan'.todo)
        <3>1. Rank(e.what) = 2
            BY <2>5 DEF Rank
        <3>2. Level(e.flow) >= 2
            BY <2>3, <3>1
        <3>3. LevelAt(e.flow, kind', done') = Level(e.flow)
            BY <1>6 DEF FanRecord, Level
        <3>4. Past(e.flow, core)
            BY <2>4, <3>1 DEF Past, Before
        <3>5. QED
            BY <2>1, <3>2, <3>3, <3>4 DEF BegunAt
    <2>6. e.what = "open" /\ e.kind \in {"tcp", "dns"} => ~Has(recorder[e.kind], e.flow)
        <3>1. SUFFICES ASSUME e.what = "open", e.kind \in {"tcp", "dns"},
                              NEW i \in 1..Len(recorder[e.kind]), recorder[e.kind][i].flow = e.flow
                       PROVE  FALSE
            BY DEF Has
        <3>2. Past(e.flow, fan.todo)
            BY <2>1, <3>1 DEF SessionInv, BegunAt
        <3>3. Rank(e.what) > 2
            BY <2>2, <3>2 DEF Past
        <3>4. QED
            BY <3>1, <3>3 DEF Rank
    <2> HIDE DEF e
    <2>7. \A k \in Kept : EntriesOk(recorder'[k], k)
        BY <1>1, <2>1, <2>2, <2>3, <2>6, RecordedOk
    <2>8. ASSUME NEW k \in {"tcp", "dns"}, NEW i \in 1..Len(recorder'[k])
          PROVE  BegunAt(recorder'[k][i].flow, kind', done', core', fan'.at, fan'.todo)
        <3> DEFINE f == recorder'[k][i].flow
        <3>1. (\E j \in 1..Len(recorder[k]) : recorder[k][j].flow = f) \/ (e.what = "open" /\ e.flow = f)
            BY <1>1, <2>1, <2>2, <2>3, RecordedFlows
        <3> HIDE DEF f
        <3>2. BegunAt(f, kind', done', core', fan'.at, fan'.todo)
            BY <1>3, <2>5, <3>1
        <3>3. QED
            BY <3>2 DEF f
    <2>9. QED
        BY <2>7, <2>8 DEF SessionInv
<1>7. CASE PageClear
    BY <1>4, <1>5, <1>7 DEF PageClear
<1>8. QED
    BY <1>4, <1>6, <1>7, Footprint DEF Touched

\* The session at the start is the imported request.
LEMMA SessionInit == Init => SessionInv
<1> SUFFICES ASSUME Init PROVE SessionInv
    OBVIOUS
<1> DEFINE x == [flow |-> 0, kind |-> "http", n |-> 0, closed |-> FALSE]
           u == << x >>
<1>1. Len(u) = 1 /\ u[1] = x /\ x.kind = "http"
    OBVIOUS
<1>2. recorder = [Empty EXCEPT !["http"] = u]
    BY DEF Init
<1> HIDE DEF u, x
<1>3. recorder["http"] = u /\ \A k \in Kept \ {"http"} : recorder[k] = <<>>
    BY <1>2 DEF Empty, Kept, Kind
<1>4. EntriesOk(u, "http") /\ \A k \in Kept : EntriesOk(<<>>, k)
    BY <1>1, EmptySeq DEF EntriesOk
<1>5. \A k \in Kept : EntriesOk(recorder[k], k)
    BY <1>3, <1>4
<1>6. \A k \in {"tcp", "dns"} : \A i \in 1..Len(recorder[k]) : FALSE
    BY <1>3, EmptySeq DEF Kept, Kind
<1>7. QED
    BY <1>5, <1>6 DEF SessionInv

\* session_events and SessionRecorder::record are inverse to each other on every
\* session the recorder can hold, whatever order its events arrived in: replaying
\* a loaded session shows what was captured.
THEOREM ReplayRebuildsHolds == Spec => []ReplayRebuilds
<1>1. IInv /\ SessionInv => ReplayRebuilds
    BY ReplaySession DEF IInv, ChannelTypes, SessionInv, Sessions, ReplayRebuilds
<1>2. IInv /\ SessionInv /\ [Next]_vars => SessionInv'
    BY SessionStep
<1>3. QED
    BY <1>1, <1>2, SessionInit, Invariance, PTL DEF Spec
=============================================================================
