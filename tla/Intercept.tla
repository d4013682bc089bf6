------------------------------ MODULE Intercept ------------------------------
(***************************************************************************)
(* Interactive intercept: the shared InterceptConfig (intercept.rs), the   *)
(* handler futures that pause in it (handler.rs) and the UI tasks that     *)
(* decide.  A flow is one request; its identity is the id NEXT_ID gave it. *)
(* Headers, bodies and timestamps are left out: a decision is only its     *)
(* kind.  The specification is PauseSpec, so that this module can be       *)
(* extended together with FlowCapture, the other half of the handler.      *)
(***************************************************************************)
EXTENDS Naturals, Sequences

CONSTANTS
    Flow,      \* requests the proxy handles
    Replay,    \* the flows that enter through handle_replayed_request
    UI,        \* concurrent UI tasks (TUI key handler, web sockets, REST calls)
    EventCap,  \* capacity of the bounded event channel
    Scripted   \* TRUE when a Lua script engine is attached

ASSUME ReplayAssumption   == Replay \subseteq Flow
ASSUME CapAssumption      == EventCap \in Nat \ {0}
ASSUME ScriptedAssumption == Scripted \in BOOLEAN

VARIABLES
    enabled,   \* InterceptConfig.enabled
    pending,   \* keys of InterceptConfig.pending: each owns a oneshot sender
    ui,        \* "idle", or between the atomic flip of enabled and the drain:
               \* "swapped" in set_enabled, "toggled" in toggle
    pc,        \* where the handler future of each flow is
    rx,        \* the oneshot receiver of each flow, as its sender sees it
    queued,    \* events in the event channel
    trail,     \* history: the events each flow has emitted, in order
    verdict    \* history: the decision a send() on the flow's oneshot delivered

pauseVars == <<enabled, pending, ui, pc, rx, queued, trail, verdict>>

Decision == {"Forward", "Modified", "Block"}

\* "collect" awaits the request body, "wait" the decision, "upstream" the
\* exchange with the server; "expired" is the poll of the 300 s timeout that
\* has given up on a receiver it has not dropped yet.
Location == {"idle", "arrived", "collect", "check", "register", "announce",
             "wait", "expired", "upstream", "done", "cancelled"}

Kind == {"Intercepted", "Complete", "WebSocket"}

Trails == {<<>>, <<"Intercepted">>, <<"Complete">>, <<"WebSocket">>,
           <<"Intercepted", "Complete">>, <<"Intercepted", "WebSocket">>}

Announced(f) == trail[f] # <<>> /\ Head(trail[f]) = "Intercepted"

PauseInit ==
    /\ enabled = FALSE
    /\ pending = {}
    /\ ui = [u \in UI |-> "idle"]
    /\ pc = [f \in Flow |-> "idle"]
    /\ rx = [f \in Flow |-> "none"]
    /\ queued = 0
    /\ trail = [f \in Flow |-> <<>>]
    /\ verdict = [f \in Flow |-> "none"]

-----------------------------------------------------------------------------
(* The event channel.                                                      *)

HasRoom == queued < EventCap

\* try_send_event: the event is dropped when the channel is full.
Emit(f, k) ==
    IF HasRoom
    THEN /\ queued' = queued + 1
         /\ trail' = [trail EXCEPT ![f] = Append(@, k)]
    ELSE UNCHANGED <<queued, trail>>

BugSilent(f) == pc' = [pc EXCEPT ![f] = "done"] /\ UNCHANGED <<queued, trail>>

\* emit_response_snapshot: completes the flow with a response of our own.
Synthesize(f) ==
    /\ pc' = [pc EXCEPT ![f] = "done"]
    /\ Emit(f, "Complete")

\* The interface takes an event off the channel.
Consume ==
    /\ queued > 0
    /\ queued' = queued - 1
    /\ UNCHANGED <<enabled, pending, ui, pc, rx, trail, verdict>>

\* An event of any other connection enters the channel.
OtherTraffic ==
    /\ HasRoom
    /\ queued' = queued + 1
    /\ UNCHANGED <<enabled, pending, ui, pc, rx, trail, verdict>>

-----------------------------------------------------------------------------
(* InterceptConfig, called by the UI and by the handler.                   *)

BugSendDecision(S, d) == UNCHANGED <<rx, verdict>>

\* The oneshot of each flow in S is sent d; only a live receiver takes it.
SendDecision(S, d) ==
    /\ rx' = [f \in Flow |-> IF f \in S /\ rx[f] = "open" THEN d ELSE rx[f]]
    /\ verdict' = [f \in Flow |-> IF f \in S /\ rx[f] = "open"
                                  THEN d ELSE verdict[f]]

\* remove: the sender of f leaves the map.
Take(f) == pending' = pending \ {f}

\* set_enabled: an atomic swap; the drain that may follow is another step.
SetEnabled(u, v) ==
    /\ ui[u] = "idle"
    /\ enabled' = v
    /\ ui' = [ui EXCEPT ![u] = IF enabled /\ ~v THEN "swapped" ELSE "idle"]
    /\ UNCHANGED <<pending, pc, rx, queued, trail, verdict>>

\* toggle: fetch_xor instead of swap.
Toggle(u) ==
    /\ ui[u] = "idle"
    /\ enabled' = ~enabled
    /\ ui' = [ui EXCEPT ![u] = IF enabled THEN "toggled" ELSE "idle"]
    /\ UNCHANGED <<pending, pc, rx, queued, trail, verdict>>

\* drain_forward, under the lock of the pending map.
DrainForward(u) ==
    /\ ui[u] # "idle"
    /\ SendDecision(pending, "Forward")
    /\ pending' = {}
    /\ ui' = [ui EXCEPT ![u] = "idle"]
    /\ UNCHANGED <<enabled, pc, queued, trail>>

\* resolve called by a UI task.
Resolve(u, f, d) ==
    /\ ui[u] = "idle"
    /\ f \in pending
    /\ SendDecision({f}, d)
    /\ Take(f)
    /\ UNCHANGED <<enabled, ui, pc, queued, trail>>

-----------------------------------------------------------------------------
(* The handler future of one flow.                                         *)

\* handle_compat_request takes an id and applies the route rules; a replay
\* starts at the intercept check.
Arrive(f) ==
    /\ pc[f] = "idle"
    /\ pc' = [pc EXCEPT ![f] = IF f \in Replay THEN "check" ELSE "arrived"]
    /\ UNCHANGED <<enabled, pending, ui, rx, queued, trail, verdict>>

\* A route rule answers the request.
RuleResponds(f) ==
    /\ pc[f] = "arrived"
    /\ Synthesize(f)
    /\ UNCHANGED <<enabled, pending, ui, rx, verdict>>

\* should_buffer_request: otherwise the body streams and nothing intercepts.
ChooseBuffering(f) ==
    /\ pc[f] = "arrived"
    /\ pc' = [pc EXCEPT ![f] = IF enabled \/ Scripted THEN "collect" ELSE "upstream"]
    /\ UNCHANGED <<enabled, pending, ui, rx, queued, trail, verdict>>

\* collect_body returns Complete or Exceeded, and the on_request hook did not
\* short-circuit.
Collected(f) ==
    /\ pc[f] = "collect"
    /\ pc' = [pc EXCEPT ![f] = "check"]
    /\ UNCHANGED <<enabled, pending, ui, rx, queued, trail, verdict>>

\* collect_body returns Failed: hooks and intercept are skipped.
CollectFailed(f) ==
    /\ pc[f] = "collect"
    /\ pc' = [pc EXCEPT ![f] = "upstream"]
    /\ UNCHANGED <<enabled, pending, ui, rx, queued, trail, verdict>>

\* The Lua on_request hook returns a response.
ScriptResponds(f) ==
    /\ Scripted
    /\ pc[f] = "collect"
    /\ Synthesize(f)
    /\ UNCHANGED <<enabled, pending, ui, rx, verdict>>

\* The intercept block reads the flag again, after the awaits above.
CheckEnabled(f) ==
    /\ pc[f] = "check"
    /\ pc' = [pc EXCEPT ![f] = IF enabled THEN "register" ELSE "upstream"]
    /\ UNCHANGED <<enabled, pending, ui, rx, queued, trail, verdict>>

\* register: the sender enters the map before the UI can learn the id.
Register(f) ==
    /\ pc[f] = "register"
    /\ pending' = pending \cup {f}
    /\ rx' = [rx EXCEPT ![f] = "open"]
    /\ pc' = [pc EXCEPT ![f] = "announce"]
    /\ UNCHANGED <<enabled, ui, queued, trail, verdict>>

Announce(f) ==
    /\ pc[f] = "announce"
    /\ HasRoom
    /\ Emit(f, "Intercepted")
    /\ pc' = [pc EXCEPT ![f] = "wait"]
    /\ UNCHANGED <<enabled, pending, ui, rx, verdict>>

\* try_send fails: the handler resolves its own entry with Forward, drops the
\* receiver unread and forwards without interception.
SkipIntercept(f) ==
    /\ pc[f] = "announce"
    /\ ~HasRoom
    /\ Take(f)
    /\ verdict' = [verdict EXCEPT ![f] = IF f \in pending THEN "Forward" ELSE @]
    /\ rx' = [rx EXCEPT ![f] = "dropped"]
    /\ pc' = [pc EXCEPT ![f] = "upstream"]
    /\ UNCHANGED <<enabled, ui, queued, trail>>

\* The decisions that let a request through.
Approved(f) == rx[f] \in {"Forward", "Modified"}

\* The receiver yields Forward, or Modified with headers that can be used.
Released(f) ==
    /\ pc[f] = "wait"
    /\ Approved(f)
    /\ pc' = [pc EXCEPT ![f] = "upstream"]
    /\ UNCHANGED <<enabled, pending, ui, rx, queued, trail, verdict>>

\* Modified with headers preserve_headers rejects: 400, for client flows only.
RejectEdit(f) ==
    /\ pc[f] = "wait"
    /\ rx[f] = "Modified"
    /\ f \notin Replay
    /\ Synthesize(f)
    /\ UNCHANGED <<enabled, pending, ui, rx, verdict>>

Blocked(f) ==
    /\ pc[f] = "wait"
    /\ rx[f] = "Block"
    /\ Synthesize(f)
    /\ UNCHANGED <<enabled, pending, ui, rx, verdict>>

BugExpire(f) ==
    /\ pc[f] = "wait"
    /\ rx[f] = "open"
    /\ ~enabled
    /\ pc' = [pc EXCEPT ![f] = "expired"]
    /\ UNCHANGED <<enabled, pending, ui, rx, queued, trail, verdict>>

\* The 300 s timer is ready and the receiver was polled empty.
Expire(f) ==
    /\ pc[f] = "wait"
    /\ rx[f] = "open"
    /\ pc' = [pc EXCEPT ![f] = "expired"]
    /\ UNCHANGED <<enabled, pending, ui, rx, queued, trail, verdict>>

\* The receiver is dropped; a client flow answers 504, a replay just ends.
GiveUp(f) ==
    /\ pc[f] = "expired"
    /\ rx' = [rx EXCEPT ![f] = "dropped"]
    /\ IF f \in Replay
       THEN pc' = [pc EXCEPT ![f] = "done"] /\ UNCHANGED <<queued, trail>>
       ELSE Synthesize(f)
    /\ UNCHANGED <<enabled, pending, ui, verdict>>

\* The upstream exchange ends: a response, an error answered with 502, or a
\* 101 that turns the flow into a WebSocket under the same id.
Finish(f, k) ==
    /\ pc[f] = "upstream"
    /\ k = "WebSocket" => f \notin Replay
    /\ pc' = [pc EXCEPT ![f] = "done"]
    /\ Emit(f, k)
    /\ UNCHANGED <<enabled, pending, ui, rx, verdict>>

\* The client resets its stream: the handler future is dropped at an await.
\* A replay runs in a task of its own and is never dropped.
CancelHandler(f) ==
    /\ f \notin Replay
    /\ pc[f] \in {"arrived", "collect", "wait", "upstream"}
    /\ pc' = [pc EXCEPT ![f] = "cancelled"]
    /\ rx' = [rx EXCEPT ![f] = IF @ = "none" THEN @ ELSE "dropped"]
    /\ UNCHANGED <<enabled, pending, ui, queued, trail, verdict>>

-----------------------------------------------------------------------------
UiStep(u) ==
    \/ \E v \in BOOLEAN : SetEnabled(u, v)
    \/ Toggle(u)
    \/ DrainForward(u)
    \/ \E f \in Flow, d \in Decision : Resolve(u, f, d)

\* What the runtime drives to completion once the flow is past the body.
Progress(f) ==
    \/ CheckEnabled(f) \/ Register(f) \/ Announce(f) \/ SkipIntercept(f)
    \/ Released(f) \/ RejectEdit(f) \/ Blocked(f)
    \/ Expire(f) \/ GiveUp(f)

FlowStep(f) ==
    \/ Arrive(f) \/ RuleResponds(f) \/ ChooseBuffering(f)
    \/ Collected(f) \/ CollectFailed(f) \/ ScriptResponds(f)
    \/ Progress(f)
    \/ \E k \in {"Complete", "WebSocket"} : Finish(f, k)
    \/ CancelHandler(f)

PauseNext ==
    \/ Consume
    \/ OtherTraffic
    \/ \E u \in UI : UiStep(u)
    \/ \E f \in Flow : FlowStep(f)

PauseSpec == PauseInit /\ [][PauseNext]_pauseVars

\* A handler future that is ready is polled, and the 300 s timer fires.
\* Nothing is assumed of the user, the client or the server.
FairPauseSpec == PauseSpec /\ \A f \in Flow : WF_pauseVars(Progress(f))

-----------------------------------------------------------------------------
PauseTypeOK ==
    /\ enabled \in BOOLEAN
    /\ pending \in SUBSET Flow
    /\ ui \in [UI -> {"idle", "swapped", "toggled"}]
    /\ pc \in [Flow -> Location]
    /\ rx \in [Flow -> Decision \cup {"none", "open", "dropped"}]
    /\ queued \in 0..EventCap
    /\ trail \in [Flow -> Seq(Kind)]
    /\ verdict \in [Flow -> Decision \cup {"none"}]

\* A handler that can still be decided is reachable: its sender is in the map,
\* so a later resolve or drain_forward finds it (handler.rs registers before it
\* announces; no path takes the sender out without using it).
WaiterReachable ==
    \A f \in Flow :
        pc[f] \in {"announce", "wait", "expired"} /\ rx[f] = "open" => f \in pending

\* A request the UI was told is held goes upstream only after a Forward or a
\* Modified was delivered to its handler: never after Block, a timeout or a
\* mode change alone.
HeldUntilDecided ==
    \A f \in Flow :
        Announced(f) /\ pc[f] = "upstream" => verdict[f] \in {"Forward", "Modified"}

\* Observers see RequestIntercepted at most once and first, and at most one
\* terminal event after it, whatever the interleaving of decision, timeout and
\* full channel.
TrailOrder == \A f \in Flow : trail[f] \in Trails

\* The map keeps no entry of a request that was let through: what stays behind
\* is only ever an undecided flow that expired or was cancelled.
NoEntryBehindForwarded ==
    \A f \in pending :
        /\ pc[f] \in {"announce", "wait", "expired", "done", "cancelled"}
        /\ verdict[f] = "none"

\* The pause is safe: nobody waits out of reach, nothing held slips through, what
\* observers see stays in order, and the map keeps no decided entry.
PauseIsSafe ==
    PauseTypeOK /\ WaiterReachable /\ HeldUntilDecided /\ TrailOrder /\ NoEntryBehindForwarded

\* A client flow that ends shows its end, unless the channel is full at that
\* step: rule, hook, Block, rejected edit, timeout and upstream all report.
ClientFlowEndsVisibly ==
    [][\A f \in Flow \ Replay :
          pc[f] # "done" /\ pc'[f] = "done" /\ HasRoom
          => Len(trail'[f]) = Len(trail[f]) + 1]_pauseVars

\* A handler on its way into the pause always comes out of it, also when the
\* drain of a concurrent toggle has missed its sender: the timer is the net.
EveryPauseEnds ==
    \A f \in Flow : pc[f] = "register" ~> pc[f] \in {"upstream", "done", "cancelled"}
=============================================================================
