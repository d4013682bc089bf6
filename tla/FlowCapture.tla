---------------------------- MODULE FlowCapture ----------------------------
(***************************************************************************)
(* How one exchange is recorded while it streams through the proxy         *)
(* (proxyapi/src/handler.rs and body.rs): a body is either collected for   *)
(* the hooks first, or captured while its receiver pulls it; the response  *)
(* body reports the exchange when it ends, and a detached task waits for   *)
(* the capture of the request.  The peers and both pulls are concurrent.   *)
(* The bytes a peer sends are numbered; 0 stands for what a hook or the    *)
(* proxy itself puts in their place.  Heads and trailers are left out.     *)
(***************************************************************************)
EXTENDS Naturals, Sequences

CONSTANTS
    MaxBytes, \* bound: bytes in each body
    MaxFrame, \* bound: bytes in one data frame
    Limit     \* body_capture_limit

ASSUME BoundAssumption == MaxBytes \in Nat /\ MaxFrame \in Nat
ASSUME LimitAssumption == Limit \in Nat

VARIABLES
    scripted,  \* a Lua script engine is attached
    stage,     \* where each body is
    read,      \* bytes read from the peer
    wire,      \* how the peer's body stands: "open", "end", "failed"
    buffer,    \* what collect_body holds
    prefix,    \* frames to be passed on before anything else is read
    rest,      \* what follows the prefix: "open" (the peer), "end", "failed"
    out,       \* bytes passed on
    capture,   \* BodyCapture, and whether on_complete has yet to run
    request,   \* captured_request: "none", "buffered" or "streaming"
    kept,      \* the request as the buffered variant holds it
    notified,  \* the permit of Notify: the request capture is complete
    waiting,   \* the detached task, with its response snapshot, or <<>>
    events     \* the RequestComplete events of the exchange

vars == <<scripted, stage, read, wire, buffer, prefix, rest, out, capture,
          request, kept, notified, waiting, events>>

source == <<scripted, read, wire>>
asked  == <<request, kept>>
told   == <<notified, waiting, events>>

Dir == {"request", "response"}

Bytes(a, b) == [k \in 1..(b - a) |-> a + k]

Flat(frames) == IF frames = <<>> THEN <<>> ELSE
                IF Len(frames) = 1 THEN frames[1] ELSE frames[1] \o frames[2]

\* A body as an event shows it: BodySnapshot, BodyMetadata.
Snapshot == [bytes : Seq(0..MaxBytes), truncated : BOOLEAN, seen : Nat]

Complete(b) == [bytes |-> b, truncated |-> FALSE, seen |-> Len(b)]

Own == <<0>>

Fresh == [bytes |-> <<>>, truncated |-> FALSE, seen |-> 0, on |-> TRUE, armed |-> TRUE]

Off == [Fresh EXCEPT !.on = FALSE, !.armed = FALSE]

Shown(c) == [bytes |-> c.bytes, truncated |-> c.truncated, seen |-> c.seen]

\* The request is collected for a script, or when intercept was on just then.
Init ==
    /\ scripted \in BOOLEAN
    /\ \E collects \in IF scripted THEN {TRUE} ELSE BOOLEAN :
          /\ stage = [request  |-> IF collects THEN "collect" ELSE "stream",
                      response |-> "none"]
          /\ capture = [request |-> IF collects THEN Off ELSE Fresh, response |-> Off]
          /\ request = IF collects THEN "none" ELSE "streaming"
    /\ read = [d \in Dir |-> 0] /\ wire = [d \in Dir |-> "open"]
    /\ buffer = [d \in Dir |-> <<>>]
    /\ prefix = [d \in Dir |-> <<>>] /\ rest = [d \in Dir |-> "open"]
    /\ out = [d \in Dir |-> <<>>]
    /\ kept = Complete(<<>>)
    /\ notified = FALSE /\ waiting = <<>> /\ events = <<>>

-----------------------------------------------------------------------------
(* collect_body.                                                           *)

\* The peer's next data frame, n bytes long.
Frame(d, n) ==
    /\ wire[d] = "open"
    /\ read[d] + n <= MaxBytes
    /\ read' = [read EXCEPT ![d] = @ + n]
    /\ UNCHANGED <<scripted, wire>>

\* The peer's body ends, or fails.
Ends(d, how) ==
    /\ wire[d] = "open"
    /\ wire' = [wire EXCEPT ![d] = how]
    /\ UNCHANGED <<scripted, read>>

BugOverflow(all, data) == data

\* What the collected prefix leaves of the frame that exceeds the limit.
Overflow(all, data) == SubSeq(all, Limit + 1, Len(all))

Collect(d, n) ==
    /\ stage[d] = "collect"
    /\ Frame(d, n)
    /\ LET data == Bytes(read[d], read[d] + n)
           all  == buffer[d] \o data
       IN  IF Len(all) <= Limit
           THEN /\ buffer' = [buffer EXCEPT ![d] = all]
                /\ UNCHANGED <<stage, prefix>>
           ELSE /\ buffer' = [buffer EXCEPT ![d] = SubSeq(all, 1, Limit)]
                /\ prefix' = [prefix EXCEPT
                      ![d] = <<SubSeq(all, 1, Limit), Overflow(all, data)>>]
                /\ stage' = [stage EXCEPT ![d] = "exceeded"]
    /\ UNCHANGED <<rest, out, capture, asked, told>>

CollectEnds(d, how) ==
    /\ stage[d] = "collect"
    /\ Ends(d, how)
    /\ rest' = [rest EXCEPT ![d] = how]
    /\ prefix' = [prefix EXCEPT ![d] = <<buffer[d]>>]
    /\ stage' = [stage EXCEPT ![d] = IF how = "end" THEN "complete" ELSE "failed"]
    /\ UNCHANGED <<buffer, out, capture, asked, told>>

\* The body goes on as b, a buffer of our own.
Buffered(d, b) ==
    /\ prefix' = [prefix EXCEPT ![d] = <<b>>]
    /\ rest' = [rest EXCEPT ![d] = "end"]
    /\ stage' = [stage EXCEPT ![d] = "stream"]
    /\ UNCHANGED capture

\* body::capture around what is left of the body.
Captured(d) ==
    /\ capture' = [capture EXCEPT ![d] = Fresh]
    /\ stage' = [stage EXCEPT ![d] = "stream"]
    /\ UNCHANGED <<prefix, rest>>

\* What the hook, or an edit, makes of collected bytes: they stay or go.
Hooked(d) == {buffer[d], Own}

-----------------------------------------------------------------------------
(* forward_request_from_body, after the hooks.                             *)

ForwardBuffered(b) ==
    /\ \/ stage["request"] = "complete" /\ b \in Hooked("request")
       \/ stage["request"] = "exceeded" /\ b = Own
    /\ Buffered("request", b)
    /\ request' = "buffered"
    /\ kept' = Complete(b)
    /\ UNCHANGED <<source, buffer, out, told>>

ForwardStreaming ==
    /\ stage["request"] \in {"exceeded", "failed"}
    /\ Captured("request")
    /\ request' = "streaming"
    /\ UNCHANGED <<source, buffer, out, kept, told>>

-----------------------------------------------------------------------------
(* What the receiver of a body pulls out of it.                            *)

BugCut(data, room) == Len(data) >= room

\* The chunk does not fit: the capture is marked.
Cut(data, room) == Len(data) > room

\* BodyCapture::append.
Recorded(c, data) ==
    LET room == Limit - Len(c.bytes) IN
    IF ~c.on THEN c ELSE
    [c EXCEPT !.bytes = @ \o SubSeq(data, 1, IF Cut(data, room) THEN room ELSE Len(data)),
              !.truncated = @ \/ Cut(data, room),
              !.seen = @ + Len(data)]

Pass(d, data) ==
    /\ out' = [out EXCEPT ![d] = @ \o data]
    /\ capture' = [capture EXCEPT ![d] = Recorded(@, data)]

PullPrefix(d) ==
    /\ stage[d] = "stream"
    /\ prefix[d] # <<>>
    /\ Pass(d, Head(prefix[d]))
    /\ prefix' = [prefix EXCEPT ![d] = Tail(@)]
    /\ UNCHANGED <<stage, source, buffer, rest, asked, told>>

PullFrame(d, n) ==
    /\ stage[d] = "stream"
    /\ prefix[d] = <<>> /\ rest[d] = "open"
    /\ Frame(d, n)
    /\ Pass(d, Bytes(read[d], read[d] + n))
    /\ UNCHANGED <<stage, buffer, prefix, rest, asked, told>>

BugNotify == notified' = (waiting # <<>>)

\* notify_one: the permit is kept for a task that waits later.
Notify == notified' = TRUE

Send(req, res) == events' = Append(events, [req |-> req, res |-> res])

\* The streamed response reports: at once for a buffered request, otherwise
\* by a task of its own that awaits the capture of the request.
Report(res) ==
    IF request = "streaming"
    THEN waiting' = <<res>> /\ UNCHANGED events
    ELSE Send(kept, res) /\ UNCHANGED waiting

Armed(d) == capture[d].armed

\* on_complete runs once, whichever of end, error and drop comes first.
OnComplete(d) ==
    /\ capture' = [capture EXCEPT ![d].armed = FALSE]
    /\ IF ~Armed(d) THEN UNCHANGED told
       ELSE IF d = "request" THEN Notify /\ UNCHANGED <<waiting, events>>
       ELSE Report(Shown(capture[d])) /\ UNCHANGED notified
    /\ UNCHANGED asked

PullEnd(d, how) ==
    /\ stage[d] = "stream"
    /\ prefix[d] = <<>>
    /\ IF rest[d] = "open" THEN Ends(d, how) ELSE rest[d] = how /\ UNCHANGED source
    /\ stage' = [stage EXCEPT ![d] = "ended"]
    /\ OnComplete(d)
    /\ UNCHANGED <<buffer, prefix, rest, out>>

\* The receiver drops the body, read to its end or not.
DropBody(d) ==
    /\ stage[d] \in {"stream", "ended"}
    /\ stage' = [stage EXCEPT ![d] = "dropped"]
    /\ OnComplete(d)
    /\ UNCHANGED <<source, buffer, prefix, rest, out>>

-----------------------------------------------------------------------------
(* handle_upstream_response, and what it does with a collected body.       *)

ResponseHead ==
    /\ stage["request"] \in {"stream", "ended", "dropped"}
    /\ stage["response"] = "none"
    /\ IF scripted
       THEN /\ stage' = [stage EXCEPT !["response"] = "collect"]
            /\ UNCHANGED <<prefix, rest, capture>>
       ELSE Captured("response")
    /\ UNCHANGED <<source, buffer, out, asked, told>>

\* into_proxied_request does not wait for the capture of the request.
TakenRequest == IF request = "streaming" THEN Shown(capture["request"]) ELSE kept

\* emit_response_snapshot.
EmitSnapshot(b) ==
    /\ Send(TakenRequest, Complete(b))
    /\ request' = "none"
    /\ UNCHANGED <<kept, notified, waiting>>

FinishBuffered(b) ==
    /\ \/ stage["response"] = "complete" /\ b \in Hooked("response")
       \/ stage["response"] = "exceeded" /\ b = Own
    /\ Buffered("response", b)
    /\ EmitSnapshot(b)
    /\ UNCHANGED <<source, buffer, out>>

\* The hook leaves a prefix alone, or the body has failed.
StreamResponse ==
    /\ stage["response"] \in {"exceeded", "failed"}
    /\ Captured("response")
    /\ UNCHANGED <<source, buffer, out, asked, told>>

\* The upstream fails before it answers: synthetic_protocol_response.
UpstreamFails ==
    /\ stage["request"] \in {"stream", "ended", "dropped"}
    /\ stage["response"] = "none"
    /\ Buffered("response", Own)
    /\ EmitSnapshot(Own)
    /\ UNCHANGED <<source, buffer, out>>

\* The client is gone while the handler collects or waits: nothing reports.
Cancel ==
    /\ stage["response"] \in {"none", "collect"}
    /\ stage' = [d \in Dir |-> IF stage[d] \in {"stream", "ended", "dropped"}
                               THEN stage[d] ELSE "cancelled"]
    /\ request' = "none"
    /\ UNCHANGED <<source, buffer, prefix, rest, out, capture, kept, told>>

\* done.notified() finds the permit.
Ready == notified

\* The detached task sends the event.
ReportLater ==
    /\ waiting # <<>>
    /\ Ready
    /\ Send(Shown(capture["request"]), waiting[1])
    /\ waiting' = <<>>
    /\ notified' = FALSE
    /\ UNCHANGED <<stage, source, buffer, prefix, rest, out, capture, asked>>

-----------------------------------------------------------------------------
Pull(d) ==
    \/ PullPrefix(d)
    \/ \E n \in 1..MaxFrame : PullFrame(d, n)
    \/ \E how \in {"end", "failed"} : PullEnd(d, how)

Next ==
    \/ \E d \in Dir :
          \/ \E n \in 1..MaxFrame : Collect(d, n)
          \/ \E how \in {"end", "failed"} : CollectEnds(d, how)
          \/ Pull(d) \/ DropBody(d)
    \/ \E b \in {buffer["request"], Own} : ForwardBuffered(b)
    \/ \E b \in {buffer["response"], Own} : FinishBuffered(b)
    \/ ForwardStreaming \/ ResponseHead \/ StreamResponse
    \/ UpstreamFails \/ Cancel \/ ReportLater

Spec == Init /\ [][Next]_vars

\* Every body in transit is dropped in the end, by a receiver that has read it
\* or has given up, and the detached task is polled.
FairSpec ==
    /\ Spec
    /\ \A d \in Dir : WF_vars(DropBody(d))
    /\ WF_vars(ReportLater)

-----------------------------------------------------------------------------
TypeOK ==
    /\ scripted \in BOOLEAN
    /\ stage \in [Dir -> {"none", "collect", "complete", "exceeded", "failed",
                          "stream", "ended", "dropped", "cancelled"}]
    /\ read \in [Dir -> 0..MaxBytes]
    /\ wire \in [Dir -> {"open", "end", "failed"}]
    /\ buffer \in [Dir -> Seq(1..MaxBytes)]
    /\ prefix \in [Dir -> Seq(Seq(0..MaxBytes))]
    /\ rest \in [Dir -> {"open", "end", "failed"}]
    /\ out \in [Dir -> Seq(0..MaxBytes)]
    /\ \A d \in Dir :
          /\ Shown(capture[d]) \in Snapshot /\ Len(capture[d].bytes) <= Limit
          /\ capture[d].on \in BOOLEAN /\ capture[d].armed \in BOOLEAN
    /\ request \in {"none", "buffered", "streaming"}
    /\ kept \in Snapshot
    /\ notified \in BOOLEAN
    /\ waiting \in Seq(Snapshot)
    /\ events \in Seq([req : Snapshot, res : Snapshot])

Whole(d) == out[d] \o Flat(prefix[d])

Replaced(d) == \E k \in DOMAIN Whole(d) : Whole(d)[k] = 0

\* Collecting a body, giving up at the limit, replaying it and streaming on
\* lose, double and reorder nothing: what went on and what is held is exactly
\* what was read, unless a hook replaced it.
PassedOnWhole ==
    \A d \in Dir :
        stage[d] \in {"exceeded", "failed", "stream", "ended"} /\ ~Replaced(d)
        => Whole(d) = Bytes(0, read[d])

\* A capture is the beginning of what went through, up to the limit, and is
\* marked exactly when something is missing.
CaptureIsFaithful ==
    \A d \in Dir : capture[d].on =>
        /\ capture[d].bytes = SubSeq(out[d], 1, Len(capture[d].bytes))
        /\ capture[d].seen = Len(out[d])
        /\ capture[d].truncated <=> Len(capture[d].bytes) < Len(out[d])

\* An exchange is reported once, however its two bodies end.  Reported, here and
\* below, is handed to the event channel, which drops what it has no room for.
ReportedOnce == Len(events) + Len(waiting) <= 1

\* The event of a streamed exchange is sent only when the request can no longer
\* grow, and shows all of it that went through, also when the answer was early.
RequestIsFinal ==
    \A k \in DOMAIN events :
        capture["response"].on /\ capture["request"].on =>
            /\ ~capture["request"].armed
            /\ events[k].req = Shown(capture["request"])

\* What an exchange reports is true: both captures are beginnings of what went
\* through, and they are reported once, when the request can no longer change.
ReportIsFaithful == TypeOK /\ CaptureIsFaithful /\ ReportedOnce /\ RequestIsFinal

\* A response that reached the client is reported: the event channel is given the
\* exchange, which it drops when it is full.
EveryResponseReported ==
    stage["response"] = "stream" ~> events # <<>>
=============================================================================
