------------------------------- MODULE Tunnel -------------------------------
(***************************************************************************)
(* Byte streams and WebSockets through the proxy once a client has asked   *)
(* for one: CONNECT and raw streams (proxyapi proxy/raw.rs), WebSockets    *)
(* (proxy/forward.rs), both over HTTP/1 sockets or over HTTP/2 and HTTP/3  *)
(* streams, whose DATA frames two bridges turn into byte streams           *)
(* (proxelar-proto http2/connection.rs).                                   *)
(*                                                                         *)
(* A direction is a row of bounded pipes with something that moves data    *)
(* between each two.  Data is a number of units; where a pipe ends, how,   *)
(* and whether anybody still reads it is kept exactly.                     *)
(***************************************************************************)
EXTENDS Naturals, Sequences, FiniteSets

CONSTANTS
    Setup,      \* how the two sides are connected, and what is spoken
    MaxSend,    \* bound: MaxSend[setup][d], the units sent in a direction
    PipeCap,    \* units a pipe holds
    MaxCapture  \* MAX_CAPTURE_BYTES_PER_DIRECTION

ASSUME SetupAssumption ==
    Setup \subseteq [client : {"tcp", "h2"}, server : {"tcp", "h2"}, speaks : {"raw", "ws"}]
ASSUME CapAssumption == {PipeCap, MaxCapture} \subseteq Nat \ {0}

VARIABLES
    setup,    \* the connections of this run
    phase,    \* "asked", "upgrade", "open", "over"
    answer,   \* what the client was told: "none", "accepted", "refused"
    pipe,     \* pipe[d][i]: [n, end, read], the i-th of direction d
    mover,    \* mover[d][i]: what moves from pipe i to pipe i + 1
    taken,    \* the direction of the frame the WebSocket relay holds, or "none"
    sent,     \* units each side has sent
    got,      \* what the other has received: [n, end]
    capture,  \* capture[d]: the counters of the copy, and what of its chunks the
              \* event channel took and refused
    reported, \* the last event of the connection that was handed to the event
              \* channel: "none", "connected", "closed"
    failed    \* history: a side has reset, or the proxy could not connect

vars == <<setup, phase, answer, pipe, mover, taken, sent, got, capture, reported, failed>>

Dir == {"up", "down"}

Other(d) == IF d = "up" THEN "down" ELSE "up"

\* The bridges of an HTTP/2 or HTTP/3 side: body_tunnel of the client's,
\* websocket_body_tunnel of the server's.
Movers(x, d) ==
    LET C(m) == IF x.client = "h2" THEN <<m>> ELSE <<>>
        S(m) == IF x.server = "h2" THEN <<m>> ELSE <<>>
    IN IF d = "up" THEN C("receive") \o <<"relay">> \o S("send")
                   ELSE S("answer") \o <<"relay">> \o C("transmit")

\* Where in that row a mover is: the relay comes after the bridge it reads from.
Place(d, m) ==
    LET relay == IF (IF d = "up" THEN setup.client ELSE setup.server) = "h2" THEN 2 ELSE 1
    IN CASE m \in {"receive", "answer"} -> 1
         [] m = "relay" -> relay
         [] m \in {"send", "transmit"} -> relay + 1

Last(d) == Len(pipe[d])

\* Chunks put together: which units of the direction they show, and how many of
\* them say that it was cut.
NoChunks == [units |-> {}, marks |-> 0]
With(r, chunk) == [units |-> r.units \cup chunk.units, marks |-> r.marks + chunk.marks]

Init ==
    /\ setup \in Setup
    /\ phase = "asked" /\ answer = "none"
    /\ pipe = [d \in Dir |-> [i \in 1..Len(Movers(setup, d)) + 1 |->
                                  [n |-> 0, end |-> "open", read |-> TRUE]]]
    /\ mover = [d \in Dir |-> [i \in 1..Len(Movers(setup, d)) |-> "run"]]
    /\ taken = "none"
    /\ sent = [d \in Dir |-> 0]
    /\ got = [d \in Dir |-> [n |-> 0, end |-> "open"]]
    /\ capture = [d \in Dir |-> [total |-> 0, captured |-> 0, emitted |-> FALSE,
                                seen |-> NoChunks, lost |-> NoChunks]]
    /\ reported = "none" /\ failed = FALSE

-----------------------------------------------------------------------------
\* Shutting down a writer, dropping a reader.
Ended(p, end) == [p EXCEPT !.end = IF @ = "open" THEN end ELSE @]
Unread(p) == [p EXCEPT !.read = FALSE, !.n = 0]

\* Both streams of the relay are dropped, whatever they hold.
Dropped(pp) ==
    [d \in Dir |->
        LET i == Place(d, "relay")
        IN [pp[d] EXCEPT ![i] = Unread(@), ![i + 1] = Ended(@, "eof")]]

RelayStopped(mm) == [d \in Dir |-> [mm[d] EXCEPT ![Place(d, "relay")] = "done"]]

\* A relay that is not in use has dropped its streams.
Over ==
    /\ phase' = "over"
    /\ pipe' = Dropped(pipe) /\ mover' = RelayStopped(mover)
    /\ taken' = "none"

-----------------------------------------------------------------------------
\* CONNECT is accepted before anything is known of the target; a WebSocket only
\* once the upstream has accepted it.  A hook, an invalid request, a target that
\* cannot be rewritten, or the upstream refuses it.
Accept ==
    /\ phase = "asked" /\ answer = "none" /\ setup.speaks = "raw"
    /\ answer' = "accepted"
    /\ UNCHANGED <<setup, phase, pipe, mover, taken, sent, got, capture, reported, failed>>

Refuse ==
    /\ phase = "asked" /\ answer = "none" /\ setup.speaks = "ws"
    /\ answer' = "refused" /\ failed' = TRUE
    /\ Over
    /\ UNCHANGED <<setup, sent, got, capture, reported>>

\* An extended CONNECT towards an HTTP/1 upstream: the client is told before the
\* upgraded connection is there, and the event is sent.
AcceptWebSocket ==
    /\ phase = "asked" /\ answer = "none" /\ setup.speaks = "ws"
    /\ answer' = "accepted" /\ reported' = "connected"
    /\ phase' = IF setup.server = "tcp" THEN "upgrade" ELSE "open"
    /\ UNCHANGED <<setup, pipe, mover, taken, sent, got, capture, failed>>

Upgraded ==
    /\ phase = "upgrade"
    /\ phase' = "open"
    /\ UNCHANGED <<setup, answer, pipe, mover, taken, sent, got, capture, reported, failed>>

\* The upgrade is lost: the streams are dropped, and no closing event is sent.
UpgradeFails ==
    /\ phase = "upgrade"
    /\ failed' = TRUE
    /\ Over
    /\ UNCHANGED <<setup, answer, sent, got, capture, reported>>

\* What was recognised as neither HTTP nor TLS: the handler closes it or the
\* target is connected to.
Connect ==
    /\ phase = "asked" /\ answer = "accepted"
    /\ phase' = "open" /\ reported' = "connected"
    /\ UNCHANGED <<setup, answer, pipe, mover, taken, sent, got, capture, failed>>

ConnectFails ==
    /\ phase = "asked" /\ answer = "accepted"
    /\ failed' = TRUE
    /\ Over
    /\ UNCHANGED <<setup, answer, sent, got, capture, reported>>

-----------------------------------------------------------------------------
\* The two sides.
Proxy == <<setup, phase, answer, mover, taken, capture, reported>>

Send(d) ==
    /\ answer = "accepted" /\ sent[d] < MaxSend[setup][d]
    /\ pipe[d][1].end = "open" /\ pipe[d][1].n < PipeCap
    /\ d = "down" => phase = "open"
    /\ sent' = [sent EXCEPT ![d] = @ + 1]
    /\ pipe' = IF pipe[d][1].read THEN [pipe EXCEPT ![d][1].n = @ + 1] ELSE pipe
    /\ UNCHANGED <<Proxy, got, failed>>

\* The client ends when it likes, the server when it has seen the end of what the
\* client sends, or has given up.
End(d) ==
    /\ answer = "accepted" /\ pipe[d][1].end = "open"
    /\ d = "down" => phase # "asked" /\ (got["up"].end # "open" \/ failed)
    /\ pipe' = [pipe EXCEPT ![d][1] = Ended(@, "eof")]
    /\ UNCHANGED <<Proxy, sent, got, failed>>

\* A side resets: nothing more comes from it, nothing more is taken.  Trailers on
\* a byte stream count as a reset.
ResetBy(d) ==
    /\ answer = "accepted" /\ ~failed
    /\ d = "down" => phase = "open"
    /\ pipe[d][1].end = "open" \/ got[Other(d)].end = "open"
    /\ failed' = TRUE
    /\ pipe' = [pipe EXCEPT ![d][1] = [Ended(@, "error") EXCEPT !.n = 0],
                            ![Other(d)][Last(Other(d))] = Unread(@)]
    /\ UNCHANGED <<Proxy, sent, got>>

Take(d) ==
    LET p == pipe[d][Last(d)]
    IN /\ got[d].end = "open" /\ p.read
       /\ \/ /\ p.n > 0
             /\ pipe' = [pipe EXCEPT ![d][Last(d)].n = @ - 1]
             /\ got' = [got EXCEPT ![d].n = @ + 1]
          \/ /\ p.n = 0 /\ p.end # "open"
             /\ got' = [got EXCEPT ![d].end = p.end]
             /\ UNCHANGED pipe
       /\ UNCHANGED <<Proxy, sent, failed>>

-----------------------------------------------------------------------------
\* BUG: a stream that reaches the limit exactly and goes on is not marked.
BugCopied(d, k, room) ==
    LET c == capture[d]
        remaining == MaxCapture - c.captured
        length == IF k < remaining THEN k ELSE remaining
        truncated == length > 0 /\ length < k
        chunk == [units |-> c.total + 1..c.total + length,
                  marks |-> IF truncated THEN 1 ELSE 0]
    IN IF length = 0 /\ c.emitted
       THEN [c EXCEPT !.total = @ + k]
       ELSE [total |-> c.total + k,
             captured |-> c.captured + length,
             emitted |-> c.emitted \/ truncated,
             seen |-> IF room THEN With(c.seen, chunk) ELSE c.seen,
             lost |-> IF room THEN c.lost ELSE With(c.lost, chunk)]

\* copy_and_capture, of k more units.  The event channel has room or refuses the
\* chunk; the counters go on either way.
Copied(d, k, room) ==
    LET c == capture[d]
        remaining == MaxCapture - c.captured
        length == IF k < remaining THEN k ELSE remaining
        truncated == length < k \/ remaining = 0
        chunk == [units |-> c.total + 1..c.total + length,
                  marks |-> IF truncated THEN 1 ELSE 0]
    IN IF length = 0 /\ c.emitted
       THEN [c EXCEPT !.total = @ + k]
       ELSE [total |-> c.total + k,
             captured |-> c.captured + length,
             emitted |-> c.emitted \/ truncated,
             seen |-> IF room THEN With(c.seen, chunk) ELSE c.seen,
             lost |-> IF room THEN c.lost ELSE With(c.lost, chunk)]

RawRelay(d) == setup.speaks = "raw" /\ phase = "open" /\ mover[d][Place(d, "relay")] = "run"

\* raw::tunnel is two copies side by side.  Up to a buffer is read and written whole before any of it is recorded.
Copy(d) ==
    LET i == Place(d, "relay")
    IN /\ RawRelay(d)
       /\ \E k \in 1..pipe[d][i].n, room \in BOOLEAN :
             /\ pipe[d][i + 1].read /\ pipe[d][i + 1].n + k <= PipeCap
             /\ pipe' = [pipe EXCEPT ![d][i].n = @ - k, ![d][i + 1].n = @ + k]
             /\ capture' = [capture EXCEPT ![d] = Copied(d, k, room)]
       /\ UNCHANGED <<setup, phase, answer, mover, taken, sent, got, reported, failed>>

\* BUG: the end of one direction is not passed on.
BugCopyEnds(d) ==
    LET i == Place(d, "relay")
    IN /\ RawRelay(d)
       /\ pipe[d][i].n = 0 /\ pipe[d][i].end # "open"
       /\ mover' = [mover EXCEPT ![d][i] = "done"]
       /\ UNCHANGED <<setup, phase, answer, pipe, taken, sent, got, capture, reported, failed>>

\* The end of the source shuts down the sink; an error on either ends the copy
\* and leaves the sink as it is.
CopyEnds(d) ==
    LET i == Place(d, "relay")
    IN /\ RawRelay(d)
       /\ \/ /\ pipe[d][i].n = 0 /\ pipe[d][i].end = "eof"
             /\ pipe' = [pipe EXCEPT ![d][i + 1] = Ended(@, "eof")]
          \/ /\ \/ pipe[d][i].n = 0 /\ pipe[d][i].end = "error"
                \/ pipe[d][i].n > 0 /\ ~pipe[d][i + 1].read
             /\ UNCHANGED pipe
       /\ mover' = [mover EXCEPT ![d][i] = "done"]
       /\ UNCHANGED <<setup, phase, answer, taken, sent, got, capture, reported, failed>>

\* join: the stream is closed when both copies have ended.
TunnelEnds ==
    /\ setup.speaks = "raw" /\ phase = "open"
    /\ \A d \in Dir : mover[d][Place(d, "relay")] = "done"
    /\ reported' = "closed"
    /\ Over
    /\ UNCHANGED <<setup, answer, sent, got, capture, failed>>

-----------------------------------------------------------------------------
\* relay_websocket_frames: one frame at a time.  While it is being sent neither
\* side is read.
WsRelay == setup.speaks = "ws" /\ phase = "open"

WsNext(d) ==
    LET i == Place(d, "relay")
    IN /\ WsRelay /\ taken = "none"
       /\ pipe[d][i].n > 0
       /\ pipe' = [pipe EXCEPT ![d][i].n = @ - 1]
       /\ taken' \in {d, "none"}       \* a script may drop the frame
       /\ UNCHANGED <<setup, phase, answer, mover, sent, got, capture, reported, failed>>

WsSend ==
    /\ WsRelay /\ taken # "none"
    /\ LET i == Place(taken, "relay") + 1
       IN /\ pipe[taken][i].read /\ pipe[taken][i].n < PipeCap
          /\ pipe' = [pipe EXCEPT ![taken][i].n = @ + 1]
    /\ taken' = "none"
    /\ UNCHANGED <<setup, phase, answer, mover, sent, got, capture, reported, failed>>

\* The end or an error of either side ends both directions.
WsEnds ==
    /\ WsRelay
    /\ \/ /\ taken = "none"
          /\ \E d \in Dir : LET p == pipe[d][Place(d, "relay")] IN p.n = 0 /\ p.end # "open"
       \/ taken # "none" /\ ~pipe[taken][Place(taken, "relay") + 1].read
    /\ reported' = "closed"
    /\ Over
    /\ UNCHANGED <<setup, answer, sent, got, capture, failed>>

-----------------------------------------------------------------------------
\* The bridge of the client's stream: receive and transmit, in one task.
Idle == UNCHANGED <<setup, phase, answer, taken, sent, got, capture, reported, failed>>

Bridged(d, m) ==
    /\ answer = "accepted"
    /\ m \in {Movers(setup, d)[i] : i \in DOMAIN Movers(setup, d)}
    /\ mover[d][Place(d, m)] = "run"

Pump(d, m) ==
    LET i == Place(d, m)
    IN /\ Bridged(d, m)
       /\ pipe[d][i].n > 0 /\ pipe[d][i + 1].read /\ pipe[d][i + 1].n < PipeCap
       /\ pipe' = [pipe EXCEPT ![d][i].n = @ - 1, ![d][i + 1].n = @ + 1]
       /\ UNCHANGED mover /\ Idle

SourceIs(d, m, end) == LET p == pipe[d][Place(d, m)] IN p.n = 0 /\ p.end = end
SinkGone(d, m) == ~pipe[d][Place(d, m) + 1].read

\* Half of the stream is over; the other goes on.
PumpEnds(d, m) ==
    /\ Bridged(d, m)
    /\ SourceIs(d, m, "eof")
    /\ pipe' = [pipe EXCEPT ![d][Place(d, m) + 1] = Ended(@, "eof")]
    /\ mover' = [mover EXCEPT ![d][Place(d, m)] = "done"]
    /\ Idle

\* The bridge is dropped: its application reads an end and cannot write, the
\* response ends in an error or just ends.
Broken(end) ==
    /\ pipe' = [pipe EXCEPT !["up"][1] = Unread(@), !["up"][2] = Ended(@, "eof"),
                            !["down"][Last("down") - 1] = Unread(@),
                            !["down"][Last("down")] = Ended(@, end)]
    /\ mover' = [mover EXCEPT !["up"][1] = "done", !["down"][Last("down") - 1] = "done"]

\* A failure of the receiving half is reported in the response, unless that has
\* ended already, and cancels the other half.
ReceiveFails ==
    /\ Bridged("up", "receive")
    /\ SourceIs("up", "receive", "error")
          \/ (pipe["up"][1].n > 0 /\ SinkGone("up", "receive"))
    /\ Broken("error") /\ Idle

\* Nobody takes the response any more.
TransmitFails ==
    /\ Bridged("down", "transmit")
    /\ SinkGone("down", "transmit")
    /\ Broken("eof") /\ Idle

\* BUG: the end of the request ends the tunnel.
BugBridge ==
    /\ setup.client = "h2"
    /\ \/ Pump("up", "receive") \/ Pump("down", "transmit")
       \/ PumpEnds("down", "transmit")
       \/ Bridged("up", "receive") /\ SourceIs("up", "receive", "eof") /\ Broken("eof") /\ Idle
       \/ ReceiveFails \/ TransmitFails

Bridge ==
    /\ setup.client = "h2"
    /\ \/ Pump("up", "receive") \/ Pump("down", "transmit")
       \/ PumpEnds("up", "receive") \/ PumpEnds("down", "transmit")
       \/ ReceiveFails \/ TransmitFails

\* The bridge of the server's stream: two tasks, each of which just stops.  Its
\* application cannot write any more only when both have.
SendStops ==
    /\ Bridged("up", "send")
    /\ SinkGone("up", "send")
    /\ LET i == Place("up", "send")
       IN /\ mover' = [mover EXCEPT !["up"][i] = "done"]
          /\ pipe' = IF mover["down"][1] = "done"
                     THEN [pipe EXCEPT !["up"][i] = Unread(@)] ELSE pipe
    /\ Idle

AnswerStops ==
    /\ Bridged("down", "answer")
    /\ SourceIs("down", "answer", "eof") \/ SourceIs("down", "answer", "error")
          \/ (pipe["down"][1].n > 0 /\ SinkGone("down", "answer"))
    /\ LET i == Place("up", "send")
       IN /\ mover' = [mover EXCEPT !["down"][1] = "done"]
          /\ pipe' = [pipe EXCEPT !["down"][1] = Unread(@),
                                  !["down"][2] = Ended(@, "eof"),
                                  !["up"][i] = IF mover["up"][i] = "done" THEN Unread(@) ELSE @]
    /\ Idle

WebSocketBridge ==
    /\ setup.server = "h2"
    /\ \/ Pump("up", "send") \/ PumpEnds("up", "send") \/ SendStops
       \/ Pump("down", "answer") \/ AnswerStops

-----------------------------------------------------------------------------
Opening == Accept \/ Refuse \/ AcceptWebSocket \/ Upgraded \/ UpgradeFails \/ Connect \/ ConnectFails

Relay == (\E d \in Dir : Copy(d) \/ CopyEnds(d) \/ WsNext(d)) \/ TunnelEnds \/ WsSend \/ WsEnds

Sides == \E d \in Dir : Send(d) \/ End(d) \/ ResetBy(d) \/ Take(d)

Next == Opening \/ Relay \/ Bridge \/ WebSocketBridge \/ Sides

Spec == Init /\ [][Next]_vars

\* The tasks run, and each side reads and ends.
FairSpec ==
    /\ Spec
    /\ WF_vars(Opening \/ Relay \/ Bridge \/ WebSocketBridge)
    /\ WF_vars(\E d \in Dir : End(d) \/ Take(d))

-----------------------------------------------------------------------------
TypeOK ==
    /\ setup \in Setup
    /\ phase \in {"asked", "upgrade", "open", "over"}
    /\ answer \in {"none", "accepted", "refused"}
    /\ taken \in Dir \cup {"none"}
    /\ reported \in {"none", "connected", "closed"} /\ failed \in BOOLEAN
    /\ \A d \in Dir : \A i \in DOMAIN pipe[d] :
          pipe[d][i] \in [n : 0..PipeCap, end : {"open", "eof", "error"}, read : BOOLEAN]

\* Unless a side has reset, a direction of a byte stream ends only when its
\* sender has ended it, with all that was sent, whenever the other direction
\* ends: half-closing survives every bridge and copy in between.
HalfCloseIsWhole ==
    setup.speaks = "raw" /\ ~failed =>
        \A d \in Dir : got[d].end # "open" =>
            got[d].end = "eof" /\ pipe[d][1].end = "eof" /\ got[d].n = sent[d]

\* The tunnel is in a state its tasks know and cuts no direction short.
RelayIsWhole == TypeOK /\ HalfCloseIsWhole

\* However the reads fall, the recording of a raw stream is its beginning up to the
\* limit, less the chunks the full event channel refused, and one chunk, recorded
\* or refused, says that the stream was cut, exactly when it was.  A refused chunk
\* is a hole that nothing marks, and a refused mark is not sent again.
CaptureIsHonest ==
    \A d \in Dir :
        LET c == capture[d]
            beginning == 1..(IF c.total < MaxCapture THEN c.total ELSE MaxCapture)
        IN /\ c.lost.units \subseteq beginning
           /\ c.seen.units = beginning \ c.lost.units
           /\ c.seen.marks + c.lost.marks = IF c.total > MaxCapture THEN 1 ELSE 0

\* The tunnel ends once the client has, also when the server waits for that end
\* to end itself: every copy and bridge stops, both sides see the end or have
\* reset, and for a connection whose opening was handed to the event channel, which
\* drops what it has no room for, so was its closing, except one whose upgrade
\* failed after it had been announced.
Ends ==
    <>[]( answer = "accepted" =>
            /\ phase = "over"
            /\ \A d \in Dir : /\ \A i \in DOMAIN mover[d] : mover[d][i] = "done"
                              /\ got[d].end = "open" => failed
            /\ reported = "connected" => failed /\ setup.speaks = "ws" )
=============================================================================
