----------------------------- MODULE Http1Server -----------------------------
(***************************************************************************)
(* One HTTP/1 server connection (proxelar-proto/src/http1/connection.rs):  *)
(* the spawned reader task parses pipelined requests ahead into a bounded  *)
(* channel; the coordinator calls the service and writes the responses.    *)
(* A request is its position on the connection and the four facts about it *)
(* that steer control; the bytes written are left out but for what they    *)
(* are: a 100 Continue, a response, or the 400 of a malformed message.     *)
(***************************************************************************)
EXTENDS Naturals, Sequences

CONSTANTS
    MaxReq,   \* bound: heads the client sends on the connection
    Pipeline  \* ConnectionConfig.pipeline_capacity

ASSUME MaxReqAssumption   == MaxReq \in Nat \ {0}
ASSUME PipelineAssumption == Pipeline \in Nat \ {0}

VARIABLES
    read,     \* requests whose head was parsed
    kind,     \* what each of them asked for
    rd,       \* where the reader task is
    err,      \* the error it has to report
    pipe,     \* the channel between the two tasks
    chan,     \* frames in the body channel of each request, capacity 1
    decision, \* the upgrade oneshot of each request
    co,       \* where the coordinator is
    cur,      \* the request it took last
    reply,    \* what the service decided about it
    out,      \* history: what was written to the client
    result    \* what serve_connection_with_upgrades returned

vars == <<read, kind, rd, err, pipe, chan, decision, co, cur, reply, out, result>>
reader == <<read, kind, rd, err>>
coordinator == <<co, cur, reply, out>>

Req == 1..MaxReq

\* Expect: 100-continue; CONNECT or Upgrade; no keep-alive; a body follows.
Kind == [expect : BOOLEAN, upgrade : BOOLEAN, close : BOOLEAN, body : BOOLEAN]

NoKind == [expect |-> FALSE, upgrade |-> FALSE, close |-> FALSE, body |-> FALSE]

\* "malformed" is answered with 400, a "fault" (timeout, I/O) is not.
Error == {"malformed", "fault"}

Reading == {"head", "enqueue", "body", "report", "decision"}
Ended   == {"closed", "upgrade", "failed", "aborted"}

Init ==
    /\ read = 0
    /\ kind = [i \in Req |-> NoKind]
    /\ rd = "head"
    /\ err = "none"
    /\ pipe = <<>>
    /\ chan = [i \in Req |-> 0]
    /\ decision = [i \in Req |-> "none"]
    /\ co = "recv"
    /\ cur = 0
    /\ reply = [accept |-> FALSE, close |-> FALSE]
    /\ out = <<>>
    /\ result = "none"

-----------------------------------------------------------------------------
(* The reader: read_server_requests and read_body.                         *)

\* request_rx is gone: the future that owned it was dropped.
ReceiverGone == co = "dropped"

\* The service no longer holds the body of request i.
BodyDropped(i) ==
    \/ ReceiverGone
    \/ i < cur
    \/ i = cur /\ co \notin {"continue", "call", "write"}

\* body_tx.send: waits for room, or fails at once and is ignored.
BodyRoom(i) == chan[i] = 0 \/ BodyDropped(i)

PutFrame(i) ==
    chan' = IF BodyDropped(i) THEN chan ELSE [chan EXCEPT ![i] = @ + 1]

ReadHead(k) ==
    /\ rd = "head"
    /\ read < MaxReq
    /\ read' = read + 1
    /\ kind' = [kind EXCEPT ![read + 1] = k]
    /\ rd' = "enqueue"
    /\ UNCHANGED <<err, pipe, chan, decision, coordinator, result>>

\* EOF between two requests.
ReadEof ==
    /\ rd = "head"
    /\ rd' = "closed"
    /\ UNCHANGED <<read, kind, err, pipe, chan, decision, coordinator, result>>

\* EOF inside a head, a head that does not parse, or a read timeout.
HeadFault(e) ==
    /\ rd = "head"
    /\ rd' = "report"
    /\ err' = e
    /\ UNCHANGED <<read, kind, pipe, chan, decision, coordinator, result>>

\* request_tx.send waits for room in the pipeline.
PipelineRoom == Len(pipe) < Pipeline

BugSendInbound(x) == pipe' = <<x>> \o pipe

SendInbound(x) == pipe' = Append(pipe, x)

Enqueue ==
    /\ rd = "enqueue"
    /\ \/ ReceiverGone /\ rd' = "closed" /\ UNCHANGED pipe
       \/ /\ ~ReceiverGone
          /\ PipelineRoom
          /\ SendInbound(<<"request", read>>)
          /\ rd' = "body"
    /\ UNCHANGED <<read, kind, err, chan, decision, coordinator, result>>

BodyFrame ==
    /\ rd = "body"
    /\ kind[read].body
    /\ BodyRoom(read)
    /\ PutFrame(read)
    /\ UNCHANGED <<reader, pipe, decision, coordinator, result>>

\* The message is complete: where the loop goes on when no upgrade is pending.
AfterMessage == IF kind[read].close THEN "closed" ELSE "head"

AfterBody == IF kind[read].upgrade THEN "decision" ELSE AfterMessage

BodyEnd ==
    /\ rd = "body"
    /\ rd' = AfterBody
    /\ UNCHANGED <<read, kind, err, pipe, chan, decision, coordinator, result>>

\* The body is malformed, ends early or times out; the error goes to the
\* service through the body channel first.
BodyFault(e) ==
    /\ rd = "body"
    /\ kind[read].body
    /\ BodyRoom(read)
    /\ PutFrame(read)
    /\ rd' = "report"
    /\ err' = e
    /\ UNCHANGED <<read, kind, pipe, decision, coordinator, result>>

\* The error is queued behind the requests it follows.
Report ==
    /\ rd = "report"
    /\ \/ ReceiverGone /\ UNCHANGED pipe
       \/ ~ReceiverGone /\ PipelineRoom /\ SendInbound(<<err, read>>)
    /\ rd' = "failed"
    /\ UNCHANGED <<read, kind, err, chan, decision, coordinator, result>>

\* Nothing is read while an upgrade is undecided.
AwaitDecision ==
    /\ rd = "decision"
    /\ \/ decision[read] = "yes" /\ rd' = "upgrade"
       \/ decision[read] = "no" /\ rd' = AfterMessage
       \/ decision[read] = "none" /\ ReceiverGone /\ rd' = "closed"
    /\ UNCHANGED <<read, kind, err, pipe, chan, decision, coordinator, result>>

-----------------------------------------------------------------------------
(* The coordinator.                                                        *)

Write(x) == out' = Append(out, x)

Fail == co' = "error"

RecvRequest ==
    /\ co = "recv"
    /\ pipe # <<>>
    /\ Head(pipe)[1] = "request"
    /\ cur' = Head(pipe)[2]
    /\ pipe' = Tail(pipe)
    /\ co' = IF kind[Head(pipe)[2]].expect THEN "continue" ELSE "call"
    /\ UNCHANGED <<reader, chan, decision, reply, out, result>>

RecvError ==
    /\ co = "recv"
    /\ pipe # <<>>
    /\ Head(pipe)[1] \in Error
    /\ pipe' = Tail(pipe)
    /\ co' = IF Head(pipe)[1] = "malformed" THEN "bad" ELSE "error"
    /\ UNCHANGED <<reader, chan, decision, cur, reply, out, result>>

\* The reader task has returned and the channel is drained.
RecvClosed ==
    /\ co = "recv"
    /\ pipe = <<>>
    /\ rd \in Ended
    /\ co' = "closed"
    /\ UNCHANGED <<reader, pipe, chan, decision, cur, reply, out, result>>

WriteContinue ==
    /\ co = "continue"
    /\ Write(<<"100", cur>>)
    /\ co' = "call"
    /\ UNCHANGED <<reader, pipe, chan, decision, cur, reply, result>>

\* The service, or the response body it returned, takes a frame.
ServiceReads ==
    /\ co \in {"call", "write"}
    /\ chan[cur] > 0
    /\ chan' = [chan EXCEPT ![cur] = @ - 1]
    /\ UNCHANGED <<reader, pipe, decision, coordinator, result>>

\* service.call fails, or an explicit service_timeout passes.
ServiceFails ==
    /\ co = "call"
    /\ Fail
    /\ UNCHANGED <<reader, pipe, chan, decision, cur, reply, out, result>>

\* The response head is written.  accept: 2xx to a CONNECT, or 101.
Respond(accept, close) ==
    /\ co = "call"
    /\ accept => kind[cur].upgrade
    /\ reply' = [accept |-> accept, close |-> close \/ kind[cur].close]
    /\ Write(<<"response", cur>>)
    /\ co' = "write"
    /\ UNCHANGED <<reader, pipe, chan, decision, cur, result>>

BugKeepsServing == IF reply.accept THEN "upgraded" ELSE "recv"

\* An accepted upgrade ends the loop even if the response would close.
AfterResponse ==
    IF reply.accept THEN "upgraded" ELSE IF reply.close THEN "stop" ELSE "recv"

BugDecide == decision' = [decision EXCEPT ![cur] = IF reply.accept THEN "yes" ELSE @]

\* upgrade_decision.send: a pending upgrade is decided, either way.
Decide ==
    decision' = IF kind[cur].upgrade
                THEN [decision EXCEPT ![cur] = IF reply.accept THEN "yes" ELSE "no"]
                ELSE decision

\* The body is written and flushed.
FinishResponse ==
    /\ co = "write"
    /\ Decide
    /\ co' = AfterResponse
    /\ UNCHANGED <<reader, pipe, chan, cur, reply, out, result>>

BadRequest ==
    /\ co = "bad"
    /\ Write(<<"400", 0>>)
    /\ co' = "stop"
    /\ UNCHANGED <<reader, pipe, chan, decision, cur, reply, result>>

\* A write to the client fails or times out.
WriteFails ==
    /\ co \in {"continue", "write", "bad"}
    /\ Fail
    /\ UNCHANGED <<reader, pipe, chan, decision, cur, reply, out, result>>

\* After Stop or an error the reader task is aborted and joined.
Abort ==
    /\ co \in {"stop", "error"}
    /\ result = "none"
    /\ rd' = IF rd \in Ended THEN rd ELSE "aborted"
    /\ result' = IF co = "stop" THEN "closed" ELSE "error"
    /\ UNCHANGED <<read, kind, err, pipe, chan, decision, coordinator>>

\* After the channel closed, or an upgrade was accepted, it is joined.
Join ==
    /\ co \in {"closed", "upgraded"}
    /\ result = "none"
    /\ rd \in Ended
    /\ result' = CASE rd = "failed"  -> "error"
                   [] rd = "closed"  -> "closed"
                   [] rd = "upgrade" -> IF co = "upgraded" THEN "upgraded" ELSE "unmatched"
    /\ UNCHANGED <<reader, pipe, chan, decision, coordinator>>

\* The future of the connection is dropped; the reader task is detached.
Drop ==
    /\ result = "none"
    /\ co # "dropped"
    /\ co' = "dropped"
    /\ pipe' = <<>>
    /\ UNCHANGED <<reader, chan, decision, cur, reply, out, result>>

-----------------------------------------------------------------------------
ReaderStep ==
    \/ \E k \in Kind : ReadHead(k)
    \/ ReadEof \/ \E e \in Error : HeadFault(e)
    \/ Enqueue
    \/ BodyFrame \/ BodyEnd \/ \E e \in Error : BodyFault(e)
    \/ Report \/ AwaitDecision

CoordinatorStep ==
    \/ RecvRequest \/ RecvError \/ RecvClosed
    \/ WriteContinue \/ ServiceReads \/ ServiceFails
    \/ \E accept, close \in BOOLEAN : Respond(accept, close)
    \/ FinishResponse \/ BadRequest \/ WriteFails
    \/ Abort \/ Join

Next == ReaderStep \/ CoordinatorStep \/ Drop

Spec == Init /\ [][Next]_vars

\* Reads and writes are under timeouts, so a head and a body are read or fail
\* (a body is assumed not to be endless), and the service answers: it may
\* wait for a frame, but takes one that is there.
FairSpec ==
    /\ Spec
    /\ WF_vars(ReadEof \/ (\E k \in Kind : ReadHead(k)) \/ \E e \in Error : HeadFault(e))
    /\ WF_vars(Enqueue \/ Report \/ AwaitDecision)
    /\ WF_vars(BodyEnd \/ \E e \in Error : BodyFault(e))
    /\ WF_vars(RecvRequest \/ RecvError \/ RecvClosed \/ WriteContinue \/ BadRequest
               \/ FinishResponse \/ WriteFails \/ Abort \/ Join)
    /\ WF_vars(ServiceFails \/ \E accept, close \in BOOLEAN : Respond(accept, close))

-----------------------------------------------------------------------------
TypeOK ==
    /\ read \in 0..MaxReq
    /\ kind \in [Req -> Kind]
    /\ rd \in Reading \cup Ended
    /\ err \in Error \cup {"none"}
    /\ pipe \in Seq(({"request"} \cup Error) \X (0..MaxReq))
    /\ chan \in [Req -> 0..1]
    /\ decision \in [Req -> {"none", "yes", "no"}]
    /\ co \in {"recv", "continue", "call", "write", "bad", "stop", "error",
               "closed", "upgraded", "dropped"}
    /\ cur \in 0..MaxReq
    /\ reply \in [accept : BOOLEAN, close : BOOLEAN]
    /\ out \in Seq({"100", "response", "400"} \X (0..MaxReq))
    /\ result \in {"none", "closed", "upgraded", "error", "unmatched"}

Answered(n) == {out[k][2] : k \in {j \in 1..n : out[j][1] = "response"}}

\* What the client reads is in request order: response i follows responses
\* 1..i-1, and a 100 Continue stands right before the response it belongs to,
\* only where it was asked for, however far the reader has read ahead.  A 400
\* answers what could not be parsed, after every request before it.
InOrder ==
    \A k \in DOMAIN out :
        LET i == out[k][2] IN
        \/ out[k][1] = "400" /\ k = Len(out) /\ Answered(k) = 1..read
        \/ out[k][1] = "response" /\ Answered(k - 1) = 1..(i - 1)
        \/ out[k][1] = "100" /\ kind[i].expect /\ Answered(k - 1) = 1..(i - 1)

\* After a closing response or an accepted upgrade nothing more is written:
\* neither the response to a request read ahead nor the 400 of a bad one.
SilentAfterEnd == [][reply.accept \/ reply.close => out' = out]_vars

\* No byte after a request that may switch protocols, or that closes, is parsed
\* as another request before that is settled: the tunnel gets its first bytes.
NothingParsedPast ==
    \A i \in Req : i < read =>
        /\ kind[i].upgrade => decision[i] = "no"
        /\ ~kind[i].close

\* The two tasks agree on how the connection ends: an accepted upgrade is
\* handed over or fails, it is not closed and never "unmatched".
EndsAgree ==
    /\ result # "unmatched"
    /\ result = "upgraded" <=> rd = "upgrade" /\ result # "none"
    /\ co = "upgraded" => result \in {"none", "upgraded", "error"}

\* The connection serves in order: the client's bytes are parsed as what they are,
\* answered one after the other, and both tasks end it in the same way.
ServesInOrder == TypeOK /\ InOrder /\ NothingParsedPast /\ EndsAgree

\* Every request that was parsed is answered and lets the reader go on, whatever
\* became of its upgrade, or the connection has ended.
EveryRequestSettles ==
    \A i \in Req :
        (read >= i) ~> \/ i \in Answered(Len(out)) /\ ~(read = i /\ rd = "decision")
                       \/ result # "none" \/ co = "dropped"

\* The detached reader of a dropped connection ends too.
ReaderEnds == co = "dropped" ~> rd \in Ended

\* Whatever the client pipelines and the handler answers, nobody is left waiting:
\* every request settles and the reader of a dropped connection ends.
ConnectionSettles == EveryRequestSettles /\ ReaderEnds
=============================================================================
