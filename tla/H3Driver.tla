------------------------------ MODULE H3Driver ------------------------------
(***************************************************************************)
(* The task that owns one QUIC connection and the listener that routes     *)
(* datagrams to such tasks (proxyapi proxy/http3/driver.rs), with the      *)
(* application on either side of the driver: the service of a server, the  *)
(* callers of a client (proxy/http3.rs).                                   *)
(*                                                                         *)
(* quiche is external: it keeps the frames of a stream in order, reports a *)
(* DATA frame as an edge-triggered event and hides what follows it until   *)
(* the data has been read.  A body is a number of chunks.  Packets, loss   *)
(* and encryption are quiche's and left out.                               *)
(***************************************************************************)
EXTENDS Naturals, Sequences, FiniteSets

CONSTANTS
    Stream,       \* requests of the connection
    Setup,        \* role, kinds of the requests and the peer's SETTINGS of a run
    MaxData,      \* bound: chunks of one body
    ChannelCap,   \* frames a body channel holds
    RequestCap,   \* capacity of a client's request channel
    MaxRequests,  \* DEFAULT_MAX_REQUESTS_PER_CONNECTION
    MaxInfo,      \* informational responses a client takes
    Conn,         \* bound: connections the listener accepts
    Cid,          \* connection ids clients choose
    MaxConn       \* MAX_CONNECTIONS of the listener

Role == {"client", "server", "listener"}

ASSUME SetupAssumption ==
    Setup \subseteq [role : Role, kind : [Stream -> {"get", "bare", "head", "websocket", "unused"}],
                     settings : {"websocket", "plain"}]
ASSUME CapAssumption ==
    {ChannelCap, RequestCap, MaxRequests, MaxInfo, MaxConn} \subseteq Nat \ {0}
ASSUME BoundAssumption == MaxData \in Nat
\* The listener draws its ids at random: none is one that a client has chosen.
ASSUME CidAssumption == Cid \cap Conn = {}

VARIABLES
    role,     \* which side the driver is on
    driver,   \* "handshake", "up", "stopped"
    st,       \* one record for each stream, the application's side included
    chan,     \* requests of a client on their way to the driver
    clients,  \* "open", "closed" by GOAWAY, "gone" once the driver knows
    goaway,   \* the peer is draining
    settings, \* the peer's SETTINGS: what they will allow, and whether they are here
    seen,     \* requests_seen
    routes,   \* the listener's table: connection id -> connection
    conn,     \* connections of the listener
    misled    \* history: datagrams given to a connection they were not for

vars == <<role, driver, st, chan, clients, goaway, settings, seen, routes, conn, misled>>

transport == <<role, clients, settings, routes, conn, misled>>
listener  == <<routes, conn, misled>>

\* No Content-Length: a number no body reaches.
Any == MaxData + 1

Fresh(k) ==
    [kind |-> k, life |-> IF k = "unused" THEN "gone" ELSE "idle",
     \* from the peer
     wire |-> <<>>, began |-> FALSE, sentN |-> 0, sentEnd |-> "no", length |-> Any,
     stop |-> FALSE,
     readable |-> FALSE, readDone |-> FALSE, pendIn |-> <<>>, inq |-> <<>>, left |-> Any,
     recv |-> TRUE, gotN |-> 0, gotEnd |-> "no",
     \* to the peer
     task |-> "none", head |-> FALSE, taskN |-> 0, outq |-> <<>>, pendOut |-> <<>>,
     writeDone |-> FALSE, peerN |-> 0, peerEnd |-> "no",
     \* the caller of a client
     response |-> "none", infos |-> 0]

Init ==
    /\ \E x \in Setup :
          /\ role = x.role
          /\ st = [s \in Stream |-> Fresh(x.kind[s])]
          /\ settings = [here |-> FALSE, allow |-> x.settings]
    /\ driver = "handshake"
    /\ chan = <<>> /\ clients = "open"
    /\ goaway = FALSE /\ seen = 0
    /\ routes = {} /\ misled = FALSE
    /\ conn = [c \in Conn |-> [at |-> "none", initial |-> 0]]

-----------------------------------------------------------------------------
\* What leaves the table: the caller gets an error, the task is aborted, the
\* body channel closes behind what it holds.
Removed(x) ==
    [x EXCEPT !.life = "gone", !.wire = <<>>, !.pendIn = <<>>, !.readable = FALSE,
              !.outq = <<>>, !.pendOut = <<>>, !.stop = FALSE, !.left = Any, !.infos = 0,
              !.readDone = TRUE, !.writeDone = TRUE,
              !.task = IF @ = "run" THEN "aborted" ELSE @,
              !.response = IF @ = "waiting" THEN "error" ELSE @]

\* Both directions are shut down; the peer sees a reset unless it had the end.
Reset(x) == Removed([x EXCEPT !.peerEnd = IF @ = "no" THEN "reset" ELSE @])

-----------------------------------------------------------------------------
\* The peer.  A message is a head, data, perhaps trailers, and the end; a bare one
\* has no body.
PeerFrame(s, f, x) ==
    /\ role # "listener" /\ driver = "up"
    /\ st[s].sentEnd = "no"
    /\ \/ st[s].life = "open"
       \/ role = "server" /\ st[s].life = "idle" /\ (st[s].wire = <<>> => f \in {"head", "bad"})
    /\ st' = [st EXCEPT ![s] = [x EXCEPT !.wire = Append(@, f)]]
    /\ UNCHANGED <<transport, driver, chan, goaway, seen>>

PeerHead(s) ==
    /\ ~st[s].began
    /\ \/ \E n \in IF st[s].kind = "get" THEN {Any} \cup 0..MaxData ELSE {Any} :
             PeerFrame(s, "head", [st[s] EXCEPT !.began = TRUE, !.length = n])
       \/ PeerFrame(s, "bad", [st[s] EXCEPT !.began = TRUE, !.sentEnd = "reset"])
       \/ role = "client" /\ st[s].infos + Len(st[s].wire) <= MaxInfo /\ PeerFrame(s, "info", st[s])

PeerData(s) ==
    /\ st[s].began /\ st[s].sentN < MaxData /\ st[s].kind # "bare"
    /\ PeerFrame(s, "data", [st[s] EXCEPT !.sentN = @ + 1])

PeerEnds(s) ==
    \/ PeerFrame(s, "fin", [st[s] EXCEPT !.sentEnd = "fin"])
    \/ PeerFrame(s, "reset", [st[s] EXCEPT !.sentEnd = "reset"])
    \/ /\ st[s].began /\ st[s].kind # "bare"
       /\ LET x == [st[s] EXCEPT !.sentEnd = "fin", !.wire = Append(@, "trailers")]
          IN PeerFrame(s, "fin", x)

\* STOP_SENDING: the next write of the stream fails.
PeerStops(s) ==
    /\ driver = "up" /\ st[s].life = "open" /\ ~st[s].writeDone
    /\ st' = [st EXCEPT ![s].stop = TRUE]
    /\ UNCHANGED <<transport, driver, chan, goaway, seen>>

Settings ==
    /\ role = "client" /\ driver = "up" /\ ~settings.here
    /\ settings' = [settings EXCEPT !.here = TRUE]
    /\ UNCHANGED <<role, driver, st, chan, clients, goaway, seen, listener>>

-----------------------------------------------------------------------------
\* Every sender and receiver the driver holds is dropped with it.
Stopped ==
    /\ driver' = "stopped"
    /\ st' = [s \in Stream |->
                 CASE st[s].life = "open" -> Reset(st[s])
                   [] st[s].life \in {"queued", "pending"} -> Removed(st[s])
                   [] OTHER -> [st[s] EXCEPT !.wire = <<>>]]
    /\ chan' = <<>>
    /\ UNCHANGED <<transport, goaway, seen>>

Handshake ==
    /\ role # "listener" /\ driver = "handshake"
    /\ \/ driver' = "up" /\ UNCHANGED <<transport, st, chan, goaway, seen>>
       \/ Stopped

\* The peer closes, the idle timeout expires, quiche reports a violation.
ConnectionCloses == driver = "up" /\ Stopped

\* A client's driver ends once nobody can ask it and nothing is open.
DriverEnds ==
    /\ role = "client" /\ driver = "up"
    /\ clients = "gone" /\ \A s \in Stream : st[s].life \notin {"open", "pending"}
    /\ Stopped

GoAway ==
    /\ role = "client" /\ driver = "up" /\ ~goaway
    /\ goaway' = TRUE
    /\ clients' = IF clients = "open" THEN "closed" ELSE clients
    /\ UNCHANGED <<role, driver, st, chan, settings, seen, listener>>

-----------------------------------------------------------------------------
\* events: what receive_headers and the other handlers make of a frame.
Message(x) ==
    IF x.response \in {"waiting", "dropped"}
    THEN [x EXCEPT !.response = IF @ = "waiting" THEN "ok" ELSE "late",
                   !.recv = x.response = "waiting",
                   !.left = IF x.kind = "head" THEN 0
                            ELSE IF x.kind = "websocket" THEN Any ELSE x.length]
    ELSE [x EXCEPT !.pendIn = Append(@, "trailers")]

Informational(x) ==
    IF x.infos < MaxInfo THEN [x EXCEPT !.infos = @ + 1] ELSE Reset(x)

Received(x, f) ==
    CASE f \in {"head", "trailers"} -> Message(x)
      [] f = "info"  -> Informational(x)
      [] f = "bad"   -> Reset(x)
      [] f = "data"  -> [x EXCEPT !.readable = TRUE]
      [] f = "fin"   -> [x EXCEPT !.readDone = TRUE, !.pendIn = Append(@, "end")]
      [] OTHER       -> Reset(x)

\* A stream the driver does not know: a request, up to the limit.
Accepted(x, f) ==
    IF f = "head" /\ seen < MaxRequests
    THEN [x EXCEPT !.life = "open", !.task = "run", !.left = x.length]
    ELSE Reset(x)

\* Data is announced once until it has been read; what follows it is hidden.
HasEvent(x) == x.wire # <<>> /\ (Head(x.wire) = "data" => ~x.readable)

Event(s) ==
    /\ driver = "up" /\ HasEvent(st[s])
    /\ LET f == Head(st[s].wire)
           x == IF f = "data" THEN st[s] ELSE [st[s] EXCEPT !.wire = Tail(@)]
           y == IF x.life = "open" THEN Received(x, f) ELSE Accepted(x, f)
       IN /\ st' = [st EXCEPT ![s] = y]
          /\ seen' = IF x.life = "idle" /\ y.life = "open" THEN seen + 1 ELSE seen
    /\ UNCHANGED <<transport, driver, chan, goaway>>

-----------------------------------------------------------------------------
\* poll_application: the request a client has been asked to send.
Ask(s) ==
    /\ role = "client" /\ driver # "handshake"
    /\ st[s].life = "idle"
    /\ clients = "gone" => goaway \/ driver = "stopped"
    /\ IF driver = "stopped" \/ clients # "open"
       THEN st' = [st EXCEPT ![s].life = "gone", ![s].response = "error"] /\ UNCHANGED chan
       ELSE /\ Len(chan) < RequestCap
            /\ chan' = Append(chan, s)
            /\ st' = [st EXCEPT ![s].life = "queued", ![s].response = "waiting"]
    /\ UNCHANGED <<transport, driver, goaway, seen>>

GiveUp(s) ==
    /\ st[s].response = "waiting"
    /\ st' = [st EXCEPT ![s].response = "dropped"]
    /\ UNCHANGED <<transport, driver, chan, goaway, seen>>

Pending == {s \in Stream : st[s].life = "pending"}

TakeRequest ==
    /\ driver = "up" /\ Pending = {}
    /\ chan # <<>>
    /\ chan' = Tail(chan)
    /\ st' = [st EXCEPT ![Head(chan)].life = "pending"]
    /\ UNCHANGED <<transport, driver, goaway, seen>>

\* Every handle of the client is gone, or GOAWAY has closed the channel.
LastClient ==
    /\ role = "client" /\ driver = "up" /\ Pending = {} /\ chan = <<>>
    /\ clients # "gone"
    /\ clients = "closed" \/ \A s \in Stream : st[s].response # "waiting"
    /\ clients' = "gone"
    /\ UNCHANGED <<role, driver, st, chan, goaway, settings, seen, listener>>

\* Nothing is sent for a caller that has gone, to a peer that lacks extended
\* CONNECT, or to one that is draining.
Submitted(x) ==
    CASE x.response # "waiting" -> {Removed(x)}
      [] x.kind = "websocket" /\ settings.allow = "plain" -> {Removed(x)}
      [] goaway -> {Removed(x)}
      [] OTHER -> {Removed(x), [x EXCEPT !.life = "open", !.task = "run"]}

\* An extended CONNECT waits for the peer's SETTINGS and everything behind it.
Submit(s) ==
    /\ driver = "up" /\ s \in Pending
    /\ st[s].kind = "websocket" => settings.here
    /\ \E x \in Submitted(st[s]) : st' = [st EXCEPT ![s] = x]
    /\ UNCHANGED <<transport, driver, chan, goaway, seen>>

-----------------------------------------------------------------------------
\* poll_application: one pass over one stream.
InboundOpen(x) == x.recv

\* The application has dropped the body or the caller is gone.  A client gives
\* the stream up, a server only stops reading.
Abandoned(x) ==
    \/ role = "client" /\ ~x.readDone /\ ~InboundOpen(x)
    \/ x.response = "dropped"

NoMoreReading(x) ==
    [x EXCEPT !.readDone = TRUE, !.readable = FALSE, !.pendIn = <<>>, !.wire = <<>>]

\* BUG: a task that ends without finishing its body ends the stream like one
\* that has.
BugUnfinished(x) == Removed([x EXCEPT !.peerEnd = "fin"])

Unfinished(x) == Reset(x)

Sent(x, f) ==
    [x EXCEPT !.pendOut = <<>>,
              !.writeDone = f \in {"fin", "trailers"},
              !.peerN = IF f = "data" THEN @ + 1 ELSE @,
              !.peerEnd = IF f \in {"fin", "trailers"} THEN "fin" ELSE @]

\* The frame at hand is sent, in part or whole, or waits for credit; a failed
\* write or an error of the task resets the stream.
Written(x) ==
    IF x.writeDone THEN {x}
    ELSE IF x.pendOut = <<>> /\ x.outq = <<>>
         THEN IF x.task \in {"done", "failed"} THEN {Unfinished(x)} ELSE {x}
         ELSE LET y == IF x.pendOut # <<>> THEN x
                       ELSE [x EXCEPT !.pendOut = <<Head(x.outq)>>, !.outq = Tail(@)]
                  f == y.pendOut[1]
              IN IF f = "error" \/ x.stop THEN {Reset(y)} ELSE {y, Sent(y, f)}

\* check_content_length.
LengthOk(x, n, end) == x.left = Any \/ (n <= x.left /\ (end => n = x.left))

Give(x, f) == [x EXCEPT !.inq = Append(@, f)]

ReadData(x) ==
    IF LengthOk(x, 1, FALSE)
    THEN Give([x EXCEPT !.wire = Tail(@), !.left = IF @ = Any THEN Any ELSE @ - 1], "data")
    ELSE Reset(Give(x, "error"))

ReadPending(x) ==
    IF x.pendIn = <<>> THEN x
    ELSE LET f == Head(x.pendIn)
             y == [x EXCEPT !.pendIn = Tail(@)]
         IN IF f \in {"end", "trailers"} /\ ~LengthOk(x, 0, TRUE)
            THEN Reset(Give(y, "error"))
            ELSE Give(y, f)

\* DATA is drained before trailers or the end are delivered, and neither while
\* the application's channel is full.
Read(x) ==
    IF x.life # "open" \/ ~(x.readable \/ x.pendIn # <<>> \/ ~x.readDone) THEN x
    ELSE IF ~InboundOpen(x) THEN NoMoreReading(x)
    ELSE IF Len(x.inq) >= ChannelCap THEN x
    ELSE IF x.readable /\ x.wire # <<>> /\ Head(x.wire) = "data" THEN ReadData(x)
    ELSE IF x.readable /\ x.wire # <<>> /\ Head(x.wire) = "reset"
         THEN ReadPending([x EXCEPT !.pendIn = <<"error">>, !.readable = FALSE,
                                    !.readDone = TRUE, !.wire = <<>>])
    ELSE ReadPending([x EXCEPT !.readable = FALSE])

\* BUG: a stream whose request the service has not read to the end stays.
BugEnded(x) == x.readDone /\ x.writeDone /\ x.pendIn = <<>> /\ x.gotEnd # "no"

Ended(x) == x.readDone /\ x.writeDone /\ x.pendIn = <<>> /\ ~x.readable

Finish(x) == IF x.life = "open" /\ Ended(x) THEN Removed(x) ELSE x

Polled(x) ==
    IF Abandoned(x) THEN {Reset(x)}
    ELSE {Finish(Read(y)) : y \in Written(IF ~x.readDone /\ ~InboundOpen(x)
                                          THEN NoMoreReading(x) ELSE x)}

\* events is run to its end before the streams are.
Poll(s) ==
    /\ driver = "up" /\ st[s].life = "open"
    /\ \A t \in Stream : HasEvent(st[t]) => Head(st[t].wire) = "reset" /\ st[t].readable
    /\ \E x \in Polled(st[s]) : st' = [st EXCEPT ![s] = x]
    /\ UNCHANGED <<transport, driver, chan, goaway, seen>>

-----------------------------------------------------------------------------
\* The application.  A server's task sends a head, the body and its end; a
\* client's the body of the request.  One that fails says so, except that a
\* server whose response cannot be sent on just ends.
Frames(x) ==
    IF role = "server" /\ ~x.head THEN {"head", "error"}
    ELSE {"fin", "trailers"} \cup (IF x.taskN < MaxData THEN {"data"} ELSE {})
            \cup (IF role = "client" THEN {"error"} ELSE {})

TaskSends(s) ==
    /\ st[s].task = "run"
    /\ Len(st[s].outq) < ChannelCap
    /\ \E f \in Frames(st[s]) :
          st' = [st EXCEPT ![s] =
                    [st[s] EXCEPT !.outq = Append(@, f),
                                  !.head = @ \/ f = "head",
                                  !.taskN = IF f = "data" THEN @ + 1 ELSE @,
                                  !.task = IF f \in {"fin", "trailers"} THEN "done"
                                           ELSE IF f = "error" THEN "failed" ELSE @]]
    /\ UNCHANGED <<transport, driver, chan, goaway, seen>>

TaskFails(s) ==
    /\ role = "server" /\ st[s].task = "run"
    /\ st' = [st EXCEPT ![s].task = "failed"]
    /\ UNCHANGED <<transport, driver, chan, goaway, seen>>

HasBody(x) == x.recv /\ (x.response = "ok" \/ (role = "server" /\ x.life # "idle"))

\* H3BodyStream: a channel that closes before the end is an error.
ReadBody(s) ==
    LET x == st[s]
        Got(end) == [x EXCEPT !.gotEnd = end, !.inq = IF @ = <<>> THEN @ ELSE Tail(@)]
    IN /\ HasBody(x) /\ x.gotEnd = "no"
       /\ \/ /\ x.inq # <<>>
             /\ st' = [st EXCEPT ![s] =
                    CASE Head(x.inq) = "data" -> [Got("no") EXCEPT !.gotN = @ + 1]
                      [] Head(x.inq) = "trailers" -> Got("no")
                      [] Head(x.inq) = "end" -> Got("clean")
                      [] OTHER -> Got("error")]
          \/ /\ x.inq = <<>> /\ x.life = "gone"
             /\ st' = [st EXCEPT ![s] = Got("error")]
       /\ UNCHANGED <<transport, driver, chan, goaway, seen>>

DropBody(s) ==
    /\ HasBody(st[s])
    /\ st' = [st EXCEPT ![s].recv = FALSE, ![s].inq = <<>>]
    /\ UNCHANGED <<transport, driver, chan, goaway, seen>>

-----------------------------------------------------------------------------
\* H3Listener::serve.  The id the listener gives a connection is the connection
\* itself here.
Route(id) == {c \in Conn : <<id, c>> \in routes}

Tasks == {c \in Conn : conn[c].at \in {"run", "done"}}

\* BUG: the routes of a connection that has ended are as good as removed.
BugKnown(id) == \E c \in Route(id) : conn[c].at = "run"

\* A datagram for a known id belongs to that connection, even one that has just
\* ended: it is lost then, and the client sends it again.
Known(id) == Route(id) # {}

\* Who the sender of a datagram means: the connection that has the id as its own
\* or, before it has answered, as the one the client chose.
Meant(id) == {c \in Conn : conn[c].at = "run" /\ (c = id \/ conn[c].initial = id)}

Datagram(id) ==
    /\ role = "listener"
    /\ \/ /\ Known(id)
          /\ misled' = (misled \/ \E c \in Route(id) : conn[c].at = "run" /\ c \notin Meant(id))
          /\ UNCHANGED <<routes, conn>>
       \/ /\ ~Known(id) /\ id \in Cid
          /\ Cardinality(Tasks) < MaxConn
          /\ \E c \in Conn :
                /\ conn[c].at = "none"
                /\ \A d \in Conn : d < c => conn[d].at # "none"
                /\ conn' = [conn EXCEPT ![c] = [at |-> "run", initial |-> id]]
                /\ routes' = {r \in routes : r[1] # id} \cup {<<id, c>>, <<c, c>>}
          /\ UNCHANGED misled
    /\ UNCHANGED <<role, driver, st, chan, clients, goaway, settings, seen>>

TaskEnds(c) ==
    /\ conn[c].at = "run"
    /\ conn' = [conn EXCEPT ![c].at = "done"]
    /\ UNCHANGED <<role, driver, st, chan, clients, goaway, settings, seen, routes, misled>>

\* join_next: both routes are removed by id.
Joined(c) ==
    /\ conn[c].at = "done"
    /\ conn' = [conn EXCEPT ![c].at = "joined"]
    /\ routes' = {r \in routes : r[1] \notin {c, conn[c].initial}}
    /\ UNCHANGED <<role, driver, st, chan, clients, goaway, settings, seen, misled>>

Listener ==
    \/ \E id \in Cid \cup Conn : Datagram(id)
    \/ \E c \in Conn : TaskEnds(c) \/ Joined(c)

-----------------------------------------------------------------------------
App(s) == ReadBody(s) \/ DropBody(s)

Task(s) == TaskSends(s) \/ TaskFails(s)

Peer(s) == PeerHead(s) \/ PeerData(s) \/ PeerEnds(s) \/ PeerStops(s)

Next ==
    \/ Handshake \/ ConnectionCloses \/ DriverEnds \/ GoAway \/ Settings
    \/ TakeRequest \/ LastClient \/ Listener
    \/ \E s \in Stream :
          Peer(s) \/ Event(s) \/ Ask(s) \/ GiveUp(s) \/ Submit(s) \/ Poll(s) \/ Task(s) \/ App(s)

Spec == Init /\ [][Next]_vars

\* The driver's loop runs, the peer keeps its side (it sends its SETTINGS, ends
\* its messages and grants credit), and the application uses its bodies up.  No
\* step is undone, so fairness to each group is fairness to each of its actions.
Driver == TakeRequest \/ \E s \in Stream : Event(s) \/ Submit(s) \/ Poll(s)

Outside == Settings \/ \E s \in Stream : PeerEnds(s) \/ Task(s) \/ App(s)

FairSpec == Spec /\ WF_vars(Driver) /\ WF_vars(Outside)

-----------------------------------------------------------------------------
TypeOK ==
    /\ role \in Role
    /\ driver \in {"handshake", "up", "stopped"}
    /\ clients \in {"open", "closed", "gone"}
    /\ goaway \in BOOLEAN /\ misled \in BOOLEAN
    /\ settings \in [here : BOOLEAN, allow : {"websocket", "plain"}]
    /\ seen \in 0..MaxRequests
    /\ chan \in Seq(Stream)
    /\ \A s \in Stream : st[s].life \in {"idle", "queued", "pending", "open", "gone"}

\* A body ends cleanly on one side only if it did on the other, whole: what the
\* application reads to the end is what the peer sent, to its last chunk and as
\* long as its Content-Length says, and a body the peer sees finished is one the
\* task finished.  Stops, resets, full channels and dropped bodies in between
\* give an error, never a shorter body.
EndsAreWhole ==
    \A s \in Stream :
        LET x == st[s]
        IN /\ x.gotEnd = "clean" => /\ x.sentEnd = "fin" /\ x.gotN = x.sentN
                                    /\ x.kind = "get" => x.length \in {Any, x.sentN}
                                    /\ role = "client" /\ x.kind = "head" => x.gotN = 0
           /\ x.peerEnd = "fin" => x.task = "done" /\ x.peerN = x.taskN

\* Streams are in a state the driver knows and end as they did on the other side.
MessagesAreWhole == TypeOK /\ EndsAreWhole

\* A connection that runs can be reached by its own id and by the one the client
\* chose, and a datagram never reaches another: removing the routes of an earlier
\* connection with the same client id does not take the later one's.
RoutesAreOwn ==
    /\ ~misled
    /\ \A c \in Conn : conn[c].at = "run" => Route(c) = {c} /\ Route(conn[c].initial) = {c}

\* Every request a client is asked to send is answered or refused, also behind
\* one that waits for the peer's SETTINGS and whose caller has gone; and every
\* stream leaves the table once its sides have ended it, whichever way: one that
\* stayed would keep the driver, its socket and its callers' client alive.
EverythingSettles ==
    <>[](\A s \in Stream : st[s].response # "waiting" /\ st[s].life # "open")
=============================================================================
