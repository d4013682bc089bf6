------------------------------ MODULE Http1Pool ------------------------------
(***************************************************************************)
(* The keep-alive pool of HTTP/1 upstream connections                      *)
(* (proxelar-proto/src/http1/connection.rs): Http1Pool, the Http1Client    *)
(* handle and the run_client task that drives each connection.             *)
(*                                                                         *)
(* One PoolKey: the entries of different keys share nothing but the mutex  *)
(* around the map.  A request is named by the task that sends it.  Bodies, *)
(* heads and framing are left out; what the server puts on the wire is     *)
(* only "something to read" and the exchange it arrived in.                *)
(***************************************************************************)
EXTENDS Naturals, FiniteSets

CONSTANTS
    Sender,     \* tasks in Http1Pool::send_with_upgrade, one request each
    Conn,       \* connections the connector can still open
    MaxPerKey,  \* MAX_CONNECTIONS_PER_KEY
    NoConn      \* "no connection"

ASSUME SenderAssumption ==
    Sender \cap {"free", "cmd", "driver", "none", "early"} = {}
ASSUME ConnAssumption   == IsFiniteSet(Conn) /\ NoConn \notin Conn
ASSUME MaxAssumption    == MaxPerKey \in Nat \ {0}

VARIABLES
    pool,         \* PoolEntry.clients
    connectLock,  \* holder of PoolEntry.connect_lock, or "none"
    pc,           \* where the task of each sender is
    conn,         \* the client that task works with
    reused,       \* ClientReservation.reused
    reply,        \* what its response oneshot holds
    phase,        \* where run_client is for each connection
    permit,       \* holder of the one permit of Http1Client.availability
    queue,        \* the command channel, capacity 1
    cur,          \* the command run_client has taken
    unread,       \* bytes to read: none, "early", or in the exchange of a sender
    written,      \* history: the connections each request was written to
    answer        \* history: the exchange the bytes of the response came from

vars == <<pool, connectLock, pc, conn, reused, reply,
          phase, permit, queue, cur, unread, written, answer>>

pooling == <<pool, connectLock, reused>>
history == <<written, answer>>

Location == {"start", "lock", "connect", "claim", "publish", "queue", "wait",
             "reserved", "await", "failed", "notsent", "ok", "error", "cancelled"}

Phase == {"unused", "idle", "encode", "exchange", "body",
          "stopping", "closing", "draining", "dead"}

Init ==
    /\ pool = {}
    /\ connectLock = "none"
    /\ pc = [s \in Sender |-> "start"]
    /\ conn = [s \in Sender |-> NoConn]
    /\ reused = [s \in Sender |-> FALSE]
    /\ reply = [s \in Sender |-> "none"]
    /\ phase = [c \in Conn |-> "unused"]
    /\ permit = [c \in Conn |-> "free"]
    /\ queue = [c \in Conn |-> "none"]
    /\ cur = [c \in Conn |-> "none"]
    /\ unread = [c \in Conn |-> "none"]
    /\ written = [s \in Sender |-> {}]
    /\ answer = [s \in Sender |-> "none"]

-----------------------------------------------------------------------------
\* command_tx.is_closed() is false.
Accepting(c) ==
    phase[c] \in {"idle", "encode", "exchange", "body", "stopping"}

\* The availability semaphore has not been closed.
Acquirable(c) == Accepting(c) \/ phase[c] = "closing"

\* The driver owns a command.
Busy(c) == phase[c] \in {"encode", "exchange", "body"}

BugWaiting(c) == {s \in Sender : pc[s] \in {"wait", "cancelled"} /\ conn[s] = c}

\* Tasks queued in the semaphore of c.
Waiting(c) == {s \in Sender : pc[s] = "wait" /\ conn[s] = c}

BugReleaseKeeps(c, W) == permit' = [permit EXCEPT ![c] = "free"]

\* A permit of c is dropped: the semaphore hands it to a task of W that waits
\* (tokio to the longest waiting, here to any), or keeps it.
Release(c, W) ==
    \E h \in IF W = {} THEN {"free"} ELSE W : permit' = [permit EXCEPT ![c] = h]

\* Some task, or the pool, still holds a command_tx of c.
HasHandle(c) ==
    \/ c \in pool
    \/ \E s \in Sender :
          /\ conn[s] = c
          /\ pc[s] \in {"claim", "publish", "queue", "wait", "reserved",
                        "await", "failed", "notsent"}

-----------------------------------------------------------------------------
(* choose_pool_client, under the mutex of the map: once on arrival, once   *)
(* more with the connect lock.                                             *)

Choosing(s) == pc[s] = "start" \/ (pc[s] = "lock" /\ connectLock = "none")

LiveClients == {c \in pool : Accepting(c)}

FreeClients == {c \in LiveClients : permit[c] = "free"}

\* PoolChoice::Reserved on a connection already in the pool.
ChooseReserved(s, c) ==
    /\ Choosing(s)
    /\ c \in FreeClients
    /\ pool' = LiveClients
    /\ permit' = [permit EXCEPT ![c] = s]
    /\ conn' = [conn EXCEPT ![s] = c]
    /\ reused' = [reused EXCEPT ![s] = TRUE]
    /\ pc' = [pc EXCEPT ![s] = "reserved"]
    /\ UNCHANGED <<connectLock, reply, phase, queue, cur, unread, history>>

\* PoolChoice::Connect: wait for the connect lock, or connect holding it.
ChooseConnect(s) ==
    /\ Choosing(s)
    /\ FreeClients = {}
    /\ Cardinality(LiveClients) < MaxPerKey
    /\ pool' = LiveClients
    /\ IF pc[s] = "start"
       THEN pc' = [pc EXCEPT ![s] = "lock"] /\ UNCHANGED connectLock
       ELSE pc' = [pc EXCEPT ![s] = "connect"] /\ connectLock' = s
    /\ UNCHANGED <<conn, reused, reply, phase, permit, queue, cur, unread, history>>

\* PoolChoice::Wait: a full pool, round robin over its clients.
ChooseWait(s, c) ==
    /\ Choosing(s)
    /\ FreeClients = {}
    /\ Cardinality(LiveClients) >= MaxPerKey
    /\ c \in LiveClients
    /\ pool' = LiveClients
    /\ conn' = [conn EXCEPT ![s] = c]
    /\ reused' = [reused EXCEPT ![s] = TRUE]
    /\ pc' = [pc EXCEPT ![s] = "queue"]
    /\ UNCHANGED <<connectLock, reply, phase, permit, queue, cur, unread, history>>

-----------------------------------------------------------------------------
(* The rest of acquire: a new connection, under the connect lock.          *)

ConnectFails(s) ==
    /\ pc[s] = "connect"
    /\ connectLock' = "none"
    /\ pc' = [pc EXCEPT ![s] = "error"]
    /\ UNCHANGED <<pool, conn, reused, reply, phase, permit, queue, cur, unread, history>>

\* Http1Client::new spawns run_client, which starts reading at once.
Connected(s, c) ==
    /\ pc[s] = "connect"
    /\ phase[c] = "unused"
    /\ phase' = [phase EXCEPT ![c] = "idle"]
    /\ conn' = [conn EXCEPT ![s] = c]
    /\ pc' = [pc EXCEPT ![s] = "claim"]
    /\ UNCHANGED <<pooling, reply, permit, queue, cur, unread, history>>

\* try_acquire_owned on the new connection.
Claim(s) ==
    /\ pc[s] = "claim"
    /\ Acquirable(conn[s])
    /\ permit' = [permit EXCEPT ![conn[s]] = s]
    /\ pc' = [pc EXCEPT ![s] = "publish"]
    /\ UNCHANGED <<pooling, conn, reply, phase, queue, cur, unread, history>>

BugClaimFails(s) ==
    /\ pc[s] = "claim"
    /\ ~Acquirable(conn[s])
    /\ pc' = [pc EXCEPT ![s] = "error"]
    /\ UNCHANGED <<pooling, conn, reply, phase, permit, queue, cur, unread, history>>

\* The server closed the new connection before the permit was taken.
ClaimFails(s) ==
    /\ pc[s] = "claim"
    /\ ~Acquirable(conn[s])
    /\ connectLock' = "none"
    /\ pc' = [pc EXCEPT ![s] = "error"]
    /\ UNCHANGED <<pool, conn, reused, reply, phase, permit, queue, cur, unread, history>>

\* The client joins the entry and the connect lock is released.
Publish(s) ==
    /\ pc[s] = "publish"
    /\ pool' = pool \cup {conn[s]}
    /\ connectLock' = "none"
    /\ reused' = [reused EXCEPT ![s] = FALSE]
    /\ pc' = [pc EXCEPT ![s] = "reserved"]
    /\ UNCHANGED <<conn, reply, phase, permit, queue, cur, unread, history>>

-----------------------------------------------------------------------------
(* Http1Client::send_request_recoverable and send_reserved.                *)

\* First poll of acquire_owned.
Enqueue(s) ==
    /\ pc[s] = "queue"
    /\ Acquirable(conn[s])
    /\ IF permit[conn[s]] = "free"
       THEN /\ permit' = [permit EXCEPT ![conn[s]] = s]
            /\ pc' = [pc EXCEPT ![s] = "reserved"]
       ELSE /\ pc' = [pc EXCEPT ![s] = "wait"]
            /\ UNCHANGED permit
    /\ UNCHANGED <<pooling, conn, reply, phase, queue, cur, unread, history>>

Granted(s) ==
    /\ pc[s] = "wait"
    /\ Acquirable(conn[s])
    /\ permit[conn[s]] = s
    /\ pc' = [pc EXCEPT ![s] = "reserved"]
    /\ UNCHANGED <<pooling, conn, reply, phase, permit, queue, cur, unread, history>>

\* acquire_owned finds the semaphore closed, a permit assigned or not.
Refused(s) ==
    /\ pc[s] \in {"queue", "wait"}
    /\ ~Acquirable(conn[s])
    /\ pc' = [pc EXCEPT ![s] = "notsent"]
    /\ permit' = [permit EXCEPT ![conn[s]] = IF @ = s THEN "free" ELSE @]
    /\ UNCHANGED <<pooling, conn, reply, phase, queue, cur, unread, history>>

\* The command enters the channel, the permit with it.
SendCommand(s) ==
    LET c == conn[s] IN
    /\ pc[s] = "reserved"
    /\ Accepting(c)
    /\ queue[c] = "none"
    /\ queue' = [queue EXCEPT ![c] = s]
    /\ permit' = [permit EXCEPT ![c] = "cmd"]
    /\ pc' = [pc EXCEPT ![s] = "await"]
    /\ UNCHANGED <<pooling, conn, reply, phase, cur, unread, history>>

\* The channel is closed: the request comes back, the permit is dropped.
SendRefused(s) ==
    /\ pc[s] = "reserved"
    /\ ~Accepting(conn[s])
    /\ pc' = [pc EXCEPT ![s] = "notsent"]
    /\ Release(conn[s], Waiting(conn[s]))
    /\ UNCHANGED <<pooling, conn, reply, phase, queue, cur, unread, history>>

BugReceive(s) ==
    /\ pc[s] = "await"
    /\ pc' = [pc EXCEPT ![s] = IF reply[s] = "none" THEN "failed" ELSE reply[s]]
    /\ UNCHANGED <<pooling, conn, reply, phase, permit, queue, cur, unread, history>>

\* The oneshot is answered.
Receive(s) ==
    /\ pc[s] = "await"
    /\ reply[s] # "none"
    /\ pc' = [pc EXCEPT ![s] = reply[s]]
    /\ UNCHANGED <<pooling, conn, reply, phase, permit, queue, cur, unread, history>>

\* ClientSendError::Failed: the connection leaves the pool.
ReportFailure(s) ==
    /\ pc[s] = "failed"
    /\ pool' = pool \ {conn[s]}
    /\ pc' = [pc EXCEPT ![s] = "error"]
    /\ UNCHANGED <<connectLock, conn, reused, reply, phase, permit, queue, cur,
                   unread, history>>

\* ClientSendError::NotSent: retried, unless the connection was a new one.
RetryOrGiveUp(s) ==
    /\ pc[s] = "notsent"
    /\ pool' = pool \ {conn[s]}
    /\ IF reused[s]
       THEN /\ pc' = [pc EXCEPT ![s] = "start"]
            /\ conn' = [conn EXCEPT ![s] = NoConn]
            /\ reply' = [reply EXCEPT ![s] = "none"]
       ELSE pc' = [pc EXCEPT ![s] = "error"] /\ UNCHANGED <<conn, reply>>
    /\ UNCHANGED <<connectLock, reused, phase, permit, queue, cur, unread, history>>

\* The future of a sender is dropped at an await.  Its guards and permits go
\* with it; a command already in the channel stays there.
Cancel(s) ==
    /\ pc[s] \in {"start", "lock", "connect", "publish", "queue", "wait",
                  "reserved", "await", "failed", "notsent"}
    /\ pc' = [pc EXCEPT ![s] = "cancelled"]
    /\ connectLock' = IF connectLock = s THEN "none" ELSE connectLock
    /\ IF conn[s] # NoConn /\ permit[conn[s]] = s
       THEN Release(conn[s], Waiting(conn[s]) \ {s})
       ELSE UNCHANGED permit
    /\ UNCHANGED <<pool, reused, conn, reply, phase, queue, cur, unread, history>>

-----------------------------------------------------------------------------
(* run_client.                                                             *)

Stop(c) == phase' = [phase EXCEPT ![c] = "stopping"]

\* Nothing was left in the buffer and nothing is readable.
Quiet(c) == unread[c] = "none"

\* The server puts bytes, or EOF, on the wire of c.
Arrive(c) ==
    /\ phase[c] = "idle" \/ Busy(c)
    /\ unread[c] = "none"
    /\ unread' = [unread EXCEPT
          ![c] = IF phase[c] \in {"encode", "exchange"} THEN cur[c] ELSE "early"]
    /\ UNCHANGED <<pooling, pc, conn, reply, phase, permit, queue, cur, history>>

\* Bytes left in the buffer, or readable while idle: the biased select reads
\* before it looks at the channel.
IdleBreak(c) ==
    /\ phase[c] = "idle"
    /\ ~Quiet(c) \/ (queue[c] = "none" /\ ~HasHandle(c))
    /\ Stop(c)
    /\ UNCHANGED <<pooling, pc, conn, reply, permit, queue, cur, unread, history>>

Take(c) ==
    /\ phase[c] = "idle"
    /\ Quiet(c)
    /\ queue[c] # "none"
    /\ cur' = [cur EXCEPT ![c] = queue[c]]
    /\ queue' = [queue EXCEPT ![c] = "none"]
    /\ permit' = [permit EXCEPT ![c] = "driver"]
    /\ phase' = [phase EXCEPT ![c] = "encode"]
    /\ UNCHANGED <<pooling, pc, conn, reply, unread, history>>

\* Every exit from an exchange drops the command with its permit.
EndExchange(c) ==
    /\ cur' = [cur EXCEPT ![c] = "none"]
    /\ Release(c, Waiting(c))

Answer(c, r) == reply' = [reply EXCEPT ![cur[c]] = r]

\* prepare_request_framing or encode_request_head fails: nothing is written.
EncodeFails(c) ==
    /\ phase[c] = "encode"
    /\ Answer(c, "failed")
    /\ EndExchange(c)
    /\ Stop(c)
    /\ UNCHANGED <<pooling, pc, conn, queue, unread, history>>

\* The first byte of the head may have reached the peer.
WriteHead(c) ==
    /\ phase[c] = "encode"
    /\ written' = [written EXCEPT ![cur[c]] = @ \cup {c}]
    /\ phase' = [phase EXCEPT ![c] = "exchange"]
    /\ UNCHANGED <<pooling, pc, conn, reply, permit, queue, cur, unread, answer>>

\* What a failure is called once a byte may have left: never NotSent.
AfterWrite == "failed"

\* A write, a flush or the read of the response head fails or times out.
ExchangeFails(c) ==
    /\ phase[c] = "exchange"
    /\ Answer(c, AfterWrite)
    /\ EndExchange(c)
    /\ Stop(c)
    /\ UNCHANGED <<pooling, pc, conn, queue, unread, history>>

\* A final response head was read from what arrived.
ReadHead(c) ==
    /\ phase[c] = "exchange"
    /\ unread[c] # "none"
    /\ Answer(c, "ok")
    /\ answer' = [answer EXCEPT ![cur[c]] = unread[c]]
    /\ unread' = [unread EXCEPT ![c] = "none"]

Respond(c) ==
    /\ ReadHead(c)
    /\ phase' = [phase EXCEPT ![c] = "body"]
    /\ UNCHANGED <<pooling, pc, conn, permit, queue, cur, written>>

\* 101, or a successful CONNECT: the stream is handed over.
Upgrade(c) ==
    /\ ReadHead(c)
    /\ EndExchange(c)
    /\ Stop(c)
    /\ UNCHANGED <<pooling, pc, conn, queue, written>>

\* Both bodies are complete and both sides keep the connection alive.
KeepAlive(c) ==
    /\ phase[c] = "body"
    /\ EndExchange(c)
    /\ phase' = [phase EXCEPT ![c] = "idle"]
    /\ UNCHANGED <<pooling, pc, conn, reply, queue, unread, history>>

\* A body failed, or one side closes after it.
BodyBreak(c) ==
    /\ phase[c] = "body"
    /\ EndExchange(c)
    /\ Stop(c)
    /\ UNCHANGED <<pooling, pc, conn, reply, queue, unread, history>>

CloseCommands(c) ==
    /\ phase[c] = "stopping"
    /\ phase' = [phase EXCEPT ![c] = "closing"]
    /\ UNCHANGED <<pooling, pc, conn, reply, permit, queue, cur, unread, history>>

CloseAvailability(c) ==
    /\ phase[c] = "closing"
    /\ phase' = [phase EXCEPT ![c] = "draining"]
    /\ UNCHANGED <<pooling, pc, conn, reply, permit, queue, cur, unread, history>>

\* The drain loop: a command still queued goes back to its sender.
ReturnQueued(c) ==
    /\ phase[c] = "draining"
    /\ queue[c] # "none"
    /\ reply' = [reply EXCEPT ![queue[c]] = "notsent"]
    /\ queue' = [queue EXCEPT ![c] = "none"]
    /\ permit' = [permit EXCEPT ![c] = "free"]
    /\ UNCHANGED <<pooling, pc, conn, phase, cur, unread, history>>

\* command_rx.recv() returns None.
Drained(c) == queue[c] = "none"

DriverEnds(c) ==
    /\ phase[c] = "draining"
    /\ Drained(c)
    /\ phase' = [phase EXCEPT ![c] = "dead"]
    /\ UNCHANGED <<pooling, pc, conn, reply, permit, queue, cur, unread, history>>

-----------------------------------------------------------------------------
SenderStep(s) ==
    \/ \E c \in Conn : ChooseReserved(s, c) \/ ChooseWait(s, c) \/ Connected(s, c)
    \/ ChooseConnect(s) \/ ConnectFails(s)
    \/ Claim(s) \/ ClaimFails(s) \/ Publish(s)
    \/ Enqueue(s) \/ Granted(s) \/ Refused(s)
    \/ SendCommand(s) \/ SendRefused(s) \/ Receive(s)
    \/ ReportFailure(s) \/ RetryOrGiveUp(s)

DriverStep(c) ==
    \/ IdleBreak(c) \/ Take(c) \/ EncodeFails(c) \/ WriteHead(c)
    \/ ExchangeFails(c) \/ Respond(c) \/ Upgrade(c)
    \/ KeepAlive(c) \/ BodyBreak(c)
    \/ CloseCommands(c) \/ CloseAvailability(c) \/ ReturnQueued(c) \/ DriverEnds(c)

Next ==
    \/ \E s \in Sender : SenderStep(s) \/ Cancel(s)
    \/ \E c \in Conn : DriverStep(c) \/ Arrive(c)

Spec == Init /\ [][Next]_vars

\* Tasks that are ready run; connecting, writing and reading a head are under
\* timeouts; the two bodies of an exchange are assumed to end.
FairSpec ==
    /\ Spec
    /\ \A s \in Sender : WF_vars(SenderStep(s))
    /\ \A c \in Conn : WF_vars(DriverStep(c))

-----------------------------------------------------------------------------
TypeOK ==
    /\ pool \in SUBSET Conn
    /\ connectLock \in Sender \cup {"none"}
    /\ pc \in [Sender -> Location]
    /\ conn \in [Sender -> Conn \cup {NoConn}]
    /\ reused \in [Sender -> BOOLEAN]
    /\ reply \in [Sender -> {"none", "ok", "failed", "notsent"}]
    /\ phase \in [Conn -> Phase]
    /\ permit \in [Conn -> Sender \cup {"free", "cmd", "driver"}]
    /\ queue \in [Conn -> Sender \cup {"none"}]
    /\ cur \in [Conn -> Sender \cup {"none"}]
    /\ unread \in [Conn -> Sender \cup {"none", "early"}]
    /\ written \in [Sender -> SUBSET Conn]
    /\ answer \in [Sender -> Sender \cup {"none", "early"}]

\* A request reaches at most one connection, and what the pool sends again, or
\* was told was not sent, no peer has seen: sending a POST twice is what NotSent
\* exists to prevent (run_client's closing comment).
WrittenOnce ==
    \A s \in Sender :
        /\ \A c, d \in written[s] : c = d
        /\ pc[s] \in {"start", "lock", "connect", "claim", "publish", "queue",
                      "wait", "reserved", "notsent"}
           => written[s] = {}

\* A caller gets the bytes of its own exchange: nothing that was on the
\* connection before its request was taken is read as its response.
AnswerIsOwn == \A s \in Sender : answer[s] \in {"none", s}

\* The pool never holds more connections of a key than its limit, although
\* choosing, connecting and publishing are separate steps.
PoolBounded == Cardinality(pool) <= MaxPerKey

\* The permit of a connection is where someone will give it back: a sender
\* that is alive on that connection, the queued command, or the driver.
\* Otherwise it is free and a sender may have it.  Its holder finds room in the
\* command channel: send never waits.
PermitAccounted ==
    \A c \in Conn :
        /\ permit[c] \in Sender =>
              conn[permit[c]] = c /\ pc[permit[c]] \in {"publish", "wait", "reserved"}
        /\ permit[c] = "cmd" <=> queue[c] # "none"
        /\ permit[c] = "driver" <=> Busy(c)
        /\ \A s \in Sender : pc[s] = "reserved" /\ conn[s] = c =>
              permit[c] = s /\ queue[c] = "none"

\* A sender that waits for a response has its command queued, in the driver,
\* or answered: no exit of run_client forgets one.
CommandNotLost ==
    \A s \in Sender :
        pc[s] = "await" /\ reply[s] = "none" =>
            \/ queue[conn[s]] = s /\ phase[conn[s]] \notin {"unused", "dead"}
            \/ cur[conn[s]] = s

\* No sender waits on a semaphore whose permit is free.
NoMissedWakeup ==
    \A s \in Sender :
        pc[s] = "wait" /\ Acquirable(conn[s]) => permit[conn[s]] # "free"

\* What callers rely on: their request is written once at most, the answer is
\* their own, the limit of the key holds and every permit has an owner.
PoolIsSound == TypeOK /\ WrittenOnce /\ AnswerIsOwn /\ PoolBounded /\ PermitAccounted

\* No caller is left waiting for something that cannot come any more.
NothingStranded == CommandNotLost /\ NoMissedWakeup

\* The pool implements RequestOnce: retries, cancellations and the hand-over
\* between pool, channel and driver are invisible to the callers.
Promise == INSTANCE RequestOnce WITH
    Request   <- Sender,
    delivered <- {s \in Sender : written[s] # {}},
    outcome   <- [s \in Sender |-> IF pc[s] \in {"ok", "error", "cancelled"}
                                   THEN pc[s] ELSE "open"]

ImplementsRequestOnce == Promise!Spec

\* Every send ends: with a response, an error or its own cancellation.
EverySendEnds ==
    \A s \in Sender : <>(pc[s] \in {"ok", "error", "cancelled"})
=============================================================================
