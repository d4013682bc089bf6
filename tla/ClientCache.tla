----------------------------- MODULE ClientCache -----------------------------
(***************************************************************************)
(* The caches that hold one multiplexed upstream client for many requests: *)
(*   "pool"        H2Pool, one entry per route (http2/connection.rs);      *)
(*   "negotiated"  NegotiatedUpstream, whose peer selects HTTP/1 or HTTP/2 *)
(*                 for each connection (proxy/http1.rs);                   *)
(*   "h3"          ReverseH3Upstream (proxy/http3.rs).                     *)
(* The pool dials outside its lock and retries once; the other two dial    *)
(* under an async lock and never retry.  One route; heads and bodies are   *)
(* left out.  A request that the peer's stream rejects, or that cannot be  *)
(* encoded, is a choice of the step that finds it.                         *)
(***************************************************************************)
EXTENDS Naturals, Sequences

CONSTANTS
    Request,  \* tasks that call send or send_websocket, one request each
    MaxConn   \* bound: connections that can be dialled

ASSUME RequestAssumption == "none" \notin Request
ASSUME MaxConnAssumption == MaxConn \in Nat

Conn   == 1..MaxConn  \* numbered in the order in which they are dialled
NoConn == 0

VARIABLES
    kind,     \* which of the three caches this is
    cache,    \* the cached client, named by its connection
    lock,     \* the task holding the async lock across its dial
    pc,       \* where each task is
    client,   \* the client it works with
    refused,  \* the clients that returned its request unsent, in order
    conn,     \* phase of each connection
    proto,    \* what ALPN selected for it
    sent,     \* history: how often each request was handed to a connection
    blamed    \* history: connections on which some request failed

vars == <<kind, cache, lock, pc, client, refused, conn, proto, sent, blamed>>

Final == {"ok", "error", "cancelled"}

Location == Final \cup {"start", "connect", "publish", "ready", "await", "evict"}

Init ==
    /\ kind \in {"pool", "negotiated", "h3"}
    /\ cache = NoConn
    /\ lock = "none"
    /\ pc = [r \in Request |-> "start"]
    /\ client = [r \in Request |-> NoConn]
    /\ refused = [r \in Request |-> <<>>]
    /\ conn = [c \in Conn |-> "unused"]
    /\ proto = [c \in Conn |-> "none"]
    /\ sent = [r \in Request |-> 0]
    /\ blamed = {}

-----------------------------------------------------------------------------
\* is_closed of the three clients: a connection after GOAWAY counts as closed.
Closed(c) == conn[c] \in {"draining", "dead"}

Goto(r, l) == pc' = [pc EXCEPT ![r] = l]

\* The call returns (or its future is dropped), and its handle with it.
Finish(r, o) == Goto(r, o) /\ client' = [client EXCEPT ![r] = NoConn]

\* H2Pool::send: the cached client is taken without asking whether it is closed.
PoolLookup(r) ==
    /\ kind = "pool"
    /\ pc[r] = "start"
    /\ client' = [client EXCEPT ![r] = cache]
    /\ Goto(r, IF cache = NoConn THEN "connect" ELSE "ready")
    /\ UNCHANGED <<kind, cache, lock, refused, conn, proto, sent, blamed>>

\* NegotiatedUpstream::send and ReverseH3Upstream::send: reuse an open client,
\* else dial with the lock held.  Only the first clears the cache beforehand.
LockedLookup(r) ==
    /\ kind # "pool"
    /\ pc[r] = "start"
    /\ lock = "none"
    /\ IF cache # NoConn /\ ~Closed(cache)
       THEN /\ client' = [client EXCEPT ![r] = cache]
            /\ Goto(r, "ready")
            /\ UNCHANGED <<cache, lock>>
       ELSE /\ cache' = IF kind = "negotiated" THEN NoConn ELSE cache
            /\ lock' = r
            /\ Goto(r, "connect")
            /\ UNCHANGED client
    /\ UNCHANGED <<kind, refused, conn, proto, sent, blamed>>

Selectable == CASE kind = "pool" -> {"h2"}
                [] kind = "h3" -> {"h3"}
                [] OTHER -> {"h1", "h2"}

\* Transport, TLS and ALPN are done.  The pool has yet to publish the client.
Connected(r, c) ==
    /\ pc[r] = "connect"
    /\ conn[c] = "unused"
    /\ \A d \in 1..c - 1 : conn[d] # "unused"
    /\ conn' = [conn EXCEPT ![c] = "open"]
    /\ \E p \in Selectable : proto' = [proto EXCEPT ![c] = p]
    /\ client' = [client EXCEPT ![r] = c]
    /\ IF kind = "pool"
       THEN Goto(r, "publish") /\ UNCHANGED <<cache, lock>>
       ELSE cache' = c /\ lock' = "none" /\ Goto(r, "ready")
    /\ UNCHANGED <<kind, refused, sent, blamed>>

\* BUG: a failed dial leaves with the lock.
BugConnectFails(r) ==
    /\ pc[r] = "connect"
    /\ Finish(r, "error")
    /\ UNCHANGED <<kind, cache, lock, refused, conn, proto, sent, blamed>>

Unlock(r) == lock' = IF lock = r THEN "none" ELSE lock

\* Every address refused, the tunnel, TLS or the handshake failed, or ALPN
\* selected something else.
ConnectFails(r) ==
    /\ pc[r] = "connect"
    /\ Unlock(r)
    /\ Finish(r, "error")
    /\ UNCHANGED <<kind, cache, refused, conn, proto, sent, blamed>>

\* entry(key).or_insert_with: who comes second adopts the client that is there
\* and drops its own, which closes it.
Publish(r) ==
    /\ pc[r] = "publish"
    /\ IF cache = NoConn
       THEN cache' = client[r] /\ UNCHANGED <<client, conn>>
       ELSE /\ client' = [client EXCEPT ![r] = cache]
            /\ conn' = [conn EXCEPT ![client[r]] = "dead"]
            /\ UNCHANGED cache
    /\ Goto(r, "ready")
    /\ UNCHANGED <<kind, lock, refused, proto, sent, blamed>>

-----------------------------------------------------------------------------
\* An HTTP/1 client carries one exchange at a time.
Exclusive(r) ==
    proto[client[r]] = "h1" =>
        \A q \in Request \ {r} : ~(pc[q] = "await" /\ client[q] = client[r])

Submit(r) ==
    /\ pc[r] = "ready"
    /\ conn[client[r]] = "open"
    /\ Exclusive(r)
    /\ sent' = [sent EXCEPT ![r] = @ + 1]
    /\ Goto(r, "await")
    /\ UNCHANGED <<kind, cache, lock, client, refused, conn, proto, blamed>>

\* The client closed after it was taken.  Only the pool gets its request back.
Refuse(r) ==
    /\ pc[r] = "ready"
    /\ Closed(client[r])
    /\ refused' = [refused EXCEPT ![r] =
                       IF kind = "pool" THEN Append(@, client[r]) ELSE @]
    /\ blamed' = blamed \cup {client[r]}
    /\ Goto(r, "evict")
    /\ UNCHANGED <<kind, cache, lock, client, conn, proto, sent>>

\* The request does not fit the connection: it cannot be encoded, wants an
\* HTTP/1 Upgrade over HTTP/2, or extended CONNECT from a peer without it.
Unsupported(r) ==
    /\ pc[r] = "ready"
    /\ Finish(r, "error")
    /\ UNCHANGED <<kind, cache, lock, refused, conn, proto, sent, blamed>>

Answered(r) ==
    /\ pc[r] = "await"
    /\ conn[client[r]] # "dead"
    /\ Finish(r, "ok")
    /\ UNCHANGED <<kind, cache, lock, refused, conn, proto, sent, blamed>>

\* A reset or malformed stream does not condemn an HTTP/2 or HTTP/3 connection.
StreamFails(r) ==
    /\ pc[r] = "await"
    /\ proto[client[r]] # "h1"
    /\ Finish(r, "error")
    /\ UNCHANGED <<kind, cache, lock, refused, conn, proto, sent, blamed>>

\* BUG: the pool hands back a request that was already on the wire.
BugConnectionFails(r) ==
    /\ pc[r] = "await"
    /\ Closed(client[r]) \/ proto[client[r]] = "h1"
    /\ refused' = [refused EXCEPT ![r] =
                       IF kind = "pool" THEN Append(@, client[r]) ELSE @]
    /\ blamed' = blamed \cup {client[r]}
    /\ Goto(r, "evict")
    /\ UNCHANGED <<kind, cache, lock, client, conn, proto, sent>>

\* An I/O error, a timeout or a protocol violation of the connection, and any
\* error of an HTTP/1 exchange.  The pool reports it without evicting.
ConnectionFails(r) ==
    /\ pc[r] = "await"
    /\ Closed(client[r]) \/ proto[client[r]] = "h1"
    /\ blamed' = blamed \cup {client[r]}
    /\ IF kind = "pool" THEN Finish(r, "error") ELSE Goto(r, "evict") /\ UNCHANGED client
    /\ UNCHANGED <<kind, cache, lock, refused, conn, proto, sent>>

\* BUG: whatever is cached leaves, not only the client that failed.
BugRemoveIfCurrent(r) == NoConn

\* The value of the cache after the client of r has failed (pointer equality).
RemoveIfCurrent(r) == IF cache = client[r] THEN NoConn ELSE cache

\* remove_if_current needs the lock; then the pool retries, once.
Evict(r) ==
    /\ pc[r] = "evict"
    /\ lock = "none"
    /\ cache' = RemoveIfCurrent(r)
    /\ Finish(r, IF Len(refused[r]) = 1 THEN "start" ELSE "error")
    /\ UNCHANGED <<kind, lock, refused, conn, proto, sent, blamed>>

\* The caller drops the future: a held lock and an unpublished client go.
Cancel(r) ==
    /\ pc[r] \notin Final
    /\ Unlock(r)
    /\ conn' = IF pc[r] = "publish" THEN [conn EXCEPT ![client[r]] = "dead"] ELSE conn
    /\ Finish(r, "cancelled")
    /\ UNCHANGED <<kind, cache, refused, proto, sent, blamed>>

GoAway(c) ==
    /\ conn[c] = "open"
    /\ proto[c] # "h1"
    /\ conn' = [conn EXCEPT ![c] = "draining"]
    /\ UNCHANGED <<kind, cache, lock, pc, client, refused, proto, sent, blamed>>

Die(c) ==
    /\ conn[c] \in {"open", "draining"}
    /\ conn' = [conn EXCEPT ![c] = "dead"]
    /\ UNCHANGED <<kind, cache, lock, pc, client, refused, proto, sent, blamed>>

-----------------------------------------------------------------------------
Take(r)   == PoolLookup(r) \/ LockedLookup(r)
Dial(r)   == (\E c \in Conn : Connected(r, c)) \/ ConnectFails(r)
Hand(r)   == Submit(r) \/ Refuse(r) \/ Unsupported(r)
Settle(r) == Answered(r) \/ StreamFails(r) \/ ConnectionFails(r)
Step(r)   == Take(r) \/ Dial(r) \/ Publish(r) \/ Hand(r) \/ Settle(r) \/ Evict(r)

Next ==
    \/ \E r \in Request : Step(r) \/ Cancel(r)
    \/ \E c \in Conn : GoAway(c) \/ Die(c)

Spec == Init /\ [][Next]_vars

\* Tasks are scheduled, dials conclude and peers answer or fail.  Nothing obliges
\* a caller to cancel or a peer to send GOAWAY.
FairSpec == Spec /\ \A r \in Request : WF_vars(Step(r))

-----------------------------------------------------------------------------
TypeOK ==
    /\ kind \in {"pool", "negotiated", "h3"}
    /\ cache \in Conn \cup {NoConn}
    /\ lock \in Request \cup {"none"}
    /\ pc \in [Request -> Location]
    /\ client \in [Request -> Conn \cup {NoConn}]
    /\ refused \in [Request -> Seq(Conn)]
    /\ conn \in [Conn -> {"unused", "open", "draining", "dead"}]
    /\ proto \in [Conn -> {"none", "h1", "h2", "h3"}]
    /\ sent \in [Request -> Nat]
    /\ blamed \in SUBSET Conn

\* Whatever connections close and however callers overlap, no request is handed
\* to two connections, and an answer is never given for one that was not sent:
\* the retry of H2Pool touches only requests that never left.
Promise == INSTANCE RequestOnce WITH
    delivered <- {r \in Request : sent[r] = 1},
    outcome   <- [r \in Request |-> IF pc[r] \in Final THEN pc[r] ELSE "open"]

ImplementsRequestOnce == Promise!Spec

\* A connection that works and on which no request has failed is the one that
\* is shared: concurrent callers never end up dialling side by side under the
\* lock, and a late failure of an older client never pushes it out.
HealthyIsShared ==
    \A c \in Conn :
        conn[c] = "open" /\ c \notin blamed =>
            cache = c \/ \E r \in Request : pc[r] = "publish" /\ client[r] = c

\* The retry of H2Pool goes to another connection than the one that refused,
\* so a request returned unsent has been refused by two.
RetryIsElsewhere ==
    \A r \in Request :
        /\ Len(refused[r]) <= 2
        /\ Len(refused[r]) = 2 => refused[r][1] # refused[r][2]

\* Sharing is sound: an error of one user costs the others no healthy connection,
\* and what one connection refused is tried on another.
SharingIsSound == TypeOK /\ HealthyIsShared /\ RetryIsElsewhere

\* Every call returns: no failed dial or cancelled caller leaves the lock
\* behind, and the retry loop ends.
EverySendEnds == \A r \in Request : <>(pc[r] \in Final)
=============================================================================
