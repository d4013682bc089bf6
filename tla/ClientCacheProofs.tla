--------------------------- MODULE ClientCacheProofs ---------------------------
(* Proofs about ClientCache for every set of requests and every number of    *)
(* connections: one healthy connection is shared, the retry goes elsewhere,  *)
(* and each cache delivers a request at most once.                           *)
EXTENDS ClientCache, SequenceTheorems, TLAPS

-----------------------------------------------------------------------------
(* The inductive invariant.                                                *)

Dialled(c) == conn[c] # "unused"

\* The async lock is held exactly across a dial, and then nothing open is cached.
LockInv ==
    /\ \A r \in Request : lock = r <=> kind # "pool" /\ pc[r] = "connect"
    /\ lock # "none" => cache = NoConn \/ Closed(cache)

\* Whoever has a client holds one that was dialled; the one still to be
\* published is known to its task alone.
ClientInv(r) ==
    /\ pc[r] \in Final \cup {"start", "connect"} => client[r] = NoConn
    /\ pc[r] \in {"publish", "ready", "await", "evict"} =>
          client[r] \in Conn /\ Dialled(client[r])
    /\ pc[r] = "publish" =>
          /\ kind = "pool"
          /\ cache # client[r]
          /\ client[r] \notin blamed
          /\ \A q \in Request \ {r} : client[q] # client[r]
    /\ pc[r] = "evict" => client[r] \in blamed

ClientsInv ==
    /\ \A r \in Request : ClientInv(r)
    /\ cache \in Conn => Dialled(cache)
    /\ \A c \in blamed : Dialled(c)

\* Only the pool is handed a request back, and twice at most.  What refused it
\* first is blamed for good, and past its eviction neither cached nor used.
RefusedInv(r) ==
    /\ kind # "pool" => refused[r] = <<>>
    /\ refused[r] = <<>> \/ Len(refused[r]) \in {1, 2}
    /\ pc[r] \in {"start", "connect", "publish", "ready", "await"} =>
          refused[r] = <<>> \/ Len(refused[r]) = 1
    /\ Len(refused[r]) \in {1, 2} => refused[r][1] \in blamed
    /\ Len(refused[r]) = 1 =>
          IF pc[r] = "evict" THEN client[r] = refused[r][1]
          ELSE pc[r] \in Final \/ (cache # refused[r][1] /\ client[r] # refused[r][1])
    /\ Len(refused[r]) = 2 => refused[r][1] # refused[r][2]
    /\ kind = "pool" /\ pc[r] = "evict" => refused[r] # <<>>

RefusalsInv == \A r \in Request : RefusedInv(r)

\* A request leaves at the step to await, and comes back to none before it.
SentInv ==
    \A r \in Request :
        /\ sent[r] \in {0, 1}
        /\ pc[r] \in {"start", "connect", "publish", "ready"} => sent[r] = 0
        /\ pc[r] \in {"await", "ok"} => sent[r] = 1
        /\ kind = "pool" /\ pc[r] = "evict" => sent[r] = 0

IInv == TypeOK /\ LockInv /\ ClientsInv /\ RefusalsInv /\ SentInv /\ HealthyIsShared

\* No refusal yet is a length of its own.
LEMMA EmptyIsZero == \A s : s = <<>> => Len(s) = 0
OBVIOUS

\* A second refusal goes behind the first.
LEMMA AppendToOne ==
    ASSUME NEW S, NEW s \in Seq(S), Len(s) = 1, NEW e \in S
    PROVE  /\ Len(Append(s, e)) = 2
           /\ Append(s, e)[1] = s[1]
           /\ Append(s, e)[2] = e
<1>1. Len(s) + 1 = 2 /\ 1 \in 1..Len(s)
    OBVIOUS
<1>2. Len(Append(s, e)) = Len(s) + 1
    BY AppendProperties
<1>3. Append(s, e)[1] = s[1]
    BY <1>1, AppendProperties
<1>4. Append(s, e)[Len(s) + 1] = e
    BY AppendProperties
<1>5. QED
    BY <1>1, <1>2, <1>3, <1>4

-----------------------------------------------------------------------------
(* One step keeps each part.                                               *)

\* Every step of a caller or of a connection keeps the types.
LEMMA TypeStep ==
    ASSUME TypeOK, ClientsInv, [Next]_vars
    PROVE  TypeOK'
<1> USE RequestAssumption DEF TypeOK, Location, Final, Conn, NoConn, Selectable
<1>1. ASSUME NEW r \in Request, PoolLookup(r) PROVE TypeOK'
    BY <1>1 DEF PoolLookup, Goto
<1>2. ASSUME NEW r \in Request, LockedLookup(r) PROVE TypeOK'
    BY <1>2 DEF LockedLookup, Goto, Closed
<1>3. ASSUME NEW r \in Request, NEW c \in Conn, Connected(r, c) PROVE TypeOK'
    BY <1>3 DEF Connected, Goto
<1>4. ASSUME NEW r \in Request, ConnectFails(r) PROVE TypeOK'
    BY <1>4 DEF ConnectFails, Unlock, Finish, Goto
<1>5. ASSUME NEW r \in Request, Publish(r) PROVE TypeOK'
    <2>1. client[r] \in Conn
        BY <1>5 DEF Publish, ClientsInv, ClientInv
    <2>2. /\ cache' \in Conn \cup {NoConn}
          /\ client' \in [Request -> Conn \cup {NoConn}]
        BY ZenonT(30), <1>5, <2>1 DEF Publish
    <2>3. conn' \in [Conn -> {"unused", "open", "draining", "dead"}]
        BY <1>5, <2>1 DEF Publish
    <2>4. QED
        BY <1>5, <2>2, <2>3 DEF Publish, Goto
<1>6. ASSUME NEW r \in Request, Submit(r) PROVE TypeOK'
    BY <1>6 DEF Submit, Goto
<1>7. ASSUME NEW r \in Request, Refuse(r) PROVE TypeOK'
    <2>1. client[r] \in Conn
        BY <1>7 DEF Refuse, ClientsInv, ClientInv
    <2>2. Append(refused[r], client[r]) \in Seq(Conn)
        BY <2>1
    <2>3. refused' \in [Request -> Seq(Conn)]
        BY <1>7, <2>2 DEF Refuse
    <2>4. QED
        BY <1>7, <2>1, <2>3 DEF Refuse, Goto
<1>8. ASSUME NEW r \in Request, Unsupported(r) PROVE TypeOK'
    BY <1>8 DEF Unsupported, Finish, Goto
<1>9. ASSUME NEW r \in Request, Answered(r) PROVE TypeOK'
    BY <1>9 DEF Answered, Finish, Goto
<1>10. ASSUME NEW r \in Request, StreamFails(r) PROVE TypeOK'
    BY <1>10 DEF StreamFails, Finish, Goto
<1>11. ASSUME NEW r \in Request, ConnectionFails(r) PROVE TypeOK'
    <2>1. client[r] \in Conn
        BY <1>11 DEF ConnectionFails, ClientsInv, ClientInv
    <2>2. QED
        BY <1>11, <2>1 DEF ConnectionFails, Finish, Goto
<1>12. ASSUME NEW r \in Request, Evict(r) PROVE TypeOK'
    BY <1>12 DEF Evict, Finish, Goto, RemoveIfCurrent
<1>13. ASSUME NEW r \in Request, Cancel(r) PROVE TypeOK'
    BY <1>13 DEF Cancel, Unlock, Finish, Goto
<1>14. ASSUME NEW c \in Conn, GoAway(c) PROVE TypeOK'
    BY <1>14 DEF GoAway
<1>15. ASSUME NEW c \in Conn, Die(c) PROVE TypeOK'
    BY <1>15 DEF Die
<1>16. CASE UNCHANGED vars
    BY <1>16 DEF vars
<1>17. QED
    BY <1>1, <1>2, <1>3, <1>4, <1>5, <1>6, <1>7, <1>8,
       <1>9, <1>10, <1>11, <1>12, <1>13, <1>14, <1>15, <1>16
    DEF Next, Step, Take, Dial, Hand, Settle

\* The lock is taken at the lookup and given up on every way out of the dial.
LEMMA LockStep ==
    ASSUME TypeOK, LockInv, ClientsInv, [Next]_vars
    PROVE  LockInv'
<1> USE RequestAssumption DEF LockInv, TypeOK, Location, Final, Closed, NoConn
<1>1. ASSUME NEW r \in Request, PoolLookup(r) PROVE LockInv'
    BY <1>1 DEF PoolLookup, Goto
<1>2. ASSUME NEW r \in Request, LockedLookup(r) PROVE LockInv'
    BY SMTT(30), <1>2 DEF LockedLookup, Goto
<1>3. ASSUME NEW r \in Request, NEW c \in Conn, Connected(r, c) PROVE LockInv'
    BY ZenonT(30), <1>3 DEF Connected, Goto
<1>4. ASSUME NEW r \in Request, ConnectFails(r) PROVE LockInv'
    BY <1>4 DEF ConnectFails, Unlock, Finish, Goto
<1>5. ASSUME NEW r \in Request, Publish(r) PROVE LockInv'
    BY <1>5 DEF Publish, Goto, ClientsInv, ClientInv
<1>6. ASSUME NEW r \in Request, Submit(r) PROVE LockInv'
    BY <1>6 DEF Submit, Goto
<1>7. ASSUME NEW r \in Request, Refuse(r) PROVE LockInv'
    BY <1>7 DEF Refuse, Goto
<1>8. ASSUME NEW r \in Request, Unsupported(r) PROVE LockInv'
    BY <1>8 DEF Unsupported, Finish, Goto
<1>9. ASSUME NEW r \in Request, Answered(r) PROVE LockInv'
    BY <1>9 DEF Answered, Finish, Goto
<1>10. ASSUME NEW r \in Request, StreamFails(r) PROVE LockInv'
    BY <1>10 DEF StreamFails, Finish, Goto
<1>11. ASSUME NEW r \in Request, ConnectionFails(r) PROVE LockInv'
    BY <1>11 DEF ConnectionFails, Finish, Goto
<1>12. ASSUME NEW r \in Request, Evict(r) PROVE LockInv'
    BY <1>12 DEF Evict, Finish, Goto, RemoveIfCurrent
<1>13. ASSUME NEW r \in Request, Cancel(r) PROVE LockInv'
    BY <1>13 DEF Cancel, Unlock, Finish, Goto
<1>14. ASSUME NEW c \in Conn, GoAway(c) PROVE LockInv'
    BY <1>14 DEF GoAway
<1>15. ASSUME NEW c \in Conn, Die(c) PROVE LockInv'
    BY <1>15 DEF Die
<1>16. CASE UNCHANGED vars
    BY <1>16 DEF vars
<1>17. QED
    BY <1>1, <1>2, <1>3, <1>4, <1>5, <1>6, <1>7, <1>8,
       <1>9, <1>10, <1>11, <1>12, <1>13, <1>14, <1>15, <1>16
    DEF Next, Step, Take, Dial, Hand, Settle

\* A published, shared or failed client is always one that was dialled.
LEMMA ClientsStep ==
    ASSUME TypeOK, LockInv, ClientsInv, [Next]_vars
    PROVE  ClientsInv'
<1> USE RequestAssumption DEF ClientsInv, ClientInv, Dialled, TypeOK, Location, Final, NoConn, Conn, LockInv, Closed
<1>1. ASSUME NEW r \in Request, PoolLookup(r) PROVE ClientsInv'
    BY <1>1 DEF PoolLookup, Goto
<1>2. ASSUME NEW r \in Request, LockedLookup(r) PROVE ClientsInv'
    BY <1>2 DEF LockedLookup, Goto
<1>3. ASSUME NEW r \in Request, NEW c \in Conn, Connected(r, c) PROVE ClientsInv'
    BY <1>3 DEF Connected, Goto
<1>4. ASSUME NEW r \in Request, ConnectFails(r) PROVE ClientsInv'
    BY <1>4 DEF ConnectFails, Unlock, Finish, Goto
<1>5. ASSUME NEW r \in Request, Publish(r) PROVE ClientsInv'
    <2>1. CASE cache = NoConn
        BY <1>5, <2>1 DEF Publish, Goto
    <2>2. CASE cache # NoConn
        <3>1. /\ cache' = cache /\ blamed' = blamed /\ kind' = kind
              /\ client' = [client EXCEPT ![r] = cache]
              /\ pc' = [pc EXCEPT ![r] = "ready"]
              /\ conn' = [conn EXCEPT ![client[r]] = "dead"]
            BY <1>5, <2>2 DEF Publish, Goto
        <3>2. \A c \in Conn : Dialled(c) => Dialled(c)'
            BY <3>1
        <3>3. ASSUME NEW q \in Request \ {r} PROVE ClientInv(q)'
            BY <1>5, <2>2, <3>1, <3>2, <3>3 DEF Publish
        <3>4. ClientInv(r)'
            BY <2>2, <3>1, <3>2
        <3>5. QED
            BY <3>1, <3>2, <3>3, <3>4
    <2>3. QED
        BY <2>1, <2>2
<1>6. ASSUME NEW r \in Request, Submit(r) PROVE ClientsInv'
    BY <1>6 DEF Submit, Goto
<1>7. ASSUME NEW r \in Request, Refuse(r) PROVE ClientsInv'
    BY <1>7 DEF Refuse, Goto
<1>8. ASSUME NEW r \in Request, Unsupported(r) PROVE ClientsInv'
    BY <1>8 DEF Unsupported, Finish, Goto
<1>9. ASSUME NEW r \in Request, Answered(r) PROVE ClientsInv'
    BY <1>9 DEF Answered, Finish, Goto
<1>10. ASSUME NEW r \in Request, StreamFails(r) PROVE ClientsInv'
    BY <1>10 DEF StreamFails, Finish, Goto
<1>11. ASSUME NEW r \in Request, ConnectionFails(r) PROVE ClientsInv'
    <2>1. CASE kind = "pool"
        <3>1. /\ cache' = cache /\ kind' = kind /\ conn' = conn
              /\ client' = [client EXCEPT ![r] = NoConn]
              /\ pc' = [pc EXCEPT ![r] = "error"]
              /\ blamed' = blamed \cup {client[r]}
            BY <1>11, <2>1 DEF ConnectionFails, Finish, Goto
        <3>2. pc[r] = "await"
            BY <1>11 DEF ConnectionFails
        <3>3. ASSUME NEW q \in Request \ {r} PROVE ClientInv(q)'
            BY <3>1, <3>2, <3>3
        <3>4. ClientInv(r)'
            BY <3>1
        <3>5. \A c \in blamed' : Dialled(c)'
            BY <3>1, <3>2
        <3>6. QED
            BY <3>1, <3>3, <3>4, <3>5
    <2>2. CASE kind # "pool"
        BY <1>11, <2>2 DEF ConnectionFails, Goto
    <2>3. QED
        BY <2>1, <2>2
<1>12. ASSUME NEW r \in Request, Evict(r) PROVE ClientsInv'
    BY <1>12 DEF Evict, Finish, Goto, RemoveIfCurrent
<1>13. ASSUME NEW r \in Request, Cancel(r) PROVE ClientsInv'
    BY <1>13 DEF Cancel, Unlock, Finish, Goto
<1>14. ASSUME NEW c \in Conn, GoAway(c) PROVE ClientsInv'
    BY <1>14 DEF GoAway
<1>15. ASSUME NEW c \in Conn, Die(c) PROVE ClientsInv'
    BY <1>15 DEF Die
<1>16. CASE UNCHANGED vars
    BY <1>16 DEF vars
<1>17. QED
    BY <1>1, <1>2, <1>3, <1>4, <1>5, <1>6, <1>7, <1>8,
       <1>9, <1>10, <1>11, <1>12, <1>13, <1>14, <1>15, <1>16
    DEF Next, Step, Take, Dial, Hand, Settle

\* A refusal is remembered, and the retry starts without the client that refused.
LEMMA RefusalsStep ==
    ASSUME TypeOK, LockInv, ClientsInv, RefusalsInv, [Next]_vars
    PROVE  RefusalsInv'
<1> USE RequestAssumption DEF RefusalsInv, RefusedInv, TypeOK, Location, Final, ClientsInv, ClientInv, Dialled, NoConn, Conn
<1>1. ASSUME NEW r \in Request, PoolLookup(r) PROVE RefusalsInv'
    BY <1>1 DEF PoolLookup, Goto
<1>2. ASSUME NEW r \in Request, LockedLookup(r) PROVE RefusalsInv'
    BY <1>2 DEF LockedLookup, Goto, Closed
<1>3. ASSUME NEW r \in Request, NEW c \in Conn, Connected(r, c) PROVE RefusalsInv'
    BY <1>3 DEF Connected, Goto
<1>4. ASSUME NEW r \in Request, ConnectFails(r) PROVE RefusalsInv'
    BY <1>4 DEF ConnectFails, Unlock, Finish, Goto
<1>5. ASSUME NEW r \in Request, Publish(r) PROVE RefusalsInv'
    BY <1>5 DEF Publish, Goto
<1>6. ASSUME NEW r \in Request, Submit(r) PROVE RefusalsInv'
    BY <1>6 DEF Submit, Goto
<1>7. ASSUME NEW r \in Request, Refuse(r) PROVE RefusalsInv'
    <2>1. client[r] \in Conn /\ refused[r] \in Seq(Conn)
        BY <1>7 DEF Refuse
    <2>2. CASE kind # "pool"
        BY <1>7, <2>2 DEF Refuse, Goto
    <2>3. CASE kind = "pool" /\ refused[r] = <<>>
        <3>1. refused' = [refused EXCEPT ![r] = <<client[r]>>]
            BY <1>7, <2>3 DEF Refuse
        <3>2. QED
            BY <1>7, <2>1, <2>3, <3>1 DEF Refuse, Goto
    <2>4. CASE kind = "pool" /\ Len(refused[r]) = 1
        <3>1. /\ Len(Append(refused[r], client[r])) = 2
              /\ Append(refused[r], client[r])[1] = refused[r][1]
              /\ Append(refused[r], client[r])[2] = client[r]
            BY <2>1, <2>4, AppendToOne
        <3>2. refused' = [refused EXCEPT ![r] = Append(refused[r], client[r])]
            BY <1>7, <2>4 DEF Refuse
        <3>3. QED
            BY <1>7, <2>1, <2>4, <3>1, <3>2 DEF Refuse, Goto
    <2>5. QED
        BY <1>7, <2>2, <2>3, <2>4 DEF Refuse
<1>8. ASSUME NEW r \in Request, Unsupported(r) PROVE RefusalsInv'
    BY <1>8 DEF Unsupported, Finish, Goto
<1>9. ASSUME NEW r \in Request, Answered(r) PROVE RefusalsInv'
    BY <1>9 DEF Answered, Finish, Goto
<1>10. ASSUME NEW r \in Request, StreamFails(r) PROVE RefusalsInv'
    BY <1>10 DEF StreamFails, Finish, Goto
<1>11. ASSUME NEW r \in Request, ConnectionFails(r) PROVE RefusalsInv'
    BY <1>11 DEF ConnectionFails, Finish, Goto, Closed
<1>12. ASSUME NEW r \in Request, Evict(r) PROVE RefusalsInv'
    BY <1>12 DEF Evict, Finish, Goto, RemoveIfCurrent
<1>13. ASSUME NEW r \in Request, Cancel(r) PROVE RefusalsInv'
    BY <1>13 DEF Cancel, Unlock, Finish, Goto
<1>14. ASSUME NEW c \in Conn, GoAway(c) PROVE RefusalsInv'
    BY <1>14 DEF GoAway
<1>15. ASSUME NEW c \in Conn, Die(c) PROVE RefusalsInv'
    BY <1>15 DEF Die
<1>16. CASE UNCHANGED vars
    BY <1>16 DEF vars
<1>17. QED
    BY <1>1, <1>2, <1>3, <1>4, <1>5, <1>6, <1>7, <1>8,
       <1>9, <1>10, <1>11, <1>12, <1>13, <1>14, <1>15, <1>16
    DEF Next, Step, Take, Dial, Hand, Settle

\* A request leaves once: nothing that left comes back to the lookup.
LEMMA SentStep ==
    ASSUME TypeOK, RefusalsInv, SentInv, [Next]_vars
    PROVE  SentInv'
<1> USE RequestAssumption DEF SentInv, RefusalsInv, RefusedInv, TypeOK, Location, Final
<1>1. ASSUME NEW r \in Request, PoolLookup(r) PROVE SentInv'
    BY <1>1 DEF PoolLookup, Goto
<1>2. ASSUME NEW r \in Request, LockedLookup(r) PROVE SentInv'
    BY <1>2 DEF LockedLookup, Goto, Closed
<1>3. ASSUME NEW r \in Request, NEW c \in Conn, Connected(r, c) PROVE SentInv'
    BY <1>3 DEF Connected, Goto
<1>4. ASSUME NEW r \in Request, ConnectFails(r) PROVE SentInv'
    BY <1>4 DEF ConnectFails, Unlock, Finish, Goto
<1>5. ASSUME NEW r \in Request, Publish(r) PROVE SentInv'
    BY <1>5 DEF Publish, Goto
<1>6. ASSUME NEW r \in Request, Submit(r) PROVE SentInv'
    BY <1>6 DEF Submit, Goto
<1>7. ASSUME NEW r \in Request, Refuse(r) PROVE SentInv'
    BY <1>7 DEF Refuse, Goto, Closed
<1>8. ASSUME NEW r \in Request, Unsupported(r) PROVE SentInv'
    BY <1>8 DEF Unsupported, Finish, Goto
<1>9. ASSUME NEW r \in Request, Answered(r) PROVE SentInv'
    BY <1>9 DEF Answered, Finish, Goto
<1>10. ASSUME NEW r \in Request, StreamFails(r) PROVE SentInv'
    BY <1>10 DEF StreamFails, Finish, Goto
<1>11. ASSUME NEW r \in Request, ConnectionFails(r) PROVE SentInv'
    BY <1>11 DEF ConnectionFails, Finish, Goto, Closed
<1>12. ASSUME NEW r \in Request, Evict(r) PROVE SentInv'
    BY <1>12 DEF Evict, Finish, Goto, RemoveIfCurrent
<1>13. ASSUME NEW r \in Request, Cancel(r) PROVE SentInv'
    BY <1>13 DEF Cancel, Unlock, Finish, Goto
<1>14. ASSUME NEW c \in Conn, GoAway(c) PROVE SentInv'
    BY <1>14 DEF GoAway
<1>15. ASSUME NEW c \in Conn, Die(c) PROVE SentInv'
    BY <1>15 DEF Die
<1>16. CASE UNCHANGED vars
    BY <1>16 DEF vars
<1>17. QED
    BY <1>1, <1>2, <1>3, <1>4, <1>5, <1>6, <1>7, <1>8,
       <1>9, <1>10, <1>11, <1>12, <1>13, <1>14, <1>15, <1>16
    DEF Next, Step, Take, Dial, Hand, Settle

\* A healthy connection stays the shared one: only its publisher or its failure moves it.
LEMMA SharedStep ==
    ASSUME TypeOK, LockInv, ClientsInv, HealthyIsShared, [Next]_vars
    PROVE  HealthyIsShared'
<1> USE RequestAssumption DEF HealthyIsShared, LockInv, ClientsInv, ClientInv, TypeOK, Location, Final, Dialled, Closed, NoConn, Conn
<1>1. ASSUME NEW r \in Request, PoolLookup(r) PROVE HealthyIsShared'
    BY <1>1 DEF PoolLookup, Goto
<1>2. ASSUME NEW r \in Request, LockedLookup(r) PROVE HealthyIsShared'
    BY <1>2 DEF LockedLookup, Goto
<1>3. ASSUME NEW r \in Request, NEW c \in Conn, Connected(r, c) PROVE HealthyIsShared'
    <2>1. CASE kind = "pool"
        <3>1. /\ cache' = cache /\ blamed' = blamed
              /\ client' = [client EXCEPT ![r] = c]
              /\ pc' = [pc EXCEPT ![r] = "publish"]
              /\ conn' = [conn EXCEPT ![c] = "open"]
              /\ pc[r] = "connect"
            BY <1>3, <2>1 DEF Connected, Goto
        <3>2. SUFFICES ASSUME NEW d \in Conn, conn'[d] = "open", d \notin blamed', d # cache
                       PROVE  \E q \in Request : pc'[q] = "publish" /\ client'[q] = d
            BY <3>1
        <3>3. CASE d = c
            BY <3>1, <3>3
        <3>4. CASE d # c
            <4>1. PICK q \in Request : pc[q] = "publish" /\ client[q] = d
                BY <3>1, <3>2, <3>4
            <4>2. QED
                BY <3>1, <4>1
        <3>5. QED
            BY <3>3, <3>4
    <2>2. CASE kind # "pool"
        BY <1>3, <2>2 DEF Connected, Goto
    <2>3. QED
        BY <2>1, <2>2
<1>4. ASSUME NEW r \in Request, ConnectFails(r) PROVE HealthyIsShared'
    BY <1>4 DEF ConnectFails, Unlock, Finish, Goto
<1>5. ASSUME NEW r \in Request, Publish(r) PROVE HealthyIsShared'
    <2>1. CASE cache = NoConn
        <3>1. /\ conn' = conn /\ blamed' = blamed /\ client' = client
              /\ cache' = client[r]
              /\ pc' = [pc EXCEPT ![r] = "ready"]
            BY <1>5, <2>1 DEF Publish, Goto
        <3>2. QED
            BY <2>1, <3>1
    <2>2. CASE cache # NoConn
        <3>1. /\ cache' = cache /\ blamed' = blamed
              /\ client' = [client EXCEPT ![r] = cache]
              /\ pc' = [pc EXCEPT ![r] = "ready"]
              /\ conn' = [conn EXCEPT ![client[r]] = "dead"]
              /\ client[r] \in Conn
            BY <1>5, <2>2 DEF Publish, Goto
        <3>2. SUFFICES ASSUME NEW c \in Conn, conn'[c] = "open", c \notin blamed', c # cache
                       PROVE  \E q \in Request : pc'[q] = "publish" /\ client'[q] = c
            BY <3>1
        <3>3. c # client[r] /\ conn[c] = "open" /\ c \notin blamed
            BY <3>1, <3>2
        <3>4. PICK q \in Request : pc[q] = "publish" /\ client[q] = c
            BY <3>2, <3>3
        <3>5. QED
            BY <3>1, <3>3, <3>4
    <2>3. QED
        BY <2>1, <2>2
<1>6. ASSUME NEW r \in Request, Submit(r) PROVE HealthyIsShared'
    BY <1>6 DEF Submit, Goto
<1>7. ASSUME NEW r \in Request, Refuse(r) PROVE HealthyIsShared'
    BY <1>7 DEF Refuse, Goto
<1>8. ASSUME NEW r \in Request, Unsupported(r) PROVE HealthyIsShared'
    BY <1>8 DEF Unsupported, Finish, Goto
<1>9. ASSUME NEW r \in Request, Answered(r) PROVE HealthyIsShared'
    BY <1>9 DEF Answered, Finish, Goto
<1>10. ASSUME NEW r \in Request, StreamFails(r) PROVE HealthyIsShared'
    BY <1>10 DEF StreamFails, Finish, Goto
<1>11. ASSUME NEW r \in Request, ConnectionFails(r) PROVE HealthyIsShared'
    <2>1. pc[r] = "await" /\ client[r] \in Conn
        BY <1>11 DEF ConnectionFails
    <2>2. /\ cache' = cache /\ conn' = conn
          /\ blamed' = blamed \cup {client[r]}
          /\ \A q \in Request \ {r} : pc'[q] = pc[q] /\ client'[q] = client[q]
        BY <1>11 DEF ConnectionFails, Finish, Goto
    <2>3. SUFFICES ASSUME NEW c \in Conn, conn'[c] = "open", c \notin blamed', c # cache
                   PROVE  \E q \in Request : pc'[q] = "publish" /\ client'[q] = c
        BY <2>2
    <2>4. PICK q \in Request : pc[q] = "publish" /\ client[q] = c
        BY <2>2, <2>3
    <2>5. QED
        BY ZenonT(30), <2>1, <2>2, <2>3, <2>4
<1>12. ASSUME NEW r \in Request, Evict(r) PROVE HealthyIsShared'
    BY <1>12 DEF Evict, Finish, Goto, RemoveIfCurrent
<1>13. ASSUME NEW r \in Request, Cancel(r) PROVE HealthyIsShared'
    BY <1>13 DEF Cancel, Unlock, Finish, Goto
<1>14. ASSUME NEW c \in Conn, GoAway(c) PROVE HealthyIsShared'
    BY <1>14 DEF GoAway
<1>15. ASSUME NEW c \in Conn, Die(c) PROVE HealthyIsShared'
    BY <1>15 DEF Die
<1>16. CASE UNCHANGED vars
    BY <1>16 DEF vars
<1>17. QED
    BY <1>1, <1>2, <1>3, <1>4, <1>5, <1>6, <1>7, <1>8,
       <1>9, <1>10, <1>11, <1>12, <1>13, <1>14, <1>15, <1>16
    DEF Next, Step, Take, Dial, Hand, Settle

-----------------------------------------------------------------------------
(* The theorems.                                                           *)

\* No client is cached and no request has been sent when the cache is created.
LEMMA InitIInv == Init => IInv
<1> SUFFICES ASSUME Init PROVE IInv
    OBVIOUS
<1> USE RequestAssumption DEF Init
<1>1. TypeOK
    BY DEF TypeOK, Location, Final
<1>2. LockInv
    BY DEF LockInv
<1>3. ClientsInv
    BY DEF ClientsInv, ClientInv, Conn, NoConn, Final
<1>4. RefusalsInv
    <2>1. \A r \in Request : Len(refused[r]) = 0
        BY EmptyIsZero
    <2>2. \A r \in Request : refused[r] = <<>> /\ pc[r] = "start"
        OBVIOUS
    <2>3. ASSUME NEW r \in Request PROVE RefusedInv(r)
        BY <2>1, <2>2 DEF RefusedInv
    <2>4. QED
        BY <2>3 DEF RefusalsInv
<1>5. SentInv
    BY DEF SentInv
<1>6. HealthyIsShared
    BY DEF HealthyIsShared
<1>7. QED
    BY <1>1, <1>2, <1>3, <1>4, <1>5, <1>6 DEF IInv

\* The parts lean on one another, so they are kept together.
LEMMA IInvStep == IInv /\ [Next]_vars => IInv'
BY TypeStep, LockStep, ClientsStep, RefusalsStep, SentStep, SharedStep DEF IInv

\* Whatever is dialled, refused, cancelled or closed, the invariant holds.
THEOREM Invariance == Spec => []IInv
BY InitIInv, IInvStep, PTL DEF Spec

\* For all three caches and every number of callers: the connection that works
\* is the one that is shared, no late failure of another evicts it, and what one
\* connection refused the pool has tried on a second one.
THEOREM SharingIsSoundHolds == Spec => []SharingIsSound
<1>1. IInv => RetryIsElsewhere
    <2> SUFFICES ASSUME IInv, NEW r \in Request
                 PROVE  /\ Len(refused[r]) <= 2
                        /\ Len(refused[r]) = 2 => refused[r][1] # refused[r][2]
        BY DEF RetryIsElsewhere
    <2>1. refused[r] \in Seq(Conn)
        BY DEF IInv, TypeOK
    <2>2. refused[r] = <<>> => Len(refused[r]) = 0
        BY EmptyIsZero
    <2>3. refused[r] = <<>> \/ Len(refused[r]) \in {1, 2}
        BY DEF IInv, RefusalsInv, RefusedInv
    <2>4. Len(refused[r]) = 2 => refused[r][1] # refused[r][2]
        BY DEF IInv, RefusalsInv, RefusedInv
    <2>5. Len(refused[r]) <= 2
        <3>1. CASE refused[r] = <<>>
            BY <2>2, <3>1
        <3>2. CASE Len(refused[r]) = 1
            BY <3>2
        <3>3. CASE Len(refused[r]) = 2
            BY <3>3
        <3>4. QED
            BY <2>3, <3>1, <3>2, <3>3
    <2>6. QED
        BY <2>4, <2>5
<1>2. IInv => SharingIsSound
    BY <1>1 DEF IInv, SharingIsSound
<1>3. QED
    BY <1>2, Invariance, PTL

-----------------------------------------------------------------------------
(* The refinement: every step of the cache is a delivery, a settlement or  *)
(* nothing at all to the caller.                                           *)

delivered == {r \in Request : sent[r] = 1}
outcome   == [r \in Request |-> IF pc[r] \in Final THEN pc[r] ELSE "open"]

\* A step that hands nothing to a connection and settles no request is invisible.
LEMMA Invisible ==
    ASSUME UNCHANGED sent,
           \A r \in Request : pc'[r] = pc[r] \/ (pc[r] \notin Final /\ pc'[r] \notin Final)
    PROVE  delivered' = delivered /\ outcome' = outcome
BY DEF delivered, outcome

\* A step that ends the call of one request and sends nothing settles it.
LEMMA Settles ==
    ASSUME TypeOK, NEW r \in Request, NEW o \in Final,
           pc[r] \notin Final, Finish(r, o), UNCHANGED sent,
           o = "ok" => sent[r] = 1
    PROVE  Promise!Next
<1>1. /\ \A q \in Request : pc'[q] = IF q = r THEN o ELSE pc[q]
      /\ o \in {"ok", "error", "cancelled"}
    BY DEF TypeOK, Finish, Goto, Final
<1>2. outcome[r] = "open" /\ outcome' = [outcome EXCEPT ![r] = o]
    BY <1>1 DEF outcome, Final
<1>3. UNCHANGED delivered /\ (o = "ok" => r \in delivered)
    BY DEF delivered
<1>4. Promise!Settle(r, o)
    BY <1>2, <1>3 DEF Promise!Settle, delivered, outcome
<1>5. QED
    BY <1>1, <1>4 DEF Promise!Next

\* The step in which a request leaves for a connection delivers it, for good.
LEMMA Delivers ==
    ASSUME TypeOK, SentInv, NEW r \in Request, Submit(r)
    PROVE  Promise!Next
<1>1. /\ sent[r] = 0
      /\ \A q \in Request : sent'[q] = IF q = r THEN 1 ELSE sent[q]
      /\ \A q \in Request : pc'[q] = IF q = r THEN "await" ELSE pc[q]
      /\ pc[r] = "ready"
    BY DEF SentInv, Submit, Goto, TypeOK
<1>2. r \notin delivered /\ delivered' = delivered \cup {r}
    BY <1>1 DEF delivered
<1>3. outcome[r] = "open" /\ UNCHANGED outcome
    BY <1>1 DEF outcome, Final
<1>4. Promise!Deliver(r)
    BY <1>2, <1>3 DEF Promise!Deliver, delivered, outcome
<1>5. QED
    BY <1>4 DEF Promise!Next

\* Each step of the cache is a step of RequestOnce, or a stutter.
LEMMA StepRefines ==
    ASSUME TypeOK, RefusalsInv, SentInv, [Next]_vars
    PROVE  [Promise!Next]_<<delivered, outcome>>
<1> USE DEF Goto, Final, TypeOK
<1>1. ASSUME NEW r \in Request, Take(r) PROVE UNCHANGED <<delivered, outcome>>
    BY <1>1, Invisible DEF Take, PoolLookup, LockedLookup
<1>2. ASSUME NEW r \in Request, NEW c \in Conn, Connected(r, c)
      PROVE  UNCHANGED <<delivered, outcome>>
    BY <1>2, Invisible DEF Connected
<1>3. ASSUME NEW r \in Request, ConnectFails(r) PROVE Promise!Next
    BY <1>3, Settles DEF ConnectFails
<1>4. ASSUME NEW r \in Request, Publish(r) PROVE UNCHANGED <<delivered, outcome>>
    BY <1>4, Invisible DEF Publish
<1>5. ASSUME NEW r \in Request, Submit(r) PROVE Promise!Next
    BY <1>5, Delivers
<1>6. ASSUME NEW r \in Request, Refuse(r) PROVE UNCHANGED <<delivered, outcome>>
    BY <1>6, Invisible DEF Refuse
<1>7. ASSUME NEW r \in Request, Unsupported(r) PROVE Promise!Next
    BY <1>7, Settles DEF Unsupported
<1>8. ASSUME NEW r \in Request, Answered(r) PROVE Promise!Next
    BY <1>8, Settles DEF Answered, SentInv
<1>9. ASSUME NEW r \in Request, StreamFails(r) PROVE Promise!Next
    BY <1>9, Settles DEF StreamFails
<1>10. ASSUME NEW r \in Request, ConnectionFails(r)
       PROVE  Promise!Next \/ UNCHANGED <<delivered, outcome>>
    <2>1. CASE kind = "pool"
        BY <1>10, <2>1, Settles DEF ConnectionFails
    <2>2. CASE kind # "pool"
        BY <1>10, <2>2, Invisible DEF ConnectionFails
    <2>3. QED
        BY <2>1, <2>2
<1>11. ASSUME NEW r \in Request, Evict(r)
       PROVE  Promise!Next \/ UNCHANGED <<delivered, outcome>>
    <2>1. CASE Len(refused[r]) = 1
        BY <1>11, <2>1, Invisible DEF Evict, Finish
    <2>2. CASE Len(refused[r]) # 1
        BY <1>11, <2>2, Settles DEF Evict
    <2>3. QED
        BY <2>1, <2>2
<1>12. ASSUME NEW r \in Request, Cancel(r) PROVE Promise!Next
    BY <1>12, Settles DEF Cancel
<1>13. ASSUME NEW c \in Conn, GoAway(c) \/ Die(c) PROVE UNCHANGED <<delivered, outcome>>
    BY <1>13, Invisible DEF GoAway, Die
<1>14. CASE UNCHANGED vars
    BY <1>14, Invisible DEF vars
<1>15. QED
    BY <1>1, <1>2, <1>3, <1>4, <1>5, <1>6, <1>7, <1>8, <1>9, <1>10, <1>11,
       <1>12, <1>13, <1>14 DEF Next, Step, Dial, Hand, Settle

\* Each of the three caches implements RequestOnce, whatever connections close
\* and however many callers overlap: nothing is delivered twice, nothing that
\* was reported as failed is delivered later, and no answer comes unsent.
THEOREM ImplementsRequestOnceHolds == Spec => ImplementsRequestOnce
<1>1. Init => Promise!Init
    BY DEF Init, Promise!Init, Final
<1>2. IInv /\ [Next]_vars => [Promise!Next]_<<delivered, outcome>>
    BY StepRefines DEF IInv
<1>3. QED
    BY <1>1, <1>2, Invariance, PTL
    DEF Spec, ImplementsRequestOnce, Promise!Spec, Promise!vars, delivered, outcome
=============================================================================
