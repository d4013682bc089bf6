---------------------------- MODULE H3DriverProofs ----------------------------
(***************************************************************************)
(* Proofs about H3Driver: a message that ends cleanly on one side of an    *)
(* HTTP/3 stream is the whole message of the other side, whichever of the  *)
(* driver's passes, full channels, resets, stops and dropped bodies come   *)
(* in between; and the routes of a listener lead to the connection that    *)
(* its clients mean.                                                       *)
(*                                                                         *)
(* The streams never touch one another, so the invariant is one of a single *)
(* stream, and each operation on a stream is shown to keep it before the   *)
(* actions are looked at.  Inbound, the chunks the peer has sent are those *)
(* the application has read, those in its channel and those on the wire,   *)
(* until a reset or a dropped body breaks the sum; an end is handed on only *)
(* behind the last of them.  Outbound, the same holds of the chunks the    *)
(* task has produced.                                                      *)
(***************************************************************************)
EXTENDS H3Driver, FiniteSetTheorems, SequenceTheorems, TLAPS

\* The values of a stream's fields.
Frame == {"head", "bad", "info", "data", "trailers", "fin", "reset"}
Given == {"data", "trailers", "end", "error"}
Final == Given \ {"data"}
OutFrame == {"head", "data", "fin", "trailers", "error"}

Kinds == {"get", "bare", "head", "websocket", "unused"}
Lives == {"idle", "queued", "pending", "open", "gone"}
Wires == Seq(Frame)
Inputs == Seq(Given)
Endings == Seq(Final)
Outputs == Seq(OutFrame)
Lengths == 0..Any
Ends == {"no", "fin", "reset"}
Verdicts == {"no", "clean", "error"}
Works == {"none", "run", "done", "failed", "aborted"}
Answers == {"none", "waiting", "ok", "dropped", "late", "error"}
Flags == BOOLEAN
Counts == Nat

StreamType ==
    [kind : Kinds, life : Lives,
     wire : Wires, began : Flags, sentN : Counts, sentEnd : Ends, length : Lengths, stop : Flags,
     readable : Flags, readDone : Flags, pendIn : Endings, inq : Inputs, left : Lengths,
     recv : Flags, gotN : Counts, gotEnd : Verdicts,
     task : Works, head : Flags, taskN : Counts, outq : Outputs, pendOut : Outputs,
     writeDone : Flags, peerN : Counts, peerEnd : Ends,
     response : Answers, infos : Counts]

\* The chunks among the frames of a queue.
DataAt(s) == {i \in 1..Len(s) : s[i] = "data"}
Chunks(s) == Cardinality(DataAt(s))

Has(s, f) == \E i \in 1..Len(s) : s[i] = f
LastOnly(s, f) == \A i \in 1..Len(s) : s[i] = f => i = Len(s)
Once(s, f) == \A i, j \in 1..Len(s) : s[i] = f /\ s[j] = f => i = j

-----------------------------------------------------------------------------
(* The invariant of one stream, the peer's side first.                     *)

Awaits(x) == x.response \in {"waiting", "dropped"}

\* What stands on the wire, and in which order.
WireOk(r, x) ==
    /\ x.wire # <<>> => x.life = "open" \/ (x.life = "idle" /\ r = "server")
    /\ Has(x.wire, "head") => x.began
    /\ Once(x.wire, "head")
    /\ Has(x.wire, "fin") => x.sentEnd = "fin"
    /\ LastOnly(x.wire, "fin")
    /\ Has(x.wire, "reset") \/ Has(x.wire, "bad") => x.sentEnd = "reset"
    /\ \A i \in 1..Len(x.wire) : x.wire[i] = "trailers" =>
          x.sentEnd = "fin" /\ \A j \in 1..Len(x.wire) : j > i => x.wire[j] # "data"
    /\ ~x.began => x.length = Any /\ x.sentN = 0

\* A stream that is not open yet.
Untouched(r, x) ==
    /\ x.pendIn = <<>> /\ x.inq = <<>> /\ x.left = Any /\ x.recv
    /\ x.gotN = 0 /\ x.gotEnd = "no"
    /\ x.task = "none" /\ x.taskN = 0 /\ x.outq = <<>> /\ x.pendOut = <<>>
    /\ x.peerN = 0 /\ x.peerEnd = "no" /\ ~x.writeDone
    /\ x.wire # <<>> => /\ x.wire[1] \in {"head", "bad"}
                        /\ x.sentEnd # "reset" => Chunks(x.wire) = x.sentN
    /\ r = "client" => ~x.began /\ x.sentEnd = "no"
    /\ IF x.life = "idle" THEN x.response = "none" ELSE Awaits(x)

\* Before the head of the response, nothing of it.
HeadFirst(x) ==
    /\ x.recv /\ x.gotN = 0 /\ x.gotEnd = "no" /\ x.left = Any /\ Chunks(x.inq) = 0
    /\ x.began /\ x.sentEnd # "reset" => Has(x.wire, "head")
    /\ \A i \in 1..Len(x.wire) : x.wire[i] \in {"data", "trailers"} =>
          \E j \in 1..Len(x.wire) : j < i /\ x.wire[j] = "head"

\* Behind it: what may still come, by its Content-Length.
LengthKept(r, x) ==
    /\ x.began /\ ~Has(x.wire, "head")
    /\ r = "client" /\ x.kind = "head" => x.left = 0
    /\ x.kind = "get" /\ x.recv =>
         /\ x.left = Any <=> x.length = Any
         /\ x.left # Any => x.left + x.gotN + Chunks(x.inq) = x.length

\* The message as the application is promised it.
Whole(x, n) ==
    /\ x.sentEnd = "fin" /\ n = x.sentN
    /\ x.kind = "get" => x.length \in {Any, x.sentN}

Inbound(r, x) ==
    /\ WireOk(r, x)
    /\ x.life \in {"idle", "queued", "pending"} => Untouched(r, x)
    /\ x.life = "open" => IF Awaits(x) THEN HeadFirst(x) ELSE LengthKept(r, x)
    /\ x.life = "open" /\ x.recv /\ x.sentEnd # "reset" =>
         x.gotN + Chunks(x.inq) + Chunks(x.wire) = x.sentN
    /\ Has(x.pendIn, "end") => x.sentEnd = "fin" /\ x.wire = <<>>
    /\ LastOnly(x.pendIn, "end")
    /\ Has(x.pendIn, "trailers") => x.sentEnd = "fin" /\ ~Has(x.wire, "data")
    /\ Has(x.inq, "end") => /\ Whole(x, x.gotN + Chunks(x.inq))
                            /\ x.wire = <<>> /\ x.pendIn = <<>>
    /\ LastOnly(x.inq, "end")
    /\ r = "client" /\ x.kind = "head" => x.gotN = 0 /\ Chunks(x.inq) = 0
    /\ x.gotEnd = "clean" => Whole(x, x.gotN)
    /\ Awaits(x) => r = "client"

\* The task's side.
Outbound(x) ==
    /\ x.task = "run" => x.life = "open"
    /\ x.life = "open" => x.task # "none"
    /\ x.life = "open" /\ ~x.writeDone =>
         /\ x.peerN + Chunks(x.pendOut) + Chunks(x.outq) = x.taskN
         /\ x.peerEnd = "no"
    /\ Has(x.outq, "fin") \/ Has(x.outq, "trailers") => x.task = "done"
    /\ LastOnly(x.outq, "fin") /\ LastOnly(x.outq, "trailers")
    /\ x.pendOut # <<>> =>
         /\ Len(x.pendOut) = 1
         /\ x.pendOut[1] \in {"fin", "trailers"} => x.task = "done" /\ x.outq = <<>>
    /\ x.peerEnd = "fin" => x.task = "done" /\ x.peerN = x.taskN

StreamOk(r, x) == x \in StreamType /\ Inbound(r, x) /\ Outbound(x)

-----------------------------------------------------------------------------
(* The invariant.                                                          *)

Modes ==
    /\ role \in Role
    /\ driver \in {"handshake", "up", "stopped"}
    /\ clients \in {"open", "closed", "gone"}
    /\ goaway \in BOOLEAN /\ misled \in BOOLEAN
    /\ settings \in [here : BOOLEAN, allow : {"websocket", "plain"}]
    /\ seen \in 0..MaxRequests

StreamsInv == st = [s \in Stream |-> st[s]] /\ \A s \in Stream : StreamOk(role, st[s])

\* The requests in the channel are those that are queued, once each.
QueueInv ==
    /\ chan \in Seq(Stream)
    /\ \A i \in 1..Len(chan) : st[chan[i]].life = "queued"
    /\ \A i, j \in 1..Len(chan) : i # j => chan[i] # chan[j]

\* The table routes two ids to every connection that has not been joined, and
\* nothing else: its own, and the one the client chose, which no other has.
RouteInv ==
    /\ conn \in [Conn -> [at : {"none", "run", "done", "joined"}, initial : Cid \cup {0}]]
    /\ routes \subseteq (Cid \cup Conn) \X Conn
    /\ ~misled
    /\ \A c \in Conn : conn[c].at \in {"run", "done"} =>
          conn[c].initial \in Cid /\ <<c, c>> \in routes /\ <<conn[c].initial, c>> \in routes
    /\ \A r \in routes : conn[r[2]].at \in {"run", "done"} /\ r[1] \in {r[2], conn[r[2]].initial}
    /\ \A r, q \in routes : r[1] = q[1] => r = q

IInv == Modes /\ StreamsInv /\ QueueInv /\ RouteInv

-----------------------------------------------------------------------------
(* Queues, and the chunks in them.                                         *)

\* The chunks of a queue are some number of its frames.
LEMMA ChunksType ==
    ASSUME NEW S, NEW s \in Seq(S)
    PROVE  IsFiniteSet(DataAt(s)) /\ Chunks(s) \in Nat
<1>1. Len(s) \in Nat
    OBVIOUS
<1>2. IsFiniteSet(1..Len(s))
    BY <1>1, FS_Interval
<1>3. DataAt(s) \in SUBSET (1..Len(s))
    BY DEF DataAt
<1>4. IsFiniteSet(DataAt(s))
    BY <1>2, <1>3, FS_Subset
<1>5. QED
    BY <1>4, FS_CardinalityType DEF Chunks

\* None of them without data.
LEMMA ChunksNone ==
    ASSUME NEW S, NEW s \in Seq(S)
    PROVE  Chunks(s) = 0 <=> ~Has(s, "data")
<1>1. IsFiniteSet(DataAt(s))
    BY ChunksType
<1>2. Chunks(s) = 0 <=> DataAt(s) = {}
    BY <1>1, FS_EmptySet DEF Chunks
<1>3. QED
    BY <1>2 DEF DataAt, Has

\* The empty queue.
LEMMA Nothing ==
    ASSUME NEW S
    PROVE  /\ <<>> \in Seq(S) /\ Len(<<>>) = 0 /\ Chunks(<<>>) = 0
           /\ \A f : ~Has(<<>>, f) /\ LastOnly(<<>>, f) /\ Once(<<>>, f)
<1>1. <<>> \in Seq(S) /\ Len(<<>>) = 0
    OBVIOUS
<1>2. \A f : ~Has(<<>>, f) /\ LastOnly(<<>>, f) /\ Once(<<>>, f)
    BY <1>1 DEF Has, LastOnly, Once
<1>3. QED
    BY <1>1, <1>2, ChunksNone

\* A frame joins the queue.
LEMMA Joins ==
    ASSUME NEW S, NEW s \in Seq(S), NEW e \in S
    PROVE  /\ Append(s, e) \in Seq(S) /\ Append(s, e) # <<>>
           /\ Chunks(Append(s, e)) = Chunks(s) + (IF e = "data" THEN 1 ELSE 0)
           /\ \A f : Has(Append(s, e), f) <=> Has(s, f) \/ e = f
           /\ \A f : ~Has(s, f) => LastOnly(Append(s, e), f)
           /\ \A f : Once(s, f) /\ (e = f => ~Has(s, f)) => Once(Append(s, e), f)
           /\ \A i \in 1..Len(s) : Append(s, e)[i] = s[i]
           /\ s = <<>> => Append(s, e)[1] = e
<1> DEFINE u == Append(s, e)
<1>1. u \in Seq(S) /\ Len(u) = Len(s) + 1 /\ Len(s) \in Nat
    OBVIOUS
<1>2. \A i \in 1..Len(s) : u[i] = s[i]
    OBVIOUS
<1>3. u[Len(s) + 1] = e
    OBVIOUS
<1>4. 1..Len(u) = (1..Len(s)) \cup {Len(s) + 1} /\ Len(s) + 1 \notin 1..Len(s)
    BY <1>1
<1> HIDE DEF u
<1>5. \A f : Has(u, f) <=> Has(s, f) \/ e = f
    BY <1>2, <1>3, <1>4 DEF Has
<1>6. \A f : ~Has(s, f) => LastOnly(u, f)
    BY <1>1, <1>2, <1>3, <1>4 DEF Has, LastOnly
<1>7. Chunks(u) = Chunks(s) + (IF e = "data" THEN 1 ELSE 0)
    <2>1. IsFiniteSet(DataAt(s)) /\ Chunks(s) \in Nat
        BY ChunksType
    <2>2. CASE e = "data"
        <3>1. DataAt(u) = DataAt(s) \cup {Len(s) + 1} /\ Len(s) + 1 \notin DataAt(s)
            BY <1>2, <1>3, <1>4, <2>2 DEF DataAt
        <3>2. Cardinality(DataAt(s) \cup {Len(s) + 1}) = Cardinality(DataAt(s)) + 1
            BY <2>1, <3>1, FS_AddElement
        <3>3. QED
            BY <2>2, <3>1, <3>2 DEF Chunks
    <2>3. CASE e # "data"
        <3>1. DataAt(u) = DataAt(s)
            BY <1>2, <1>3, <1>4, <2>3 DEF DataAt
        <3>2. QED
            BY <2>1, <2>3, <3>1 DEF Chunks
    <2>4. QED
        BY <2>2, <2>3
<1>8. u # <<>> /\ \A f : Once(s, f) /\ (e = f => ~Has(s, f)) => Once(u, f)
    BY <1>1, <1>2, <1>3, <1>4 DEF Has, Once
<1>9. s = <<>> => u[1] = e
    BY <1>1, <1>3
<1>10. QED
    BY <1>1, <1>2, <1>5, <1>6, <1>7, <1>8, <1>9 DEF u

\* The first frame leaves the queue.
LEMMA Leaves ==
    ASSUME NEW S, NEW s \in Seq(S), s # <<>>
    PROVE  /\ Tail(s) \in Seq(S) /\ Head(s) \in S /\ Head(s) = s[1] /\ Len(s) \in Nat \ {0}
           /\ Len(Tail(s)) = Len(s) - 1
           /\ \A i \in 1..Len(Tail(s)) : Tail(s)[i] = s[i + 1] /\ i + 1 \in 1..Len(s)
           /\ Chunks(s) = Chunks(Tail(s)) + (IF Head(s) = "data" THEN 1 ELSE 0)
           /\ \A f : Has(s, f) <=> Has(Tail(s), f) \/ Head(s) = f
           /\ \A f : LastOnly(s, f) => LastOnly(Tail(s), f)
           /\ \A f : LastOnly(s, f) /\ Head(s) = f => Tail(s) = <<>>
           /\ \A f : Once(s, f) => Once(Tail(s), f)
           /\ \A f : Once(s, f) /\ Head(s) = f => ~Has(Tail(s), f)
<1> DEFINE u == Tail(s)
<1>1. u \in Seq(S) /\ Len(u) = Len(s) - 1 /\ Len(s) \in Nat \ {0}
    OBVIOUS
<1>2. \A i \in 1..Len(u) : u[i] = s[i + 1] /\ i + 1 \in 1..Len(s)
    OBVIOUS
<1>3. Head(s) = s[1] /\ s[1] \in S
    OBVIOUS
<1> HIDE DEF u
<1>4. \A i \in 1..Len(s) : i = 1 \/ i - 1 \in 1..Len(u)
    BY <1>1
<1>5. \A f : Has(s, f) <=> Has(u, f) \/ Head(s) = f
    <2> TAKE f
    <2>1. ASSUME NEW i \in 1..Len(s), s[i] = f PROVE Has(u, f) \/ Head(s) = f
        <3>1. CASE i = 1
            BY <1>3, <2>1, <3>1
        <3>2. CASE i - 1 \in 1..Len(u)
            <4>1. u[i - 1] = s[(i - 1) + 1] /\ (i - 1) + 1 = i
                BY <1>2, <3>2
            <4>2. QED
                BY <2>1, <3>2, <4>1 DEF Has
        <3>3. QED
            BY <1>4, <3>1, <3>2
    <2>2. Has(u, f) => Has(s, f)
        BY <1>2 DEF Has
    <2>3. Head(s) = f => Has(s, f)
        BY <1>1, <1>3 DEF Has
    <2>4. QED
        BY <2>1, <2>2, <2>3 DEF Has
<1>6. \A f : LastOnly(s, f) => LastOnly(u, f)
    BY <1>1, <1>2 DEF LastOnly
<1>7. \A f : LastOnly(s, f) /\ Head(s) = f => u = <<>>
    <2>1. ASSUME NEW f, LastOnly(s, f), Head(s) = f PROVE u = <<>>
        <3>1. Len(s) = 1
            BY <1>1, <1>3, <2>1 DEF LastOnly
        <3>2. QED
            BY <1>1, <3>1
    <2>2. QED
        BY <2>1
<1>8. Chunks(s) = Chunks(u) + (IF Head(s) = "data" THEN 1 ELSE 0)
    <2> DEFINE D == DataAt(u)
               E == DataAt(s) \ {1}
               g == [i \in D |-> i + 1]
    <2>1. IsFiniteSet(D) /\ Chunks(u) \in Nat /\ IsFiniteSet(DataAt(s)) /\ Chunks(s) \in Nat
        BY <1>1, ChunksType
    <2>2. g \in Bijection(D, E)
        <3>1. \A i \in D : i + 1 \in E /\ i \in Int
            BY <1>1, <1>2 DEF DataAt
        <3>2. \A j \in E : j - 1 \in D /\ (j - 1) + 1 = j
            <4>1. ASSUME NEW j \in E PROVE j - 1 \in D /\ (j - 1) + 1 = j
                <5>1. j \in 1..Len(s) /\ j # 1 /\ s[j] = "data"
                    BY DEF DataAt
                <5>2. j - 1 \in 1..Len(u) /\ (j - 1) + 1 = j
                    BY <1>1, <5>1
                <5>3. u[j - 1] = s[j]
                    BY <1>2, <5>2
                <5>4. QED
                    BY <5>1, <5>2, <5>3 DEF DataAt
            <4>2. QED
                BY <4>1
        <3>3. g \in [D -> E]
            BY <3>1
        <3>4. \A i, j \in D : g[i] = g[j] => i = j
            BY <3>1
        <3>5. \A j \in E : \E i \in D : g[i] = j
            BY <3>2
        <3> HIDE DEF D, E, g
        <3>6. QED
            BY <3>3, <3>4, <3>5 DEF Bijection, Injection, Surjection, IsInjective
    <2>3. Cardinality(E) = Cardinality(D)
        <3> HIDE DEF D, E, g
        <3>1. ExistsBijection(D, E)
            BY <2>2 DEF ExistsBijection
        <3>2. QED
            BY <2>1, <3>1, FS_Bijection
    <2>4. Cardinality(E) = IF 1 \in DataAt(s) THEN Chunks(s) - 1 ELSE Chunks(s)
        BY <2>1, FS_RemoveElement DEF Chunks
    <2>5. 1 \in DataAt(s) <=> Head(s) = "data"
        BY <1>1, <1>3 DEF DataAt
    <2>6. QED
        BY <2>1, <2>3, <2>4, <2>5 DEF Chunks
<1>9. \A f : Once(s, f) => Once(u, f)
    BY <1>1, <1>2 DEF Once
<1>10. \A f : Once(s, f) /\ Head(s) = f => ~Has(u, f)
    BY <1>1, <1>2, <1>3 DEF Once, Has
<1>11. QED
    BY <1>1, <1>2, <1>3, <1>5, <1>6, <1>7, <1>8, <1>9, <1>10 DEF u

-----------------------------------------------------------------------------
(* A stream leaves the table.                                              *)

\* The values that the operations put into a stream.
LEMMA Values ==
    /\ {"open", "gone", "queued", "pending"} \subseteq Lives
    /\ <<>> \in Wires /\ <<>> \in Inputs /\ <<>> \in Outputs
    /\ <<>> \in Endings /\ <<"error">> \in Endings
    /\ FALSE \in Flags /\ TRUE \in Flags
    /\ Any \in Lengths /\ 0 \in Lengths /\ 0 \in Counts
    /\ \A n \in Counts : n + 1 \in Counts
    /\ {"run", "done", "failed", "aborted"} \subseteq Works
    /\ {"error", "waiting", "ok", "late", "dropped"} \subseteq Answers
    /\ {"fin", "reset"} \subseteq Ends /\ {"no", "clean", "error"} \subseteq Verdicts
BY BoundAssumption
   DEF Lives, Wires, Inputs, Endings, Outputs, Frame, Given, Final, OutFrame, Flags, Lengths, Any, Counts,
       Works, Answers, Ends, Verdicts

\* What is left of a stream that has left the table.
Gone(z, x) ==
    /\ z \in StreamType
    /\ z.life = "gone" /\ z.wire = <<>> /\ z.pendIn = <<>> /\ z.outq = <<>> /\ z.pendOut = <<>>
    /\ z.kind = x.kind /\ z.inq = x.inq
    /\ z.began = x.began /\ z.sentN = x.sentN /\ z.sentEnd = x.sentEnd /\ z.length = x.length
    /\ z.gotN = x.gotN /\ z.gotEnd = x.gotEnd /\ z.taskN = x.taskN /\ z.peerN = x.peerN
    /\ z.peerEnd = "fin" => x.peerEnd = "fin"
    /\ z.task = IF x.task = "run" THEN "aborted" ELSE x.task
    /\ z.response = IF x.response = "waiting" THEN "error" ELSE x.response

\* What Removed does, field by field.
LEMMA RemovedGone ==
    ASSUME NEW x \in StreamType
    PROVE  Gone(Removed(x), x) /\ Removed(x).peerEnd = x.peerEnd
<1> DEFINE a == [x EXCEPT !.life = "gone", !.wire = <<>>, !.pendIn = <<>>, !.readable = FALSE]
           b == [a EXCEPT !.outq = <<>>, !.pendOut = <<>>, !.stop = FALSE, !.left = Any]
           c == [b EXCEPT !.infos = 0, !.readDone = TRUE, !.writeDone = TRUE]
           d == [c EXCEPT !.task = IF @ = "run" THEN "aborted" ELSE @]
           e == [d EXCEPT !.response = IF @ = "waiting" THEN "error" ELSE @]
<1>1. Removed(x) = e
    BY DEF Removed
<1>2. a \in StreamType
    BY Values DEF StreamType
<1> HIDE DEF a
<1>3. b \in StreamType
    BY <1>2, Values DEF StreamType
<1> HIDE DEF b
<1>4. c \in StreamType
    BY <1>3, Values DEF StreamType
<1> HIDE DEF c
<1>5. d \in StreamType
    BY <1>4, Values DEF StreamType
<1> HIDE DEF d
<1>6. e \in StreamType
    BY <1>5, Values DEF StreamType
<1> HIDE DEF e
<1> DEFINE z == Removed(x)
<1>7. /\ z.life = "gone" /\ z.wire = <<>> /\ z.pendIn = <<>> /\ z.outq = <<>> /\ z.pendOut = <<>>
      /\ z.kind = x.kind /\ z.inq = x.inq
      /\ z.began = x.began /\ z.sentN = x.sentN /\ z.sentEnd = x.sentEnd /\ z.length = x.length
      /\ z.gotN = x.gotN /\ z.gotEnd = x.gotEnd /\ z.taskN = x.taskN /\ z.peerN = x.peerN
      /\ z.peerEnd = x.peerEnd
      /\ z.task = IF x.task = "run" THEN "aborted" ELSE x.task
      /\ z.response = IF x.response = "waiting" THEN "error" ELSE x.response
    BY DEF Removed, StreamType
<1> HIDE DEF z
<1>8. QED
    BY <1>1, <1>6, <1>7 DEF Gone, z

\* A reset is a removal of which the peer learns, unless it has had the end.
LEMMA ResetGone ==
    ASSUME NEW x \in StreamType
    PROVE  Gone(Reset(x), x)
<1> DEFINE y == [x EXCEPT !.peerEnd = IF @ = "no" THEN "reset" ELSE @]
<1>1. y \in StreamType
    BY Values DEF StreamType
<1>2. /\ y.kind = x.kind /\ y.inq = x.inq
      /\ y.began = x.began /\ y.sentN = x.sentN
      /\ y.sentEnd = x.sentEnd /\ y.length = x.length
      /\ y.gotN = x.gotN /\ y.gotEnd = x.gotEnd
      /\ y.taskN = x.taskN /\ y.peerN = x.peerN /\ y.task = x.task
      /\ y.response = x.response
      /\ y.peerEnd = "fin" => x.peerEnd = "fin"
    BY DEF StreamType
<1>3. Reset(x) = Removed(y)
    BY DEF Reset
<1> HIDE DEF y
<1>4. QED
    BY <1>1, <1>2, <1>3, RemovedGone DEF Gone

\* It keeps what it promised: a body that had ended on one side had ended there
\* whole.
LEMMA GoneOk ==
    ASSUME NEW x, Inbound(role, x), Outbound(x), NEW z, Gone(z, x)
    PROVE  StreamOk(role, z)
<1>1. \A f : ~Has(<<>>, f) /\ LastOnly(<<>>, f) /\ Once(<<>>, f)
    BY Nothing
<1>2. \A i \in 1..Len(<<>>) : FALSE
    OBVIOUS
<1>3. WireOk(role, z)
    BY <1>1, <1>2 DEF WireOk, Inbound, Gone
<1>4. Inbound(role, z)
    BY <1>1, <1>3 DEF Inbound, Whole, Awaits, Gone
<1>5. Outbound(z)
    BY <1>1 DEF Outbound, Gone
<1>6. QED
    BY <1>4, <1>5 DEF StreamOk, Gone

\* Resetting and removing a stream keep the invariant of it.
LEMMA ResetOk ==
    ASSUME NEW x, StreamOk(role, x)
    PROVE  StreamOk(role, Reset(x)) /\ StreamOk(role, Removed(x))
BY ResetGone, RemovedGone, GoneOk DEF StreamOk

-----------------------------------------------------------------------------
(* What the peer sends joins the wire.                                     *)

\* Everything but the peer's side of a stream.
SameBeside(x, y) ==
    /\ y.kind = x.kind /\ y.life = x.life /\ y.pendIn = x.pendIn /\ y.inq = x.inq
    /\ y.left = x.left /\ y.recv = x.recv /\ y.gotN = x.gotN /\ y.gotEnd = x.gotEnd
    /\ y.task = x.task /\ y.taskN = x.taskN /\ y.outq = x.outq /\ y.pendOut = x.pendOut
    /\ y.writeDone = x.writeDone /\ y.peerN = x.peerN /\ y.peerEnd = x.peerEnd
    /\ y.response = x.response

\* The task's side of a stream reads no other field.
LEMMA OutboundSame ==
    ASSUME NEW x, Outbound(x), NEW y, y.life = x.life, y.task = x.task, y.taskN = x.taskN,
           y.outq = x.outq, y.pendOut = x.pendOut, y.writeDone = x.writeDone,
           y.peerN = x.peerN, y.peerEnd = x.peerEnd
    PROVE  Outbound(y)
BY DEF Outbound

\* The head first, then data, trailers and the end.
SendsNext(x, y, f) ==
    /\ y.wire = Append(x.wire, f)
    /\ x.life = "open" \/ (role = "server" /\ x.life = "idle" /\ (x.wire = <<>> => f \in {"head", "bad"}))
    /\ f \in {"head", "bad", "info"} => ~x.began
    /\ f \in {"data", "trailers"} => x.began
    /\ y.began = (x.began \/ f \in {"head", "bad"})
    /\ y.sentN = x.sentN + (IF f = "data" THEN 1 ELSE 0)
    /\ y.length # x.length => f = "head"
    /\ x.sentEnd = "no"
    /\ y.sentEnd = CASE f \in {"fin", "trailers"} -> "fin"
                     [] f \in {"reset", "bad"} -> "reset"
                     [] OTHER -> "no"

\* The peer's next frame keeps the account of what it has sent.
LEMMA SendsOk ==
    ASSUME NEW x, StreamOk(role, x), NEW y \in StreamType, SameBeside(x, y),
           NEW f \in Frame, SendsNext(x, y, f),
           role = "client" => x.life = "open"
    PROVE  StreamOk(role, y)
<1> DEFINE w == Append(x.wire, f)
<1>1. x \in StreamType /\ Inbound(role, x) /\ Outbound(x) /\ WireOk(role, x) /\ x.sentEnd = "no"
    BY DEF StreamOk, Inbound, SendsNext
<1>2. x.wire \in Seq(Frame) /\ x.inq \in Seq(Given)
      /\ x.sentN \in Nat /\ x.gotN \in Nat
    BY <1>1 DEF StreamType, Wires, Inputs, Counts
<1>3. /\ w \in Seq(Frame) /\ w # <<>>
      /\ Chunks(w) = Chunks(x.wire) + (IF f = "data" THEN 1 ELSE 0)
      /\ \A g : Has(w, g) <=> Has(x.wire, g) \/ f = g
      /\ \A g : ~Has(x.wire, g) => LastOnly(w, g)
      /\ \A g : Once(x.wire, g) /\ (f = g => ~Has(x.wire, g)) => Once(w, g)
      /\ \A i \in 1..Len(x.wire) : w[i] = x.wire[i]
      /\ x.wire = <<>> => w[1] = f
    BY <1>2, Joins
<1>4. Len(w) = Len(x.wire) + 1 /\ Len(x.wire) \in Nat /\ w[Len(w)] = f
    BY <1>2
<1>5. y.wire = w
    BY DEF SendsNext
<1>6. Chunks(x.wire) \in Nat /\ Chunks(x.inq) \in Nat
    BY <1>2, ChunksType
<1> HIDE DEF w
<1>7. ~Has(x.wire, "fin") /\ ~Has(x.wire, "reset") /\ ~Has(x.wire, "bad")
    BY <1>1 DEF WireOk
<1>8. ~Has(x.wire, "trailers")
    BY <1>1 DEF WireOk, Has
<1>9. ~Has(x.pendIn, "end") /\ ~Has(x.pendIn, "trailers") /\ ~Has(x.inq, "end") /\ x.gotEnd # "clean"
    BY <1>1 DEF Inbound, Whole
<1>10. /\ y.began = (x.began \/ f \in {"head", "bad"})
       /\ f \in {"fin", "trailers"} => y.sentEnd = "fin"
       /\ f \in {"reset", "bad"} => y.sentEnd = "reset"
       /\ f \in {"head", "info", "data"} => y.sentEnd = "no"
    BY DEF SendsNext
<1>11. WireOk(role, y)
    <2>1. y.wire # <<>> => y.life = "open" \/ (y.life = "idle" /\ role = "server")
        BY DEF SendsNext, SameBeside
    <2>2. (Has(y.wire, "head") => y.began) /\ Once(y.wire, "head")
        <3>1. f = "head" => ~Has(x.wire, "head")
            BY <1>1 DEF WireOk, SendsNext
        <3>2. QED
            BY <1>1, <1>3, <1>5, <1>10, <3>1 DEF WireOk
    <2>3. (Has(y.wire, "fin") => y.sentEnd = "fin") /\ LastOnly(y.wire, "fin")
        BY <1>3, <1>5, <1>7, <1>10
    <2>4. Has(y.wire, "reset") \/ Has(y.wire, "bad") => y.sentEnd = "reset"
        BY <1>3, <1>5, <1>7, <1>10
    <2>5. ASSUME NEW i \in 1..Len(w), w[i] = "trailers"
          PROVE  y.sentEnd = "fin" /\ \A j \in 1..Len(w) : j > i => w[j] # "data"
        <3>1. i \notin 1..Len(x.wire)
            BY <1>3, <1>8, <2>5 DEF Has
        <3>2. i = Len(w)
            BY <1>4, <3>1
        <3>3. QED
            BY <1>4, <1>10, <2>5, <3>2
    <2>6. ASSUME ~y.began PROVE y.length = Any /\ y.sentN = 0
        <3>1. ~x.began /\ f # "head" /\ f # "data"
            BY <1>10, <2>6 DEF SendsNext
        <3>2. x.length = Any /\ x.sentN = 0
            BY <1>1, <3>1 DEF WireOk
        <3>3. QED
            BY <3>1, <3>2 DEF SendsNext
    <2>7. QED
        BY <1>5, <2>1, <2>2, <2>3, <2>4, <2>5, <2>6 DEF WireOk
<1>12. y.life \in {"idle", "queued", "pending"} => Untouched(role, y)
    <2>1. SUFFICES ASSUME y.life \in {"idle", "queued", "pending"} PROVE Untouched(role, y)
        OBVIOUS
    <2>2. Untouched(role, x) /\ role = "server" /\ x.life = "idle" /\ y.life = "idle"
        BY <1>1, <2>1 DEF Inbound, SameBeside, SendsNext, StreamType
    <2>3. y.wire[1] \in {"head", "bad"}
        <3>1. CASE x.wire = <<>>
            BY <1>3, <1>5, <2>2, <3>1 DEF SendsNext
        <3>2. CASE x.wire # <<>>
            <4>1. 1 \in 1..Len(x.wire)
                BY <1>2, <3>2
            <4>2. QED
                BY <1>3, <1>5, <2>2, <3>2, <4>1 DEF Untouched
        <3>3. QED
            BY <3>1, <3>2
    <2>4. Chunks(x.wire) = x.sentN
        <3>1. CASE x.wire = <<>>
            <4>1. ~x.began
                BY <3>1, <2>2 DEF SendsNext
            <4>2. QED
                BY <1>1, <3>1, <4>1, Nothing DEF WireOk
        <3>2. CASE x.wire # <<>>
            BY <1>1, <2>2, <3>2 DEF Untouched
        <3>3. QED
            BY <3>1, <3>2
    <2>5. Chunks(y.wire) = y.sentN
        BY <1>3, <1>5, <2>4 DEF SendsNext
    <2>6. QED
        BY <2>2, <2>3, <2>5 DEF Untouched, SameBeside
<1>13. y.life = "open" => IF Awaits(y) THEN HeadFirst(y) ELSE LengthKept(role, y)
    <2>1. SUFFICES ASSUME y.life = "open" PROVE IF Awaits(y) THEN HeadFirst(y) ELSE LengthKept(role, y)
        OBVIOUS
    <2>2. x.life = "open" /\ (Awaits(y) <=> Awaits(x))
        BY <2>1 DEF SameBeside, Awaits
    <2>3. CASE Awaits(x)
        <3>1. HeadFirst(x)
            BY <1>1, <2>2, <2>3 DEF Inbound
        <3>2. y.began /\ y.sentEnd # "reset" => Has(y.wire, "head")
            BY <1>1, <1>3, <1>5, <1>10, <3>1 DEF HeadFirst
        <3>3. ASSUME NEW i \in 1..Len(w), w[i] \in {"data", "trailers"}
              PROVE  \E j \in 1..Len(w) : j < i /\ w[j] = "head"
            <4>1. CASE i \in 1..Len(x.wire)
                <5>1. PICK j \in 1..Len(x.wire) : j < i /\ x.wire[j] = "head"
                    BY <1>3, <3>1, <3>3, <4>1 DEF HeadFirst
                <5>2. QED
                    BY <1>3, <1>4, <5>1
            <4>2. CASE i \notin 1..Len(x.wire)
                <5>1. i = Len(w) /\ f \in {"data", "trailers"}
                    BY <1>4, <3>3, <4>2
                <5>2. Has(x.wire, "head")
                    BY <1>1, <3>1, <5>1 DEF SendsNext, HeadFirst
                <5>3. QED
                    BY <1>3, <1>4, <5>1, <5>2 DEF Has
            <4>3. QED
                BY <4>1, <4>2
        <3>4. QED
            BY <1>5, <2>2, <2>3, <3>1, <3>2, <3>3 DEF HeadFirst, SameBeside
    <2>4. CASE ~Awaits(x)
        <3>1. LengthKept(role, x)
            BY <1>1, <2>2, <2>4 DEF Inbound
        <3>2. y.length = x.length /\ y.began /\ f # "head"
            BY <3>1 DEF LengthKept, SendsNext
        <3>3. ~Has(y.wire, "head")
            BY <1>3, <1>5, <3>1, <3>2 DEF LengthKept
        <3>4. QED
            BY <2>2, <2>4, <3>1, <3>2, <3>3 DEF LengthKept, SameBeside
    <2>5. QED
        BY <2>3, <2>4
<1>14. y.life = "open" /\ y.recv /\ y.sentEnd # "reset" =>
         y.gotN + Chunks(y.inq) + Chunks(y.wire) = y.sentN
    <2>1. SUFFICES ASSUME y.life = "open", y.recv
                   PROVE y.gotN + Chunks(y.inq) + Chunks(y.wire) = y.sentN
        OBVIOUS
    <2>2. x.gotN + Chunks(x.inq) + Chunks(x.wire) = x.sentN
        BY <1>1, <2>1 DEF Inbound, SameBeside
    <2>3. QED
        BY <1>2, <1>3, <1>5, <1>6, <2>2 DEF SameBeside, SendsNext
<1>15. Inbound(role, y)
    BY <1>1, <1>9, <1>11, <1>12, <1>13, <1>14 DEF Inbound, SameBeside, Awaits
<1>16. Outbound(y)
    BY <1>1, OutboundSame DEF SameBeside
<1>17. QED
    BY <1>15, <1>16 DEF StreamOk

\* The trailers are on the wire already; their end follows them.
LEMMA FinFollows ==
    ASSUME NEW x, StreamOk(role, x), x.life = "open" \/ (x.life = "idle" /\ role = "server"),
           x.sentEnd = "fin", x.wire # <<>>, ~Has(x.wire, "fin"),
           NEW y \in StreamType, SameBeside(x, y), y.wire = Append(x.wire, "fin"),
           y.began = x.began, y.sentN = x.sentN, y.sentEnd = x.sentEnd, y.length = x.length
    PROVE  StreamOk(role, y)
<1> DEFINE w == Append(x.wire, "fin")
<1>1. x \in StreamType /\ Inbound(role, x) /\ Outbound(x) /\ WireOk(role, x)
    BY DEF StreamOk, Inbound
<1>2. x.wire \in Seq(Frame) /\ "fin" \in Frame
    BY <1>1 DEF StreamType, Wires, Frame
<1>3. /\ w # <<>> /\ Chunks(w) = Chunks(x.wire) + 0
      /\ \A g : Has(w, g) <=> Has(x.wire, g) \/ "fin" = g
      /\ LastOnly(w, "fin")
      /\ Once(x.wire, "head") => Once(w, "head")
      /\ \A i \in 1..Len(x.wire) : w[i] = x.wire[i]
    BY <1>2, Joins
<1>4. Len(w) = Len(x.wire) + 1 /\ Len(x.wire) \in Nat \ {0} /\ w[Len(w)] = "fin"
    BY <1>2
<1>5. Chunks(w) = Chunks(x.wire) /\ y.wire = w
    BY <1>2, <1>3, ChunksType
<1> HIDE DEF w
<1>6. ~Has(x.pendIn, "end") /\ ~Has(x.inq, "end") /\ (Has(x.pendIn, "trailers") => ~Has(w, "data"))
    BY <1>1, <1>3 DEF Inbound
<1>7. \A i \in 1..Len(w) : i \in 1..Len(x.wire) \/ (i = Len(w) /\ w[i] = "fin")
    BY <1>4
<1>8. WireOk(role, y)
    <2>1. ASSUME NEW i \in 1..Len(w), w[i] = "trailers"
          PROVE  \A j \in 1..Len(w) : j > i => w[j] # "data"
        <3>1. i \in 1..Len(x.wire) /\ x.wire[i] = "trailers"
            BY <1>3, <1>7, <2>1
        <3>2. \A j \in 1..Len(x.wire) : j > i => x.wire[j] # "data"
            BY <1>1, <3>1 DEF WireOk
        <3>3. QED
            BY <1>3, <1>7, <3>2
    <2>2. QED
        BY <1>1, <1>3, <1>5, <2>1 DEF WireOk, SameBeside
<1>9. y.life \in {"idle", "queued", "pending"} => Untouched(role, y)
    <2>1. SUFFICES ASSUME y.life \in {"idle", "queued", "pending"} PROVE Untouched(role, y)
        OBVIOUS
    <2>2. Untouched(role, x) /\ w[1] = x.wire[1]
        BY <1>1, <1>3, <1>4, <2>1 DEF Inbound, SameBeside
    <2>3. x.wire[1] \in {"head", "bad"} /\ (x.sentEnd # "reset" => Chunks(x.wire) = x.sentN)
        BY <2>2 DEF Untouched
    <2>4. role # "client"
        BY <2>2 DEF Untouched
    <2>5. QED
        BY <1>5, <2>2, <2>3, <2>4 DEF Untouched, SameBeside, Awaits
<1>10. y.life = "open" => IF Awaits(y) THEN HeadFirst(y) ELSE LengthKept(role, y)
    <2>1. CASE y.life = "open" /\ Awaits(y)
        <3>1. HeadFirst(x)
            BY <1>1, <2>1 DEF Inbound, SameBeside, Awaits
        <3>2. ASSUME NEW i \in 1..Len(w), w[i] \in {"data", "trailers"}
              PROVE  \E j \in 1..Len(w) : j < i /\ w[j] = "head"
            <4>1. i \in 1..Len(x.wire) /\ x.wire[i] \in {"data", "trailers"}
                BY <1>3, <1>7, <3>2
            <4>2. PICK j \in 1..Len(x.wire) : j < i /\ x.wire[j] = "head"
                BY <3>1, <4>1 DEF HeadFirst
            <4>3. QED
                BY <1>3, <1>4, <4>2
        <3>3. QED
            BY <1>3, <1>5, <2>1, <3>1, <3>2 DEF HeadFirst, SameBeside
    <2>2. CASE y.life = "open" /\ ~Awaits(y)
        <3>1. LengthKept(role, x)
            BY <1>1, <2>2 DEF Inbound, SameBeside, Awaits
        <3>2. QED
            BY <1>3, <1>5, <2>2, <3>1 DEF LengthKept, SameBeside
    <2>3. QED
        BY <2>1, <2>2
<1>11. Inbound(role, y)
    BY <1>1, <1>5, <1>6, <1>8, <1>9, <1>10 DEF Inbound, SameBeside, Awaits, Whole
<1>12. QED
    BY <1>1, <1>11, OutboundSame DEF StreamOk, SameBeside

-----------------------------------------------------------------------------
(* The actions of the peer.                                                *)

\* What a step does to one stream is all it does to the streams.
LEMMA OneStream ==
    ASSUME StreamsInv, role' = role, NEW s \in Stream, NEW y, StreamOk(role, y),
           st' = [st EXCEPT ![s] = y]
    PROVE  StreamsInv'
<1>1. \A t \in Stream : StreamOk(role, st'[t])
    BY DEF StreamsInv
<1>2. st' = [t \in Stream |-> st'[t]]
    BY DEF StreamsInv
<1>3. QED
    BY <1>1, <1>2 DEF StreamsInv

\* The peer starts its message, spoils it, or sends an informational head.
LEMMA PeerHeadKeeps ==
    ASSUME StreamsInv, NEW s \in Stream, PeerHead(s)
    PROVE  StreamsInv'
<1> DEFINE x == st[s]
<1>1. StreamOk(role, x) /\ x \in StreamType /\ WireOk(role, x) /\ x.length = Any /\ x.sentN = 0
    BY DEF StreamsInv, StreamOk, Inbound, WireOk, PeerHead
<1>2. role' = role /\ ~x.began /\ x.began \in BOOLEAN
    BY <1>1 DEF PeerHead, PeerFrame, transport, StreamType, Flags
<1>3. {"head", "bad", "info"} \subseteq Frame
    BY DEF Frame
<1>4. \A f \in Frame : Append(x.wire, f) \in Wires
    BY <1>1 DEF StreamType, Wires
<1>5. ASSUME NEW n \in {Any} \cup 0..MaxData, PeerFrame(s, "head", [x EXCEPT !.began = TRUE, !.length = n])
      PROVE  StreamsInv'
    <2> DEFINE y == [[x EXCEPT !.began = TRUE, !.length = n] EXCEPT !.wire = Append(@, "head")]
    <2>1. n \in Lengths
        BY BoundAssumption DEF Lengths, Any
    <2>2. y \in StreamType
        BY <1>1, <1>3, <1>4, <2>1, Values DEF StreamType
    <2>3. SameBeside(x, y)
        BY <1>1 DEF SameBeside, StreamType
    <2>4. x.sentEnd = "no" /\ (role = "client" => x.life = "open")
          /\ (x.life = "open" \/ (role = "server" /\ x.life = "idle"))
        BY <1>5 DEF PeerFrame
    <2>5. y.wire = Append(x.wire, "head") /\ y.began = TRUE /\ y.sentN = x.sentN
          /\ y.sentEnd = x.sentEnd
        BY <1>1 DEF StreamType
    <2>6. y.began = (x.began \/ "head" \in {"head", "bad"})
        BY <1>2, <2>5
    <2>7. SendsNext(x, y, "head")
        <3> HIDE DEF x, y
        <3>1. QED
            BY <1>1, <1>2, <2>4, <2>5, <2>6 DEF SendsNext
    <2>8. st' = [st EXCEPT ![s] = y]
        BY <1>5 DEF PeerFrame
    <2> HIDE DEF y
    <2>9. StreamOk(role, y)
        BY <1>1, <1>3, <2>2, <2>3, <2>4, <2>7, SendsOk
    <2>10. QED
        BY <1>2, <2>8, <2>9, OneStream
<1>6. ASSUME PeerFrame(s, "bad", [x EXCEPT !.began = TRUE, !.sentEnd = "reset"])
      PROVE  StreamsInv'
    <2> DEFINE y == [[x EXCEPT !.began = TRUE, !.sentEnd = "reset"] EXCEPT !.wire = Append(@, "bad")]
    <2>1. y \in StreamType
        BY <1>1, <1>3, <1>4, Values DEF StreamType
    <2>2. SameBeside(x, y)
        BY <1>1 DEF SameBeside, StreamType
    <2>3. x.sentEnd = "no" /\ (role = "client" => x.life = "open")
          /\ (x.life = "open" \/ (role = "server" /\ x.life = "idle"))
        BY <1>6 DEF PeerFrame
    <2>4. y.wire = Append(x.wire, "bad") /\ y.began = TRUE /\ y.sentN = x.sentN
          /\ y.sentEnd = "reset" /\ y.length = x.length
        BY <1>1 DEF StreamType
    <2>5. SendsNext(x, y, "bad")
        <3>1. y.began = (x.began \/ "bad" \in {"head", "bad"})
            BY <1>2, <2>4
        <3> HIDE DEF x, y
        <3>2. QED
            BY <1>1, <1>2, <2>3, <2>4, <3>1 DEF SendsNext
    <2>6. st' = [st EXCEPT ![s] = y]
        BY <1>6 DEF PeerFrame
    <2> HIDE DEF y
    <2>7. StreamOk(role, y)
        BY <1>1, <1>3, <2>1, <2>2, <2>3, <2>5, SendsOk
    <2>8. QED
        BY <1>2, <2>6, <2>7, OneStream
<1>7. ASSUME role = "client", PeerFrame(s, "info", x)
      PROVE  StreamsInv'
    <2> DEFINE y == [x EXCEPT !.wire = Append(@, "info")]
    <2>1. y \in StreamType
        BY <1>1, <1>3, <1>4, Values DEF StreamType
    <2>2. SameBeside(x, y)
        BY <1>1 DEF SameBeside, StreamType
    <2>3. x.sentEnd = "no" /\ x.life = "open"
        BY <1>7 DEF PeerFrame
    <2>4. y.wire = Append(x.wire, "info") /\ y.began = x.began /\ y.sentN = x.sentN
          /\ y.sentEnd = x.sentEnd /\ y.length = x.length
        BY <1>1 DEF StreamType
    <2>5. SendsNext(x, y, "info")
        BY <1>1, <1>2, <2>3, <2>4 DEF SendsNext
    <2>6. st' = [st EXCEPT ![s] = y]
        BY <1>7 DEF PeerFrame
    <2> HIDE DEF y
    <2>7. StreamOk(role, y)
        BY <1>1, <1>3, <2>1, <2>2, <2>3, <2>5, SendsOk
    <2>8. QED
        BY <1>2, <2>6, <2>7, OneStream
<1>8. QED
    BY <1>5, <1>6, <1>7 DEF PeerHead

\* A chunk is counted and put on the wire.
LEMMA PeerDataKeeps ==
    ASSUME StreamsInv, NEW s \in Stream, PeerData(s)
    PROVE  StreamsInv'
<1> DEFINE x == st[s]
           y == [[x EXCEPT !.sentN = @ + 1] EXCEPT !.wire = Append(@, "data")]
<1>1. StreamOk(role, x) /\ x \in StreamType /\ "data" \in Frame
    BY DEF StreamsInv, StreamOk, Frame
<1>2. role' = role /\ st' = [st EXCEPT ![s] = y] /\ x.began /\ x.sentEnd = "no"
      /\ (role = "client" => x.life = "open")
      /\ (x.life = "open" \/ (role = "server" /\ x.life = "idle" /\ x.wire # <<>>))
    BY DEF PeerData, PeerFrame, transport
<1>3. Append(x.wire, "data") \in Wires /\ x.sentN + 1 \in Counts /\ x.began = TRUE
    BY <1>1, <1>2, Values DEF StreamType, Wires, Flags
<1>4. y \in StreamType
    BY <1>1, <1>3 DEF StreamType
<1>5. SameBeside(x, y)
    BY <1>1 DEF SameBeside, StreamType
<1>6. y.wire = Append(x.wire, "data") /\ y.began = x.began /\ y.sentN = x.sentN + 1
      /\ y.sentEnd = x.sentEnd /\ y.length = x.length
    BY <1>1 DEF StreamType
<1>7. y.began = (x.began \/ "data" \in {"head", "bad"})
    BY <1>3, <1>6
<1>8. SendsNext(x, y, "data")
    <2> HIDE DEF x, y
    <2>1. QED
        BY <1>2, <1>6, <1>7 DEF SendsNext
<1> HIDE DEF y
<1>9. QED
    BY <1>1, <1>2, <1>4, <1>5, <1>8, SendsOk, OneStream

\* The peer ends its message, behind trailers or not, or resets the stream.
LEMMA PeerEndsKeeps ==
    ASSUME StreamsInv, NEW s \in Stream, PeerEnds(s)
    PROVE  StreamsInv'
<1> DEFINE x == st[s]
           e(f) == [[x EXCEPT !.sentEnd = f] EXCEPT !.wire = Append(@, f)]
           v == [x EXCEPT !.sentEnd = "fin", !.wire = Append(@, "trailers")]
           z == [v EXCEPT !.wire = Append(@, "fin")]
<1>1. StreamOk(role, x) /\ x \in StreamType /\ WireOk(role, x) /\ {"fin", "reset", "trailers"} \subseteq Frame
    BY DEF StreamsInv, StreamOk, Inbound, Frame
<1>2. /\ role' = role /\ x.sentEnd = "no"
      /\ role = "client" => x.life = "open"
      /\ x.life = "open" \/ (role = "server" /\ x.life = "idle" /\ x.wire # <<>>)
    BY DEF PeerEnds, PeerFrame, transport
<1>3. /\ \A w \in Wires : \A f \in Frame : Append(w, f) \in Wires
      /\ x.wire \in Wires /\ x.sentN \in Nat /\ x.began \in BOOLEAN
    BY <1>1 DEF StreamType, Wires, Flags, Counts
<1>4. ASSUME NEW f \in {"fin", "reset"}, st' = [st EXCEPT ![s] = e(f)]
      PROVE  StreamsInv'
    <2> DEFINE y == e(f)
    <2>1. y \in StreamType
        BY <1>1, <1>3, <1>4, Values DEF StreamType
    <2>2. SameBeside(x, y)
        BY <1>1 DEF SameBeside, StreamType
    <2>3. y.wire = Append(x.wire, f) /\ y.began = x.began /\ y.sentN = x.sentN
          /\ y.sentEnd = f /\ y.length = x.length
        BY <1>1 DEF StreamType
    <2>4. y.began = (x.began \/ f \in {"head", "bad"})
        BY <1>3, <1>4, <2>3
    <2>5. SendsNext(x, y, f)
        <3> HIDE DEF x, y
        <3>1. QED
            BY <1>2, <1>3, <1>4, <2>3, <2>4 DEF SendsNext
    <2> HIDE DEF y
    <2>6. StreamOk(role, y)
        BY <1>1, <1>2, <1>4, <2>1, <2>2, <2>5, SendsOk
    <2>7. QED
        BY <1>2, <1>4, <2>6, OneStream DEF y
<1>5. ASSUME x.began, st' = [st EXCEPT ![s] = z]
      PROVE  StreamsInv'
    <2>0. x.began
        BY <1>5
    <2>1. v \in StreamType
        BY <1>1, <1>3, Values DEF StreamType
    <2>2. SameBeside(x, v)
        BY <1>1 DEF SameBeside, StreamType
    <2>3. v.wire = Append(x.wire, "trailers") /\ v.began = x.began /\ v.sentN = x.sentN
          /\ v.sentEnd = "fin" /\ v.length = x.length
        BY <1>1 DEF StreamType
    <2>4. v.began = (x.began \/ "trailers" \in {"head", "bad"})
        BY <1>3, <1>5, <2>3
    <2>5. SendsNext(x, v, "trailers")
        <3> HIDE DEF x, v
        <3>1. x.sentN \in Nat
            BY <1>3
        <3>2. v.sentN = x.sentN + (IF "trailers" = "data" THEN 1 ELSE 0)
            BY <2>3, <3>1
        <3>3. v.sentEnd = CASE "trailers" \in {"fin", "trailers"} -> "fin"
                            [] "trailers" \in {"reset", "bad"} -> "reset"
                            [] OTHER -> "no"
            BY <2>3
        <3>4. QED
            BY <1>2, <2>0, <2>3, <2>4, <3>2, <3>3, Zenon DEF SendsNext
    <2>6. z \in StreamType /\ SameBeside(v, z) /\ z.wire = Append(v.wire, "fin")
          /\ z.began = v.began /\ z.sentN = v.sentN /\ z.sentEnd = v.sentEnd /\ z.length = v.length
        <3> HIDE DEF v
        <3>1. v.wire \in Wires
            BY <2>1 DEF StreamType
        <3>2. z \in StreamType
            BY <1>1, <1>3, <2>1, <3>1 DEF StreamType
        <3>3. QED
            BY <2>1, <3>2 DEF SameBeside, StreamType
    <2>7. v.life = "open" \/ (v.life = "idle" /\ role = "server")
        BY <1>2, <2>2 DEF SameBeside
    <2>8. v.wire # <<>> /\ ~Has(v.wire, "fin")
        <3>1. ~Has(x.wire, "fin") /\ x.wire \in Seq(Frame)
            BY <1>1, <1>2, <1>3 DEF WireOk, Wires
        <3>2. QED
            BY <1>1, <2>3, <3>1, Joins
    <2>9. StreamOk(role, v)
        <3> HIDE DEF v
        <3>1. QED
            BY <1>1, <1>2, <2>1, <2>2, <2>5, SendsOk
    <2>10. StreamOk(role, z)
        <3> HIDE DEF v, z
        <3>1. QED
            BY <2>3, <2>6, <2>7, <2>8, <2>9, FinFollows
    <2> HIDE DEF z
    <2>11. QED
        BY <1>2, <1>5, <2>10, OneStream
<1>6. QED
    BY <1>4, <1>5 DEF PeerEnds, PeerFrame

\* The peer stops reading: nothing of the messages.
LEMMA PeerStopsKeeps ==
    ASSUME StreamsInv, NEW s \in Stream, PeerStops(s)
    PROVE  StreamsInv'
<1> DEFINE x == st[s]
           y == [x EXCEPT !.stop = TRUE]
<1>1. StreamOk(role, x) /\ x \in StreamType
    BY DEF StreamsInv, StreamOk
<1>2. role' = role /\ st' = [st EXCEPT ![s] = y]
    BY DEF PeerStops, transport
<1>3. y \in StreamType
    BY <1>1, Values DEF StreamType
<1>4. SameBeside(x, y) /\ y.wire = x.wire /\ y.began = x.began /\ y.sentN = x.sentN
      /\ y.sentEnd = x.sentEnd /\ y.length = x.length
    BY <1>1 DEF SameBeside, StreamType
<1> HIDE DEF x, y
<1>5. StreamOk(role, y)
    BY <1>1, <1>3, <1>4
       DEF StreamOk, Inbound, Outbound, WireOk, Untouched, HeadFirst, LengthKept, Awaits, Whole, SameBeside
<1>6. QED
    BY <1>2, <1>5, OneStream

-----------------------------------------------------------------------------
(* The frames quiche reports.                                              *)

\* The fields of the task's side and of the caller's progress.
SameWork(x, y) ==
    /\ y.kind = x.kind /\ y.began = x.began /\ y.sentN = x.sentN /\ y.sentEnd = x.sentEnd
    /\ y.length = x.length /\ y.gotN = x.gotN /\ y.gotEnd = x.gotEnd
    /\ y.task = x.task /\ y.taskN = x.taskN /\ y.outq = x.outq /\ y.pendOut = x.pendOut
    /\ y.writeDone = x.writeDone /\ y.peerN = x.peerN /\ y.peerEnd = x.peerEnd

\* The wire without its first frame: nothing of the order is lost.
LEMMA WirePops ==
    ASSUME NEW x, StreamOk(role, x), x.wire # <<>>, NEW y, y.wire = Tail(x.wire),
           y.began = x.began, y.sentN = x.sentN, y.sentEnd = x.sentEnd, y.length = x.length,
           y.life = "open"
    PROVE  /\ WireOk(role, y)
           /\ Head(x.wire) # "data" => Chunks(y.wire) = Chunks(x.wire)
           /\ Head(x.wire) = "data" => Chunks(x.wire) = Chunks(y.wire) + 1
           /\ \A f : Has(y.wire, f) => Has(x.wire, f)
           /\ \A f : Has(x.wire, f) => Has(y.wire, f) \/ Head(x.wire) = f
           /\ Head(x.wire) = "head" => ~Has(y.wire, "head")
           /\ Head(x.wire) = "fin" => y.wire = <<>> /\ x.sentEnd = "fin"
           /\ Head(x.wire) = "trailers" => ~Has(y.wire, "data") /\ x.sentEnd = "fin"
           /\ Has(x.wire, Head(x.wire)) /\ Head(x.wire) \in Frame
<1> DEFINE w == Tail(x.wire)
<1>1. x \in StreamType /\ WireOk(role, x)
    BY DEF StreamOk, Inbound
<1>2. x.wire \in Seq(Frame)
    BY <1>1 DEF StreamType, Wires
<1>3. /\ w \in Seq(Frame) /\ Head(x.wire) \in Frame /\ Head(x.wire) = x.wire[1] /\ Len(x.wire) \in Nat \ {0}
      /\ Len(w) = Len(x.wire) - 1
      /\ \A i \in 1..Len(w) : w[i] = x.wire[i + 1] /\ i + 1 \in 1..Len(x.wire)
      /\ Chunks(x.wire) = Chunks(w) + (IF Head(x.wire) = "data" THEN 1 ELSE 0)
      /\ \A f : Has(x.wire, f) <=> Has(w, f) \/ Head(x.wire) = f
      /\ \A f : LastOnly(x.wire, f) => LastOnly(w, f)
      /\ \A f : LastOnly(x.wire, f) /\ Head(x.wire) = f => w = <<>>
      /\ \A f : Once(x.wire, f) => Once(w, f)
      /\ \A f : Once(x.wire, f) /\ Head(x.wire) = f => ~Has(w, f)
    BY <1>2, Leaves
<1>4. Chunks(w) \in Nat
    BY <1>3, ChunksType
<1> HIDE DEF w
<1>5. y.wire = w
    BY DEF w
<1>6. \A i \in 1..Len(w) : w[i] = "trailers" =>
          y.sentEnd = "fin" /\ \A j \in 1..Len(w) : j > i => w[j] # "data"
    <2>1. ASSUME NEW i \in 1..Len(w), w[i] = "trailers", NEW j \in 1..Len(w), j > i
          PROVE  w[j] # "data"
        <3>1. x.wire[i + 1] = "trailers" /\ w[j] = x.wire[j + 1] /\ j + 1 > i + 1
              /\ i + 1 \in 1..Len(x.wire) /\ j + 1 \in 1..Len(x.wire)
            BY <1>3, <2>1
        <3>2. QED
            BY <1>1, <3>1 DEF WireOk
    <2>2. ASSUME NEW i \in 1..Len(w), w[i] = "trailers" PROVE y.sentEnd = "fin"
        <3>1. x.wire[i + 1] = "trailers" /\ i + 1 \in 1..Len(x.wire)
            BY <1>3, <2>2
        <3>2. QED
            BY <1>1, <3>1 DEF WireOk
    <2>3. QED
        BY <2>1, <2>2
<1>7. WireOk(role, y)
    BY <1>1, <1>3, <1>5, <1>6 DEF WireOk
<1>8. Head(x.wire) = "trailers" => ~Has(w, "data") /\ x.sentEnd = "fin"
    <2>1. SUFFICES ASSUME Head(x.wire) = "trailers" PROVE ~Has(w, "data") /\ x.sentEnd = "fin"
        OBVIOUS
    <2>2. 1 \in 1..Len(x.wire) /\ x.wire[1] = "trailers"
        BY <1>3, <2>1
    <2>3. \A j \in 1..Len(w) : w[j] # "data"
        BY <1>1, <1>3, <2>2 DEF WireOk
    <2>4. QED
        BY <1>1, <2>2, <2>3 DEF WireOk, Has
<1>9. QED
    BY <1>1, <1>3, <1>4, <1>5, <1>7, <1>8 DEF WireOk

\* The head of the response: from here on its length is known.
LEMMA HeadOk ==
    ASSUME NEW x, StreamOk(role, x), x.life = "open", x.wire # <<>>, Awaits(x),
           Head(x.wire) \in {"head", "trailers"}
    PROVE  StreamOk(role, Message([x EXCEPT !.wire = Tail(@)]))
<1> DEFINE p == [x EXCEPT !.wire = Tail(@)]
           left(k, n) == IF k = "head" THEN 0 ELSE IF k = "websocket" THEN Any ELSE n
           y == [p EXCEPT !.response = IF @ = "waiting" THEN "ok" ELSE "late",
                          !.recv = p.response = "waiting",
                          !.left = left(p.kind, p.length)]
<1>1. x \in StreamType /\ Inbound(role, x) /\ Outbound(x) /\ HeadFirst(x) /\ WireOk(role, x) /\ role = "client"
    BY DEF StreamOk, Inbound
<1>2. x.wire \in Seq(Frame) /\ x.inq \in Seq(Given) /\ x.length \in Lengths
    BY <1>1 DEF StreamType, Wires, Inputs
<1>3. Tail(x.wire) \in Wires
    BY <1>2 DEF Wires
<1>4. p \in StreamType
    BY <1>1, <1>3 DEF StreamType
<1>5. /\ SameWork(x, p) /\ p.life = "open" /\ p.wire = Tail(x.wire) /\ p.pendIn = x.pendIn
      /\ p.inq = x.inq /\ p.response = x.response
    BY <1>1 DEF StreamType, SameWork
<1> HIDE DEF p
<1>6. left(p.kind, p.length) \in Lengths /\ (p.response = "waiting") \in Flags
    BY <1>2, <1>5, Values DEF SameWork, Flags
<1>7. y \in StreamType
    <2> HIDE DEF left
    <2>1. QED
        BY <1>4, <1>6, Values DEF StreamType
<1>8. Message(p) = y
    BY <1>5 DEF Message, Awaits
<1>9. /\ SameWork(p, y) /\ y.life = p.life /\ y.wire = p.wire /\ y.pendIn = p.pendIn /\ y.inq = p.inq
      /\ y.left = left(p.kind, p.length) /\ y.response \in {"ok", "late"}
    <2> HIDE DEF left
    <2>1. QED
        BY <1>4 DEF StreamType, SameWork
<1> HIDE DEF y
<1>10. Head(x.wire) = "head"
    <2>1. ASSUME Head(x.wire) = "trailers" PROVE FALSE
        <3>1. 1 \in 1..Len(x.wire) /\ x.wire[1] = "trailers"
            BY <1>2, <2>1
        <3>2. QED
            BY <1>1, <3>1 DEF HeadFirst
    <2>2. QED
        BY <2>1
<1>11. /\ WireOk(role, y) /\ Chunks(y.wire) = Chunks(x.wire) /\ ~Has(y.wire, "head")
       /\ Has(x.wire, "head") /\ (\A f : Has(y.wire, f) => Has(x.wire, f))
    BY <1>5, <1>9, <1>10, WirePops DEF SameWork
<1>12. x.began /\ x.wire # <<>> /\ ~Has(x.inq, "end") /\ ~Has(x.pendIn, "end") /\ x.gotN = 0 /\ Chunks(x.inq) = 0
       /\ x.gotEnd = "no" /\ x.recv
    BY <1>1, <1>11 DEF WireOk, Inbound, HeadFirst
<1>13. y.left = IF x.kind = "head" THEN 0 ELSE IF x.kind = "websocket" THEN Any ELSE x.length
    BY <1>5, <1>9 DEF SameWork
<1>14. LengthKept(role, y)
    <2>1. y.kind = "get" => y.left = x.length /\ y.length = x.length
        BY <1>5, <1>9, <1>13 DEF SameWork
    <2>2. x.length \in Nat
        BY <1>2, BoundAssumption DEF Lengths, Any
    <2>3. QED
        BY <1>5, <1>9, <1>11, <1>12, <1>13, <2>1, <2>2 DEF LengthKept, SameWork
<1>15. x.gotN + Chunks(x.inq) + Chunks(x.wire) = x.sentN \/ x.sentEnd = "reset"
    BY <1>1, <1>12 DEF Inbound
<1>16. Inbound(role, y)
    BY <1>1, <1>5, <1>9, <1>11, <1>12, <1>14, <1>15 DEF Inbound, SameWork, Awaits
<1>17. Outbound(y)
    BY <1>1, <1>5, <1>9 DEF Outbound, SameWork
<1>18. QED
    BY <1>7, <1>8, <1>16, <1>17 DEF StreamOk, p

\* A frame that is neither the head nor data leaves the stream where it is.
LEMMA PlaceKept ==
    ASSUME NEW x, StreamOk(role, x), x.life = "open", x.wire # <<>>,
           Head(x.wire) \notin {"head", "data"},
           NEW y, SameWork(x, y), y.life = "open", y.wire = Tail(x.wire), y.inq = x.inq,
           y.left = x.left, y.recv = x.recv, y.response = x.response
    PROVE  /\ WireOk(role, y)
           /\ IF Awaits(y) THEN HeadFirst(y) ELSE LengthKept(role, y)
           /\ y.recv /\ y.sentEnd # "reset" => y.gotN + Chunks(y.inq) + Chunks(y.wire) = y.sentN
<1>1. x \in StreamType /\ Inbound(role, x)
    BY DEF StreamOk
<1>2. x.wire \in Seq(Frame)
    BY <1>1 DEF StreamType, Wires
<1>3. /\ WireOk(role, y) /\ Chunks(y.wire) = Chunks(x.wire)
      /\ \A f : Has(y.wire, f) => Has(x.wire, f)
      /\ \A f : Has(x.wire, f) => Has(y.wire, f) \/ Head(x.wire) = f
    BY WirePops DEF SameWork
<1>4. CASE Awaits(y)
    <2>1. HeadFirst(x)
        BY <1>1, <1>4 DEF Inbound, Awaits
    <2>2. y.began /\ y.sentEnd # "reset" => Has(y.wire, "head")
        BY <1>3, <2>1 DEF HeadFirst, SameWork
    <2>3. ASSUME NEW i \in 1..Len(y.wire), y.wire[i] \in {"data", "trailers"}
          PROVE  \E j \in 1..Len(y.wire) : j < i /\ y.wire[j] = "head"
        <3>1. /\ Len(x.wire) \in Nat \ {0} /\ Len(y.wire) = Len(x.wire) - 1
              /\ \A k \in 1..Len(y.wire) : y.wire[k] = x.wire[k + 1] /\ k + 1 \in 1..Len(x.wire)
              /\ Head(x.wire) = x.wire[1]
            BY <1>2, Leaves
        <3>2. PICK j \in 1..Len(x.wire) : j < i + 1 /\ x.wire[j] = "head"
            BY <2>1, <2>3, <3>1 DEF HeadFirst
        <3>3. j # 1 /\ j - 1 \in 1..Len(y.wire) /\ (j - 1) + 1 = j /\ j - 1 < i
            BY <3>1, <3>2
        <3>4. y.wire[j - 1] = "head"
            BY <3>1, <3>2, <3>3
        <3>5. QED
            BY <3>3, <3>4
    <2>4. HeadFirst(y)
        BY <2>1, <2>2, <2>3 DEF HeadFirst, SameWork
    <2>5. QED
        BY <1>1, <1>3, <1>4, <2>1, <2>4 DEF Inbound, HeadFirst, SameWork
<1>5. CASE ~Awaits(y)
    <2>1. LengthKept(role, x)
        BY <1>1, <1>5 DEF Inbound, Awaits
    <2>2. LengthKept(role, y)
        BY <1>3, <2>1 DEF LengthKept, SameWork
    <2>3. QED
        BY <1>1, <1>3, <1>5, <2>2 DEF Inbound, SameWork
<1>6. QED
    BY <1>4, <1>5

\* Trailers behind the head wait for the data before them.
LEMMA TrailersOk ==
    ASSUME NEW x, StreamOk(role, x), x.life = "open", x.wire # <<>>, ~Awaits(x),
           Head(x.wire) \in {"head", "trailers"}
    PROVE  StreamOk(role, Message([x EXCEPT !.wire = Tail(@)]))
<1> DEFINE p == [x EXCEPT !.wire = Tail(@)]
           y == [p EXCEPT !.pendIn = Append(@, "trailers")]
<1>1. x \in StreamType /\ Inbound(role, x) /\ Outbound(x) /\ LengthKept(role, x)
    BY DEF StreamOk, Inbound
<1>2. x.wire \in Seq(Frame) /\ x.pendIn \in Seq(Final) /\ "trailers" \in Final
    BY <1>1 DEF StreamType, Wires, Endings, Given, Final
<1>3. Tail(x.wire) \in Wires /\ Append(x.pendIn, "trailers") \in Endings
    BY <1>2 DEF Wires, Endings
<1>4. p \in StreamType
    BY <1>1, <1>3 DEF StreamType
<1>5. /\ SameWork(x, p) /\ p.life = "open" /\ p.wire = Tail(x.wire) /\ p.pendIn = x.pendIn
      /\ p.inq = x.inq /\ p.response = x.response /\ p.left = x.left /\ p.recv = x.recv
    BY <1>1 DEF StreamType, SameWork
<1> HIDE DEF p
<1>6. y \in StreamType
    BY <1>3, <1>4, <1>5 DEF StreamType
<1>7. Message(p) = y
    BY <1>5 DEF Message, Awaits
<1>8. /\ SameWork(x, y) /\ y.life = "open" /\ y.wire = Tail(x.wire) /\ y.pendIn = Append(x.pendIn, "trailers")
      /\ y.inq = x.inq /\ y.response = x.response /\ y.left = x.left /\ y.recv = x.recv
    BY <1>4, <1>5 DEF StreamType, SameWork
<1> HIDE DEF y
<1>9. /\ Head(x.wire) # "head" /\ Has(x.wire, Head(x.wire))
      /\ Head(x.wire) = "trailers" => ~Has(y.wire, "data") /\ x.sentEnd = "fin"
    BY <1>1, <1>8, WirePops DEF LengthKept, SameWork
<1>10. /\ WireOk(role, y) /\ (IF Awaits(y) THEN HeadFirst(y) ELSE LengthKept(role, y))
       /\ y.recv /\ y.sentEnd # "reset" => y.gotN + Chunks(y.inq) + Chunks(y.wire) = y.sentN
    BY <1>8, <1>9, PlaceKept
<1>11. ~Has(x.pendIn, "end") /\ ~Has(x.inq, "end")
    BY <1>1 DEF Inbound
<1>12. ~Has(y.pendIn, "end") /\ LastOnly(y.pendIn, "end")
    BY <1>2, <1>8, <1>11, Joins
<1>13. Inbound(role, y)
    BY <1>1, <1>8, <1>9, <1>10, <1>11, <1>12 DEF Inbound, SameWork, Awaits, Whole
<1>14. Outbound(y)
    BY <1>1, <1>8 DEF Outbound, SameWork
<1>15. QED
    BY <1>6, <1>7, <1>13, <1>14 DEF StreamOk, p

\* The end waits likewise.
LEMMA FinOk ==
    ASSUME NEW x, StreamOk(role, x), x.life = "open", x.wire # <<>>, Head(x.wire) = "fin"
    PROVE  StreamOk(role, Received([x EXCEPT !.wire = Tail(@)], "fin"))
<1> DEFINE p == [x EXCEPT !.wire = Tail(@)]
           y == [p EXCEPT !.readDone = TRUE, !.pendIn = Append(@, "end")]
<1>1. x \in StreamType /\ Inbound(role, x) /\ Outbound(x)
    BY DEF StreamOk
<1>2. x.wire \in Seq(Frame) /\ x.pendIn \in Seq(Final) /\ "end" \in Final
    BY <1>1 DEF StreamType, Wires, Endings, Given, Final
<1>3. Tail(x.wire) \in Wires /\ Append(x.pendIn, "end") \in Endings
    BY <1>2 DEF Wires, Endings
<1>4. p \in StreamType
    BY <1>1, <1>3 DEF StreamType
<1>5. /\ SameWork(x, p) /\ p.life = "open" /\ p.wire = Tail(x.wire) /\ p.pendIn = x.pendIn
      /\ p.inq = x.inq /\ p.response = x.response /\ p.left = x.left /\ p.recv = x.recv
    BY <1>1 DEF StreamType, SameWork
<1>6. Received(p, "fin") = y
    BY DEF Received
<1> HIDE DEF p
<1>7. y \in StreamType
    BY <1>3, <1>4, <1>5, Values DEF StreamType
<1>8. /\ SameWork(x, y) /\ y.life = "open" /\ y.wire = Tail(x.wire) /\ y.pendIn = Append(x.pendIn, "end")
      /\ y.inq = x.inq /\ y.response = x.response /\ y.left = x.left /\ y.recv = x.recv
    BY <1>4, <1>5 DEF StreamType, SameWork
<1> HIDE DEF y
<1>9. y.wire = <<>> /\ x.sentEnd = "fin"
    BY <1>8, WirePops DEF SameWork
<1>10. /\ WireOk(role, y) /\ (IF Awaits(y) THEN HeadFirst(y) ELSE LengthKept(role, y))
       /\ y.recv /\ y.sentEnd # "reset" => y.gotN + Chunks(y.inq) + Chunks(y.wire) = y.sentN
    BY <1>8, PlaceKept
<1>11. ~Has(x.pendIn, "end") /\ ~Has(x.inq, "end") /\ ~Has(<<>>, "data")
    BY <1>1, Nothing DEF Inbound
<1>12. LastOnly(y.pendIn, "end")
    BY <1>2, <1>8, <1>11, Joins
<1>13. Inbound(role, y)
    BY <1>1, <1>8, <1>9, <1>10, <1>11, <1>12 DEF Inbound, SameWork, Awaits, Whole
<1>14. Outbound(y)
    BY <1>1, <1>8 DEF Outbound, SameWork
<1>15. QED
    BY <1>6, <1>7, <1>13, <1>14 DEF StreamOk, p

\* An informational response is counted, or one too many resets the stream.
LEMMA InfoOk ==
    ASSUME NEW x, StreamOk(role, x), x.life = "open", x.wire # <<>>, Head(x.wire) = "info"
    PROVE  LET p == [x EXCEPT !.wire = Tail(@)] IN StreamOk(role, [p EXCEPT !.infos = @ + 1])
<1> DEFINE p == [x EXCEPT !.wire = Tail(@)]
           y == [p EXCEPT !.infos = @ + 1]
<1>1. x \in StreamType /\ Inbound(role, x) /\ Outbound(x)
    BY DEF StreamOk
<1>2. Tail(x.wire) \in Wires
    BY <1>1 DEF StreamType, Wires
<1>3. p \in StreamType
    BY <1>1, <1>2 DEF StreamType
<1>4. /\ SameWork(x, p) /\ p.life = "open" /\ p.wire = Tail(x.wire) /\ p.pendIn = x.pendIn
      /\ p.inq = x.inq /\ p.response = x.response /\ p.left = x.left /\ p.recv = x.recv
    BY <1>1 DEF StreamType, SameWork
<1> HIDE DEF p
<1>5. p.infos + 1 \in Counts
    BY <1>3, Values DEF StreamType
<1>6. y \in StreamType
    BY <1>3, <1>5 DEF StreamType
<1>7. /\ SameWork(x, y) /\ y.life = "open" /\ y.wire = Tail(x.wire) /\ y.pendIn = x.pendIn
      /\ y.inq = x.inq /\ y.response = x.response /\ y.left = x.left /\ y.recv = x.recv
    BY <1>3, <1>4 DEF StreamType, SameWork
<1> HIDE DEF y
<1>8. /\ WireOk(role, y) /\ (IF Awaits(y) THEN HeadFirst(y) ELSE LengthKept(role, y))
      /\ y.recv /\ y.sentEnd # "reset" => y.gotN + Chunks(y.inq) + Chunks(y.wire) = y.sentN
    BY <1>7, PlaceKept
<1>9. \A f : Has(y.wire, f) => Has(x.wire, f)
    BY <1>7, WirePops DEF SameWork
<1>10. Inbound(role, y)
    BY <1>1, <1>7, <1>8, <1>9 DEF Inbound, SameWork, Awaits, Whole
<1>11. Outbound(y)
    BY <1>1, <1>7 DEF Outbound, SameWork
<1>12. QED
    BY <1>6, <1>10, <1>11 DEF StreamOk, p, y

\* A stream that differs in what no part of the invariant reads.
LEMMA Alike ==
    ASSUME NEW x, StreamOk(role, x), NEW y \in StreamType, SameWork(x, y), y.life = x.life,
           y.wire = x.wire, y.pendIn = x.pendIn, y.inq = x.inq, y.response = x.response,
           y.left = x.left, y.recv = x.recv
    PROVE  StreamOk(role, y)
BY DEF StreamOk, Inbound, Outbound, WireOk, Untouched, HeadFirst, LengthKept, Awaits, Whole, SameWork

\* A request is accepted with its head.
LEMMA AcceptedOk ==
    ASSUME NEW x, StreamOk(role, x), x.life = "idle", x.wire # <<>>, Head(x.wire) = "head"
    PROVE  LET p == [x EXCEPT !.wire = Tail(@)]
           IN  StreamOk(role, [p EXCEPT !.life = "open", !.task = "run", !.left = p.length])
<1> DEFINE p == [x EXCEPT !.wire = Tail(@)]
           y == [p EXCEPT !.life = "open", !.task = "run", !.left = p.length]
<1>1. x \in StreamType /\ Inbound(role, x) /\ Outbound(x) /\ Untouched(role, x) /\ WireOk(role, x)
      /\ role = "server"
    BY DEF StreamOk, Inbound, WireOk
<1>2. Tail(x.wire) \in Wires
    BY <1>1 DEF StreamType, Wires
<1>3. p \in StreamType
    BY <1>1, <1>2 DEF StreamType
<1>4. /\ SameWork(x, p) /\ p.wire = Tail(x.wire) /\ p.pendIn = x.pendIn
      /\ p.inq = x.inq /\ p.response = x.response /\ p.recv = x.recv
    BY <1>1 DEF StreamType, SameWork
<1> HIDE DEF p
<1>5. p.length \in Lengths
    BY <1>3 DEF StreamType
<1>6. y \in StreamType
    BY <1>3, <1>5, Values DEF StreamType
<1>7. /\ y.kind = x.kind /\ y.began = x.began /\ y.sentN = x.sentN /\ y.sentEnd = x.sentEnd
      /\ y.length = x.length /\ y.gotN = x.gotN /\ y.gotEnd = x.gotEnd
      /\ y.taskN = x.taskN /\ y.outq = x.outq /\ y.pendOut = x.pendOut
      /\ y.writeDone = x.writeDone /\ y.peerN = x.peerN /\ y.peerEnd = x.peerEnd
      /\ y.life = "open" /\ y.task = "run" /\ y.left = x.length
      /\ y.wire = Tail(x.wire) /\ y.pendIn = x.pendIn
      /\ y.inq = x.inq /\ y.response = x.response /\ y.recv = x.recv
    BY <1>3, <1>4 DEF StreamType, SameWork
<1> HIDE DEF y
<1>8. /\ WireOk(role, y) /\ Chunks(y.wire) = Chunks(x.wire) /\ ~Has(y.wire, "head")
      /\ Has(x.wire, "head")
    BY <1>7, WirePops
<1>9. /\ x.pendIn = <<>> /\ x.inq = <<>> /\ x.recv /\ x.gotN = 0 /\ x.gotEnd = "no"
      /\ x.taskN = 0 /\ x.outq = <<>> /\ x.pendOut = <<>> /\ x.peerN = 0 /\ x.peerEnd = "no"
      /\ x.response = "none" /\ x.began
      /\ x.sentEnd # "reset" => Chunks(x.wire) = x.sentN
    BY <1>1, <1>8 DEF Untouched, WireOk
<1>10. Chunks(<<>>) = 0 /\ \A f : ~Has(<<>>, f) /\ LastOnly(<<>>, f)
    BY Nothing
<1>11. x.length \in Nat /\ x.sentN \in Nat
    BY <1>1, BoundAssumption DEF StreamType, Lengths, Any, Counts
<1>12. LengthKept(role, y)
    BY <1>1, <1>7, <1>8, <1>9, <1>10, <1>11 DEF LengthKept
<1>13. Inbound(role, y)
    BY <1>1, <1>7, <1>8, <1>9, <1>10, <1>11, <1>12 DEF Inbound, Awaits
<1>14. Outbound(y)
    BY <1>7, <1>9, <1>10 DEF Outbound
<1>15. QED
    BY <1>6, <1>13, <1>14 DEF StreamOk, p, y

\* A reset with a frame taken off the wire first.
LEMMA PoppedReset ==
    ASSUME NEW x, StreamOk(role, x), x.wire # <<>>
    PROVE  StreamOk(role, Reset([x EXCEPT !.wire = Tail(@)]))
<1> DEFINE p == [x EXCEPT !.wire = Tail(@)]
<1>1. x \in StreamType /\ Inbound(role, x) /\ Outbound(x)
    BY DEF StreamOk
<1>2. Tail(x.wire) \in Wires
    BY <1>1 DEF StreamType, Wires
<1>3. p \in StreamType
    BY <1>1, <1>2 DEF StreamType
<1>4. p.kind = x.kind /\ p.inq = x.inq /\ p.began = x.began /\ p.sentN = x.sentN
      /\ p.sentEnd = x.sentEnd /\ p.length = x.length /\ p.gotN = x.gotN /\ p.gotEnd = x.gotEnd
      /\ p.taskN = x.taskN /\ p.peerN = x.peerN /\ p.peerEnd = x.peerEnd /\ p.task = x.task
      /\ p.response = x.response
    BY <1>1 DEF StreamType
<1> HIDE DEF p
<1>5. Gone(Reset(p), x)
    BY <1>3, <1>4, ResetGone DEF Gone
<1>6. QED
    BY <1>1, <1>5, GoneOk DEF p

\* Whatever quiche reports, the stream stays what it was.
LEMMA EventKeeps ==
    ASSUME StreamsInv, NEW s \in Stream, Event(s)
    PROVE  StreamsInv'
<1> DEFINE x == st[s]
           f == Head(x.wire)
           p == [x EXCEPT !.wire = Tail(@)]
           o == IF f = "data" THEN x ELSE p
           y == IF o.life = "open" THEN Received(o, f) ELSE Accepted(o, f)
<1>1. StreamOk(role, x) /\ x \in StreamType /\ WireOk(role, x) /\ Inbound(role, x) /\ x.wire # <<>>
    BY DEF StreamsInv, StreamOk, Inbound, Event, HasEvent
<1>2. role' = role /\ st' = [st EXCEPT ![s] = y]
    BY DEF Event, transport
<1>3. x.life = "open" \/ (x.life = "idle" /\ role = "server")
    BY <1>1 DEF WireOk
<1>4. p.life = x.life /\ p.response = x.response /\ o.life = x.life
    BY <1>1 DEF StreamType
<1>5. f \in Frame
    BY <1>1 DEF StreamType, Wires
<1>6. StreamOk(role, Reset(p))
    BY <1>1, PoppedReset
<1>7. StreamOk(role, y)
    <2>1. CASE x.life = "open" /\ f \in {"head", "trailers"}
        <3>1. y = Message(p)
            BY <1>4, <2>1 DEF Received
        <3>2. CASE Awaits(x)
            BY <1>1, <2>1, <3>1, <3>2, HeadOk
        <3>3. CASE ~Awaits(x)
            BY <1>1, <2>1, <3>1, <3>3, TrailersOk
        <3>4. QED
            BY <3>2, <3>3
    <2>2. CASE x.life = "open" /\ f = "info"
        <3>1. y = Informational(p)
            BY <1>4, <2>2 DEF Received
        <3>2. StreamOk(role, [p EXCEPT !.infos = @ + 1])
            BY <1>1, <2>2, InfoOk
        <3>3. QED
            BY <1>6, <3>1, <3>2 DEF Informational
    <2>3. CASE x.life = "open" /\ f \in {"bad", "reset"}
        <3>1. y = Reset(p)
            BY <1>4, <2>3 DEF Received
        <3>2. QED
            BY <1>6, <3>1
    <2>4. CASE x.life = "open" /\ f = "data"
        <3> DEFINE z == [x EXCEPT !.readable = TRUE]
        <3>1. y = z
            BY <1>4, <2>4 DEF Received
        <3>2. z \in StreamType
            BY <1>1, Values DEF StreamType
        <3>3. /\ SameWork(x, z) /\ z.life = x.life /\ z.wire = x.wire /\ z.pendIn = x.pendIn
              /\ z.inq = x.inq /\ z.response = x.response /\ z.left = x.left /\ z.recv = x.recv
            BY <1>1 DEF StreamType, SameWork
        <3> HIDE DEF x, y, z
        <3>4. StreamOk(role, z)
            BY <1>1, <3>2, <3>3, Alike
        <3>5. QED
            BY <3>1, <3>4
    <2>5. CASE x.life = "open" /\ f = "fin"
        <3>1. y = Received(p, "fin")
            BY <1>4, <2>5
        <3>2. QED
            BY <1>1, <2>5, <3>1, FinOk
    <2>6. CASE x.life = "idle"
        <3>1. Untouched(role, x)
            BY <1>1, <2>6 DEF Inbound
        <3>2. f \in {"head", "bad"}
            BY <1>1, <3>1 DEF Untouched, StreamType, Wires
        <3>3. y = Accepted(p, f)
            BY <1>4, <2>6, <3>2
        <3>4. f = "head" => StreamOk(role, [p EXCEPT !.life = "open", !.task = "run", !.left = p.length])
            BY <1>1, <2>6, AcceptedOk
        <3>5. QED
            BY <1>6, <3>3, <3>4 DEF Accepted
    <2>7. QED
        BY <1>3, <1>5, <2>1, <2>2, <2>3, <2>4, <2>5, <2>6 DEF Frame
<1> HIDE DEF y
<1>8. QED
    BY <1>2, <1>7, OneStream

-----------------------------------------------------------------------------
(* The callers, the request channel, the end of the driver.                *)

\* A caller that gives up still awaits the head, as far as the driver knows.
LEMMA GiveUpKeeps ==
    ASSUME StreamsInv, NEW s \in Stream, GiveUp(s)
    PROVE  StreamsInv'
<1> DEFINE x == st[s]
           y == [x EXCEPT !.response = "dropped"]
<1>1. StreamOk(role, x) /\ x \in StreamType /\ Inbound(role, x) /\ Outbound(x) /\ x.response = "waiting"
    BY DEF StreamsInv, StreamOk, GiveUp
<1>2. role' = role /\ st' = [st EXCEPT ![s] = y]
    BY DEF GiveUp, transport
<1>3. y \in StreamType
    BY <1>1, Values DEF StreamType
<1>4. /\ SameWork(x, y) /\ y.life = x.life /\ y.wire = x.wire /\ y.pendIn = x.pendIn
      /\ y.inq = x.inq /\ y.response = "dropped" /\ y.left = x.left /\ y.recv = x.recv
    BY <1>1 DEF StreamType, SameWork
<1> HIDE DEF x, y
<1>5. WireOk(role, y) /\ (HeadFirst(x) => HeadFirst(y)) /\ (Untouched(role, x) => Untouched(role, y))
    BY <1>1, <1>4 DEF Inbound, WireOk, HeadFirst, Untouched, SameWork, Awaits
<1>6. Inbound(role, y)
    BY <1>1, <1>4, <1>5 DEF Inbound, SameWork, Awaits, Whole
<1>7. Outbound(y)
    BY <1>1, <1>4 DEF Outbound, SameWork
<1>8. QED
    BY <1>2, <1>3, <1>6, <1>7, OneStream DEF StreamOk

\* A request is put into the channel, or refused.
LEMMA AskKeeps ==
    ASSUME StreamsInv, NEW s \in Stream, Ask(s)
    PROVE  StreamsInv'
<1> DEFINE x == st[s]
           g == [x EXCEPT !.life = "gone", !.response = "error"]
           q == [x EXCEPT !.life = "queued", !.response = "waiting"]
<1>1. StreamOk(role, x) /\ x \in StreamType /\ Inbound(role, x) /\ Outbound(x) /\ x.life = "idle" /\ role = "client"
    BY DEF StreamsInv, StreamOk, Ask
<1>2. Untouched(role, x) /\ WireOk(role, x) /\ x.wire = <<>>
    BY <1>1 DEF Inbound, WireOk
<1>3. role' = role /\ (st' = [st EXCEPT ![s] = g] \/ st' = [st EXCEPT ![s] = q])
    BY DEF Ask, transport, StreamsInv
<1>4. g \in StreamType /\ q \in StreamType
    BY <1>1, Values DEF StreamType
<1>5. /\ SameWork(x, g) /\ g.life = "gone" /\ g.wire = x.wire /\ g.pendIn = x.pendIn
      /\ g.inq = x.inq /\ g.response = "error" /\ g.left = x.left /\ g.recv = x.recv
    BY <1>1 DEF StreamType, SameWork
<1>6. /\ SameWork(x, q) /\ q.life = "queued" /\ q.wire = x.wire /\ q.pendIn = x.pendIn
      /\ q.inq = x.inq /\ q.response = "waiting" /\ q.left = x.left /\ q.recv = x.recv
    BY <1>1 DEF StreamType, SameWork
<1> HIDE DEF x, g, q
<1>7. WireOk(role, g) /\ WireOk(role, q) /\ Untouched(role, q)
    BY <1>1, <1>2, <1>5, <1>6 DEF WireOk, Untouched, SameWork, Awaits
<1>8. Inbound(role, g)
    BY <1>1, <1>2, <1>5, <1>7 DEF Inbound, SameWork, Awaits, Whole
<1>9. Inbound(role, q)
    BY <1>1, <1>2, <1>6, <1>7 DEF Inbound, SameWork, Awaits, Whole
<1>10. Outbound(g) /\ Outbound(q)
    BY <1>1, <1>2, <1>5, <1>6 DEF Outbound, SameWork, Untouched
<1>11. StreamOk(role, g) /\ StreamOk(role, q)
    BY <1>4, <1>8, <1>9, <1>10 DEF StreamOk
<1>12. QED
    BY <1>3, <1>11, OneStream

\* The driver takes the request out of the channel.
LEMMA TakeRequestKeeps ==
    ASSUME StreamsInv, QueueInv, TakeRequest
    PROVE  StreamsInv'
<1> DEFINE s == Head(chan)
           x == st[s]
           y == [x EXCEPT !.life = "pending"]
<1>1. s \in Stream /\ x.life = "queued"
    BY DEF QueueInv, TakeRequest
<1>2. StreamOk(role, x) /\ x \in StreamType /\ Inbound(role, x) /\ Outbound(x) /\ Untouched(role, x)
    BY <1>1 DEF StreamsInv, StreamOk, Inbound
<1>3. role' = role /\ st' = [st EXCEPT ![s] = y]
    BY DEF TakeRequest, transport
<1>4. y \in StreamType
    BY <1>2, Values DEF StreamType
<1>5. /\ SameWork(x, y) /\ y.life = "pending" /\ y.wire = x.wire /\ y.pendIn = x.pendIn
      /\ y.inq = x.inq /\ y.response = x.response /\ y.left = x.left /\ y.recv = x.recv
    BY <1>2 DEF StreamType, SameWork
<1> HIDE DEF s, x, y
<1>6. WireOk(role, y) /\ Untouched(role, y)
    BY <1>1, <1>2, <1>5 DEF Inbound, WireOk, Untouched, SameWork, Awaits
<1>7. Inbound(role, y)
    BY <1>1, <1>2, <1>5, <1>6 DEF Inbound, SameWork, Awaits, Whole
<1>8. Outbound(y)
    BY <1>1, <1>2, <1>5 DEF Outbound, SameWork, Untouched
<1>9. QED
    BY <1>1, <1>3, <1>4, <1>7, <1>8, OneStream DEF StreamOk

\* Its stream opens, or the caller is told that it does not.
LEMMA SubmitKeeps ==
    ASSUME StreamsInv, NEW s \in Stream, Submit(s)
    PROVE  StreamsInv'
<1> DEFINE x == st[s]
           y == [x EXCEPT !.life = "open", !.task = "run"]
<1>1. StreamOk(role, x) /\ x \in StreamType /\ Inbound(role, x) /\ Outbound(x)
      /\ x.life = "pending" /\ Untouched(role, x)
    BY DEF StreamsInv, StreamOk, Submit, Pending, Inbound
<1>2. role' = role /\ \E z \in Submitted(x) : st' = [st EXCEPT ![s] = z]
    BY DEF Submit, transport
<1>3. Submitted(x) \subseteq {Removed(x), y}
    BY DEF Submitted
<1>4. StreamOk(role, Removed(x))
    BY <1>1, ResetOk
<1>5. StreamOk(role, y)
    <2>1. y \in StreamType
        BY <1>1, Values DEF StreamType
    <2>2. /\ y.kind = x.kind /\ y.began = x.began /\ y.sentN = x.sentN /\ y.sentEnd = x.sentEnd
          /\ y.length = x.length /\ y.gotN = x.gotN /\ y.gotEnd = x.gotEnd
          /\ y.taskN = x.taskN /\ y.outq = x.outq /\ y.pendOut = x.pendOut
          /\ y.writeDone = x.writeDone /\ y.peerN = x.peerN /\ y.peerEnd = x.peerEnd
          /\ y.life = "open" /\ y.task = "run" /\ y.left = x.left
          /\ y.wire = x.wire /\ y.pendIn = x.pendIn
          /\ y.inq = x.inq /\ y.response = x.response /\ y.recv = x.recv
        BY <1>1 DEF StreamType
    <2> HIDE DEF x, y
    <2>3. /\ x.wire = <<>> /\ Awaits(x) /\ role = "client" /\ ~x.began /\ x.sentN = 0
          /\ WireOk(role, x)
        BY <1>1 DEF Inbound, WireOk, Untouched
    <2>4. Chunks(<<>>) = 0 /\ (\A f : ~Has(<<>>, f) /\ LastOnly(<<>>, f)) /\ 1..Len(<<>>) = {}
        BY Nothing
    <2>5. HeadFirst(y) /\ Awaits(y) /\ WireOk(role, y)
        BY <1>1, <2>2, <2>3, <2>4 DEF HeadFirst, Untouched, Awaits, WireOk
    <2>6. Inbound(role, y)
        BY <1>1, <2>2, <2>3, <2>4, <2>5 DEF Inbound, Untouched, Whole
    <2>7. Outbound(y)
        BY <1>1, <2>2, <2>4 DEF Outbound, Untouched
    <2>8. QED
        BY <2>1, <2>6, <2>7 DEF StreamOk
<1> HIDE DEF x, y
<1>6. QED
    BY <1>2, <1>3, <1>4, <1>5, OneStream DEF x

\* The driver stops: every open stream is reset, every request waiting refused.
LEMMA StoppedKeeps ==
    ASSUME StreamsInv, Stopped
    PROVE  StreamsInv'
<1> DEFINE new(x) == CASE x.life = "open" -> Reset(x)
                       [] x.life \in {"queued", "pending"} -> Removed(x)
                       [] OTHER -> [x EXCEPT !.wire = <<>>]
<1>1. role' = role /\ st' = [s \in Stream |-> new(st[s])]
    BY DEF Stopped, transport
<1>2. ASSUME NEW x, StreamOk(role, x)
      PROVE  StreamOk(role, new(x))
    <2> DEFINE y == [x EXCEPT !.wire = <<>>]
    <2>1. x \in StreamType /\ Inbound(role, x) /\ Outbound(x)
        BY <1>2 DEF StreamOk
    <2>2. CASE x.life = "open"
        BY <1>2, <2>2, ResetOk
    <2>3. CASE x.life \in {"queued", "pending"}
        BY <1>2, <2>3, ResetOk
    <2>4. CASE x.life \notin {"open", "queued", "pending"}
        <3>1. new(x) = y /\ x.life \in {"idle", "gone"}
            BY <2>1, <2>4 DEF StreamType, Lives
        <3>2. y \in StreamType
            BY <2>1, Values DEF StreamType
        <3>3. /\ SameWork(x, y) /\ y.life = x.life /\ y.wire = <<>> /\ y.pendIn = x.pendIn
              /\ y.inq = x.inq /\ y.response = x.response /\ y.left = x.left /\ y.recv = x.recv
            BY <2>1 DEF StreamType, SameWork
        <3> HIDE DEF y
        <3>4. (\A f : ~Has(<<>>, f) /\ LastOnly(<<>>, f) /\ Once(<<>>, f)) /\ 1..Len(<<>>) = {}
            BY Nothing
        <3>5. WireOk(role, y)
            BY <2>1, <3>3, <3>4 DEF WireOk, Inbound, SameWork
        <3>6. x.life = "idle" => Untouched(role, y)
            BY <2>1, <3>3 DEF Untouched, Inbound, SameWork
        <3>7. Inbound(role, y)
            BY <2>1, <3>1, <3>3, <3>4, <3>5, <3>6 DEF Inbound, SameWork, Awaits, Whole
        <3>8. Outbound(y)
            BY <2>1, <3>3 DEF Outbound, SameWork
        <3>9. QED
            BY <3>1, <3>2, <3>7, <3>8 DEF StreamOk
    <2>5. QED
        BY <2>2, <2>3, <2>4
<1> HIDE DEF new
<1>3. \A s \in Stream : StreamOk(role, st'[s])
    BY <1>1, <1>2 DEF StreamsInv
<1>4. st' = [s \in Stream |-> st'[s]]
    BY <1>1
<1>5. QED
    BY <1>1, <1>3, <1>4 DEF StreamsInv

-----------------------------------------------------------------------------
(* The application.                                                        *)

\* A task that has sent its last frame sends no other.
LEMMA TaskSendsKeeps ==
    ASSUME StreamsInv, NEW s \in Stream, TaskSends(s)
    PROVE  StreamsInv'
<1> DEFINE x == st[s]
           n(f) == IF f = "data" THEN x.taskN + 1 ELSE x.taskN
           w(f) == IF f \in {"fin", "trailers"} THEN "done"
                   ELSE IF f = "error" THEN "failed" ELSE x.task
           y(f) == [x EXCEPT !.outq = Append(@, f), !.head = @ \/ f = "head", !.taskN = n(f), !.task = w(f)]
<1>1. PICK f \in Frames(x) : st' = [st EXCEPT ![s] = y(f)]
    <2>1. PICK f \in Frames(x) :
              st' = [st EXCEPT ![s] =
                        [x EXCEPT !.outq = Append(@, f),
                                  !.head = @ \/ f = "head",
                                  !.taskN = IF f = "data" THEN @ + 1 ELSE @,
                                  !.task = IF f \in {"fin", "trailers"} THEN "done"
                                           ELSE IF f = "error" THEN "failed" ELSE @]]
        BY DEF TaskSends
    <2>2. x \in StreamType
        BY DEF StreamsInv, StreamOk
    <2>3. y(f) = [x EXCEPT !.outq = Append(@, f),
                           !.head = @ \/ f = "head",
                           !.taskN = IF f = "data" THEN @ + 1 ELSE @,
                           !.task = IF f \in {"fin", "trailers"} THEN "done"
                                    ELSE IF f = "error" THEN "failed" ELSE @]
        BY <2>2 DEF StreamType
    <2> HIDE DEF y
    <2>4. QED
        BY <2>1, <2>3
<1>2. StreamOk(role, x) /\ x \in StreamType /\ Inbound(role, x) /\ Outbound(x)
      /\ x.task = "run" /\ x.life = "open" /\ f \in OutFrame
    BY DEF StreamsInv, StreamOk, TaskSends, Outbound, Frames, OutFrame
<1>3. role' = role
    BY DEF TaskSends, transport
<1>4. x.outq \in Seq(OutFrame) /\ x.taskN \in Nat /\ x.pendOut \in Seq(OutFrame) /\ x.peerN \in Nat
    BY <1>2 DEF StreamType, Outputs, Counts
<1>5. Append(x.outq, f) \in Outputs /\ n(f) \in Counts /\ w(f) \in Works /\ (x.head \/ f = "head") \in Flags
    BY <1>2, <1>4, Values DEF Outputs, Counts, Flags
<1>6. y(f) \in StreamType
    <2> HIDE DEF n, w
    <2>1. QED
        BY <1>2, <1>5 DEF StreamType
<1>7. /\ y(f).kind = x.kind /\ y(f).began = x.began /\ y(f).sentN = x.sentN /\ y(f).sentEnd = x.sentEnd
      /\ y(f).length = x.length /\ y(f).gotN = x.gotN /\ y(f).gotEnd = x.gotEnd
      /\ y(f).pendOut = x.pendOut /\ y(f).writeDone = x.writeDone /\ y(f).peerN = x.peerN /\ y(f).peerEnd = x.peerEnd
      /\ y(f).life = x.life /\ y(f).left = x.left /\ y(f).wire = x.wire /\ y(f).pendIn = x.pendIn
      /\ y(f).inq = x.inq /\ y(f).response = x.response /\ y(f).recv = x.recv
      /\ y(f).outq = Append(x.outq, f) /\ y(f).taskN = n(f) /\ y(f).task = w(f)
    <2> HIDE DEF n, w
    <2>1. QED
        BY <1>2 DEF StreamType
<1>8. n(f) = x.taskN + (IF f = "data" THEN 1 ELSE 0) /\ (w(f) = "run" => f \notin {"fin", "trailers"})
    BY <1>2, <1>4
<1>9. (f \in {"fin", "trailers"} => w(f) = "done") /\ w(f) # "none"
    BY <1>2
<1> HIDE DEF x, y, n, w
<1>10. Inbound(role, y(f))
    BY <1>2, <1>7 DEF Inbound, WireOk, HeadFirst, LengthKept, Awaits, Whole
<1>11. /\ Chunks(y(f).outq) = Chunks(x.outq) + (IF f = "data" THEN 1 ELSE 0)
       /\ \A g : Has(y(f).outq, g) <=> Has(x.outq, g) \/ f = g
       /\ \A g : ~Has(x.outq, g) => LastOnly(y(f).outq, g)
    BY <1>2, <1>4, <1>7, Joins
<1>12. Chunks(x.outq) \in Nat /\ Chunks(x.pendOut) \in Nat
    BY <1>4, ChunksType
<1>13. ~Has(x.outq, "fin") /\ ~Has(x.outq, "trailers")
       /\ (x.pendOut # <<>> => Len(x.pendOut) = 1 /\ x.pendOut[1] \notin {"fin", "trailers"})
       /\ x.peerEnd # "fin"
    BY <1>2 DEF Outbound
<1>14. Outbound(y(f))
    BY <1>2, <1>4, <1>7, <1>8, <1>9, <1>11, <1>12, <1>13 DEF Outbound
<1>15. QED
    BY <1>1, <1>3, <1>6, <1>10, <1>14, OneStream DEF StreamOk

\* A service that cannot send its response on just ends.
LEMMA TaskFailsKeeps ==
    ASSUME StreamsInv, NEW s \in Stream, TaskFails(s)
    PROVE  StreamsInv'
<1> DEFINE x == st[s]
           y == [x EXCEPT !.task = "failed"]
<1>1. StreamOk(role, x) /\ x \in StreamType /\ Inbound(role, x) /\ Outbound(x) /\ x.task = "run" /\ x.life = "open"
    BY DEF StreamsInv, StreamOk, TaskFails, Outbound
<1>2. role' = role /\ st' = [st EXCEPT ![s] = y]
    BY DEF TaskFails, transport
<1>3. y \in StreamType
    BY <1>1, Values DEF StreamType
<1>4. /\ y.kind = x.kind /\ y.began = x.began /\ y.sentN = x.sentN /\ y.sentEnd = x.sentEnd
      /\ y.length = x.length /\ y.gotN = x.gotN /\ y.gotEnd = x.gotEnd
      /\ y.pendOut = x.pendOut /\ y.writeDone = x.writeDone /\ y.peerN = x.peerN /\ y.peerEnd = x.peerEnd
      /\ y.life = x.life /\ y.left = x.left /\ y.wire = x.wire /\ y.pendIn = x.pendIn
      /\ y.inq = x.inq /\ y.response = x.response /\ y.recv = x.recv
      /\ y.outq = x.outq /\ y.taskN = x.taskN /\ y.task = "failed"
    BY <1>1 DEF StreamType
<1> HIDE DEF x, y
<1>5. Inbound(role, y)
    BY <1>1, <1>4 DEF Inbound, WireOk, HeadFirst, LengthKept, Awaits, Whole
<1>6. Outbound(y)
    BY <1>1, <1>4 DEF Outbound
<1>7. QED
    BY <1>2, <1>3, <1>5, <1>6, OneStream DEF StreamOk

\* Everything but what the application has read.
SameElse(x, y) ==
    /\ y.kind = x.kind /\ y.life = x.life /\ y.pendIn = x.pendIn
    /\ y.wire = x.wire /\ y.began = x.began /\ y.sentN = x.sentN /\ y.sentEnd = x.sentEnd
    /\ y.length = x.length /\ y.left = x.left /\ y.recv = x.recv
    /\ y.task = x.task /\ y.taskN = x.taskN /\ y.outq = x.outq /\ y.pendOut = x.pendOut
    /\ y.writeDone = x.writeDone /\ y.peerN = x.peerN /\ y.peerEnd = x.peerEnd
    /\ y.response = x.response

\* The application reads what is in its channel, or learns that it has closed.
LEMMA ReadBodyKeeps ==
    ASSUME StreamsInv, NEW s \in Stream, ReadBody(s)
    PROVE  StreamsInv'
<1> DEFINE x == st[s]
           q == IF x.inq = <<>> THEN x.inq ELSE Tail(x.inq)
           got(end) == [x EXCEPT !.gotEnd = end, !.inq = q]
           more == [got("no") EXCEPT !.gotN = @ + 1]
<1>1. StreamOk(role, x) /\ x \in StreamType /\ Inbound(role, x) /\ Outbound(x) /\ x.gotEnd = "no" /\ x.recv
      /\ ~Awaits(x) /\ x.life # "idle"
    <2>1. StreamOk(role, x) /\ x \in StreamType /\ Inbound(role, x) /\ Outbound(x)
        BY DEF StreamsInv, StreamOk
    <2>2. x.recv /\ x.gotEnd = "no" /\ (x.response = "ok" \/ (role = "server" /\ x.life # "idle"))
        BY DEF ReadBody, HasBody
    <2> HIDE DEF x
    <2>3. ~Awaits(x)
        BY <2>1, <2>2 DEF Inbound, Awaits
    <2>4. x.life # "idle"
        BY <2>1, <2>2 DEF Inbound, Untouched
    <2>5. QED
        BY <2>1, <2>2, <2>3, <2>4
<1>2. x.inq \in Seq(Given) /\ x.gotN \in Nat /\ x.gotN + 1 \in Counts
    BY <1>1, Values DEF StreamType, Inputs, Counts
<1>3. x.inq # <<>> =>
         /\ q \in Seq(Given) /\ Head(x.inq) \in Given
         /\ Chunks(x.inq) = Chunks(q) + (IF Head(x.inq) = "data" THEN 1 ELSE 0)
         /\ \A f : Has(x.inq, f) <=> Has(q, f) \/ Head(x.inq) = f
         /\ \A f : LastOnly(x.inq, f) => LastOnly(q, f)
         /\ \A f : LastOnly(x.inq, f) /\ Head(x.inq) = f => q = <<>>
    BY <1>2, Leaves
<1>4. q \in Inputs /\ Chunks(q) \in Nat
    <2>1. q \in Seq(Given)
        BY <1>2, <1>3
    <2>2. QED
        BY <2>1, ChunksType DEF Inputs
<1>5. x.life \notin {"idle", "queued", "pending"}
    BY <1>1 DEF Inbound, Untouched
<1>6. x.life = "open" => LengthKept(role, x)
    BY <1>1 DEF Inbound
<1>7. ASSUME NEW y \in StreamType, NEW end \in {"no", "clean", "error"},
             SameElse(x, y),
             y.inq = q, y.gotEnd = end,
             y.gotN + Chunks(q) = x.gotN + Chunks(x.inq), y.gotN \in Nat,
             \A f : Has(q, f) => Has(x.inq, f),
             LastOnly(q, "end"),
             end = "clean" => Has(x.inq, "end") /\ q = <<>>,
             role = "client" /\ x.kind = "head" => y.gotN = 0
      PROVE  StreamOk(role, y)
    <2>1. /\ y.kind = x.kind /\ y.life = x.life /\ y.pendIn = x.pendIn /\ y.left = x.left /\ y.recv = x.recv
          /\ y.wire = x.wire /\ y.began = x.began /\ y.sentN = x.sentN /\ y.sentEnd = x.sentEnd
          /\ y.length = x.length
          /\ y.task = x.task /\ y.taskN = x.taskN /\ y.outq = x.outq /\ y.pendOut = x.pendOut
          /\ y.writeDone = x.writeDone /\ y.peerN = x.peerN /\ y.peerEnd = x.peerEnd
          /\ y.response = x.response
        BY <1>7 DEF SameElse
    <2> HIDE DEF x, q
    <2>2. Chunks(<<>>) = 0
        BY Nothing
    <2>3. ASSUME x.life = "open" PROVE LengthKept(role, y)
        <3>1. LengthKept(role, x)
            BY <1>6, <2>3
        <3>2. x.left \in Nat /\ x.length \in Nat /\ Chunks(x.inq) \in Nat
            BY <1>1, <1>2, BoundAssumption, ChunksType DEF StreamType, Lengths, Any
        <3>3. x.left + x.gotN + Chunks(x.inq) = x.left + y.gotN + Chunks(q)
            <4>1. y.gotN + Chunks(q) = x.gotN + Chunks(x.inq) /\ y.gotN \in Nat /\ x.gotN \in Nat
                BY <1>2, <1>7
            <4>2. \A a, b, c, d, e \in Nat : d + e = b + c => a + b + c = a + d + e
                OBVIOUS
            <4>3. QED
                BY <1>4, <3>2, <4>1, <4>2
        <3>4. QED
            BY <1>7, <2>1, <3>1, <3>3 DEF LengthKept
    <2>4. WireOk(role, y)
        BY <1>1, <1>7, <2>1 DEF Inbound, WireOk
    <2>5. Has(q, "end") => Whole(y, y.gotN + Chunks(q)) /\ x.wire = <<>> /\ x.pendIn = <<>>
        BY <1>1, <1>7, <2>1 DEF Inbound, Whole
    <2>6. end = "clean" => Whole(y, y.gotN)
        <3>1. ASSUME end = "clean" PROVE Whole(y, y.gotN)
            <4>1. Whole(x, x.gotN + Chunks(x.inq)) /\ y.gotN + 0 = x.gotN + Chunks(x.inq)
                BY <1>1, <1>7, <2>2, <3>1 DEF Inbound
            <4>2. y.gotN = x.gotN + Chunks(x.inq)
                BY <1>7, <4>1
            <4>3. QED
                BY <1>7, <2>1, <4>1, <4>2 DEF Whole
        <3>2. QED
            BY <3>1
    <2>7. role = "client" /\ y.kind = "head" => y.gotN = 0 /\ Chunks(q) = 0
        <3>1. SUFFICES ASSUME role = "client", x.kind = "head" PROVE y.gotN = 0 /\ Chunks(q) = 0
            BY <2>1
        <3>2. x.gotN = 0 /\ Chunks(x.inq) = 0 /\ y.gotN = 0
            BY <1>1, <1>7, <3>1 DEF Inbound
        <3>3. QED
            BY <1>4, <1>7, <3>2
    <2>8. x.life = "open" /\ x.recv /\ x.sentEnd # "reset" =>
             y.gotN + Chunks(q) + Chunks(x.wire) = x.sentN
        BY <1>1, <1>7 DEF Inbound
    <2>9. Inbound(role, y)
        BY <1>1, <1>5, <1>7, <2>1, <2>3, <2>4, <2>5, <2>6, <2>7, <2>8 DEF Inbound, Awaits
    <2>10. Outbound(y)
        BY <1>1, <2>1, OutboundSame
    <2>11. QED
        BY <1>7, <2>9, <2>10 DEF StreamOk
<1>8. \A end \in {"no", "clean", "error"} : /\ got(end) \in StreamType /\ SameElse(x, got(end))
                                            /\ got(end).inq = q /\ got(end).gotEnd = end
                                            /\ got(end).gotN = x.gotN
    <2> HIDE DEF q
    <2>1. {"no", "clean", "error"} \subseteq Verdicts
        BY Values
    <2>2. QED
        BY <1>1, <1>4, <2>1 DEF StreamType, SameElse
<1>9. more \in StreamType /\ SameElse(x, more) /\ more.inq = q /\ more.gotEnd = "no"
      /\ more.gotN = x.gotN + 1
    <2> DEFINE g == got("no")
    <2>1. g \in StreamType /\ SameElse(x, g) /\ g.inq = q /\ g.gotEnd = "no" /\ g.gotN = x.gotN
        BY <1>8
    <2> HIDE DEF got, x, q
    <2>2. more \in StreamType
        BY <1>2, <2>1 DEF StreamType
    <2>3. QED
        BY <2>1, <2>2 DEF StreamType, SameElse
<1>10. role' = role
    BY DEF ReadBody, transport
<1>11. \/ x.inq # <<>> /\ Head(x.inq) = "data" /\ st' = [st EXCEPT ![s] = more]
       \/ x.inq # <<>> /\ Head(x.inq) = "trailers" /\ st' = [st EXCEPT ![s] = got("no")]
       \/ x.inq # <<>> /\ Head(x.inq) = "end" /\ st' = [st EXCEPT ![s] = got("clean")]
       \/ x.inq # <<>> /\ Head(x.inq) = "error" /\ st' = [st EXCEPT ![s] = got("error")]
       \/ x.inq = <<>> /\ st' = [st EXCEPT ![s] = got("error")]
    BY <1>1, <1>3 DEF ReadBody, Given
<1>12. /\ \A f : ~Has(<<>>, f)
       /\ Chunks(<<>>) = 0 /\ Chunks(x.inq) \in Nat
       /\ x.inq = <<>> => q = <<>>
    BY <1>2, Nothing, ChunksType
<1>13. /\ LastOnly(x.inq, "end")
       /\ role = "client" /\ x.kind = "head" => x.gotN = 0 /\ Chunks(x.inq) = 0
    BY <1>1 DEF Inbound
<1> HIDE DEF x, q, got, more
<1>14. LastOnly(q, "end") /\ \A f : Has(q, f) => Has(x.inq, f)
    BY <1>3, <1>12, <1>13, Nothing
<1>15. ASSUME x.inq # <<>>, Head(x.inq) = "data"
       PROVE  StreamOk(role, more)
    <2>1. Chunks(x.inq) = Chunks(q) + 1
        BY <1>3, <1>4, <1>15
    <2>2. more.gotN + Chunks(q) = x.gotN + Chunks(x.inq) /\ more.gotN \in Nat
        BY <1>2, <1>4, <1>9, <2>1
    <2>3. ~(role = "client" /\ x.kind = "head")
        BY <1>4, <1>13, <2>1
    <2>4. QED
        BY <1>7, <1>9, <1>14, <2>2, <2>3
<1>16. ASSUME NEW end \in {"no", "clean", "error"}, Chunks(q) = Chunks(x.inq),
              end = "clean" => Has(x.inq, "end") /\ q = <<>>
       PROVE  StreamOk(role, got(end))
    BY <1>2, <1>7, <1>8, <1>13, <1>14, <1>16
<1>17. x.inq # <<>> /\ Head(x.inq) # "data" => Chunks(q) = Chunks(x.inq)
    BY <1>3, <1>4
<1>18. x.inq # <<>> /\ Head(x.inq) = "end" => Has(x.inq, "end") /\ q = <<>>
    BY <1>3, <1>13
<1>19. x.inq = <<>> => Chunks(q) = Chunks(x.inq)
    BY <1>12
<1>20. StreamOk(role, more) /\ st' = [st EXCEPT ![s] = more] => StreamsInv'
    BY <1>10, OneStream
<1>21. \A end \in {"no", "clean", "error"} :
          StreamOk(role, got(end)) /\ st' = [st EXCEPT ![s] = got(end)] => StreamsInv'
    BY <1>10, OneStream
<1>22. QED
    BY <1>11, <1>15, <1>16, <1>17, <1>18, <1>19, <1>20, <1>21

\* A body that is dropped is given up with what its channel holds.
LEMMA DropBodyKeeps ==
    ASSUME StreamsInv, NEW s \in Stream, DropBody(s)
    PROVE  StreamsInv'
<1> DEFINE x == st[s]
           y == [x EXCEPT !.recv = FALSE, !.inq = <<>>]
<1>1. StreamOk(role, x) /\ x \in StreamType /\ Inbound(role, x) /\ Outbound(x) /\ x.recv
      /\ (x.response = "ok" \/ (role = "server" /\ x.life # "idle"))
    BY DEF StreamsInv, StreamOk, DropBody, HasBody
<1>2. ~Awaits(x) /\ x.life \notin {"idle", "queued", "pending"}
    BY <1>1 DEF Inbound, Awaits, Untouched
<1>3. role' = role
    BY DEF DropBody, transport
<1>4. st' = [st EXCEPT ![s] = y]
    BY DEF DropBody, StreamsInv
<1>5. y \in StreamType
    BY <1>1, Values DEF StreamType
<1>6. /\ SameWork(x, y) /\ y.life = x.life /\ y.wire = x.wire /\ y.pendIn = x.pendIn
      /\ y.inq = <<>> /\ y.response = x.response /\ y.left = x.left /\ y.recv = FALSE
    BY <1>1 DEF StreamType, SameWork
<1> HIDE DEF x, y
<1>7. Chunks(<<>>) = 0 /\ \A f : ~Has(<<>>, f) /\ LastOnly(<<>>, f)
    BY Nothing
<1>8. WireOk(role, y) /\ (x.life = "open" => LengthKept(role, y))
    BY <1>1, <1>2, <1>6 DEF Inbound, WireOk, LengthKept, SameWork
<1>9. Inbound(role, y)
    BY <1>1, <1>2, <1>6, <1>7, <1>8 DEF Inbound, SameWork, Awaits, Whole
<1>10. Outbound(y)
    BY <1>1, <1>6 DEF Outbound, SameWork
<1>11. QED
    BY <1>3, <1>4, <1>5, <1>9, <1>10, OneStream DEF StreamOk

-----------------------------------------------------------------------------
(* A pass over one stream: what is written, then what is read.             *)

\* The inbound side of a stream and what it is compared with.
SameInbound(x, y) ==
    /\ y.kind = x.kind /\ y.life = x.life /\ y.wire = x.wire /\ y.began = x.began
    /\ y.sentN = x.sentN /\ y.sentEnd = x.sentEnd /\ y.length = x.length
    /\ y.pendIn = x.pendIn /\ y.inq = x.inq /\ y.left = x.left /\ y.recv = x.recv
    /\ y.gotN = x.gotN /\ y.gotEnd = x.gotEnd /\ y.response = x.response

\* The peer's side of an open stream reads no other field.
LEMMA InboundSame ==
    ASSUME NEW x, Inbound(role, x), x.life = "open", NEW y, SameInbound(x, y)
    PROVE  Inbound(role, y)
BY DEF SameInbound, Inbound, WireOk, HeadFirst, LengthKept, Awaits, Whole

\* Nobody reads on: what is left of the message is let go.
LEMMA NoMoreReadingOk ==
    ASSUME NEW x, StreamOk(role, x), x.life = "open", ~x.recv
    PROVE  StreamOk(role, NoMoreReading(x)) /\ NoMoreReading(x).life = "open"
<1> DEFINE y == NoMoreReading(x)
<1>1. x \in StreamType /\ Inbound(role, x) /\ Outbound(x)
    BY DEF StreamOk
<1>2. y \in StreamType
    BY <1>1, Values DEF NoMoreReading, StreamType
<1>3. /\ SameWork(x, y) /\ y.life = x.life /\ y.wire = <<>> /\ y.pendIn = <<>>
      /\ y.inq = x.inq /\ y.response = x.response /\ y.left = x.left /\ y.recv = x.recv
    BY <1>1 DEF NoMoreReading, StreamType, SameWork
<1> HIDE DEF y
<1>4. (\A f : ~Has(<<>>, f) /\ LastOnly(<<>>, f) /\ Once(<<>>, f)) /\ 1..Len(<<>>) = {}
    BY Nothing
<1>5. ~Awaits(x) /\ LengthKept(role, x)
    BY <1>1 DEF Inbound, HeadFirst
<1>6. WireOk(role, y) /\ LengthKept(role, y)
    BY <1>1, <1>3, <1>4, <1>5 DEF WireOk, Inbound, LengthKept, SameWork
<1>7. Inbound(role, y)
    BY <1>1, <1>3, <1>4, <1>5, <1>6 DEF Inbound, SameWork, Awaits, Whole
<1>8. Outbound(y)
    BY <1>1, <1>3 DEF Outbound, SameWork
<1>9. QED
    BY <1>2, <1>3, <1>7, <1>8 DEF StreamOk, y

\* A queue of one frame.
LEMMA OneFrame ==
    ASSUME NEW S, NEW s \in Seq(S), Len(s) = 1
    PROVE  Chunks(s) = IF s[1] = "data" THEN 1 ELSE 0
<1> DEFINE t == Tail(s)
<1>1. s # <<>>
    OBVIOUS
<1>2. /\ t \in Seq(S) /\ Head(s) = s[1] /\ Len(t) = Len(s) - 1
      /\ Chunks(s) = Chunks(t) + (IF Head(s) = "data" THEN 1 ELSE 0)
    BY <1>1, Leaves
<1> HIDE DEF t
<1>3. t = <<>>
    BY <1>2, EmptySeq
<1>4. Chunks(t) = 0
    BY <1>3, Nothing
<1>5. QED
    BY <1>2, <1>4

\* The frame at hand is the next of the task's.
LEMMA TakenOk ==
    ASSUME NEW x, StreamOk(role, x), x.life = "open", ~x.writeDone, x.pendOut = <<>>, x.outq # <<>>
    PROVE  LET y == [x EXCEPT !.pendOut = <<Head(x.outq)>>, !.outq = Tail(@)]
           IN  StreamOk(role, y) /\ y.life = "open" /\ ~y.writeDone /\ y.pendOut # <<>>
<1> DEFINE h == Head(x.outq)
           t == Tail(x.outq)
           y == [x EXCEPT !.pendOut = <<h>>, !.outq = Tail(@)]
<1>1. x \in StreamType /\ Inbound(role, x) /\ Outbound(x)
    BY DEF StreamOk
<1>2. x.outq \in Seq(OutFrame) /\ x.taskN \in Nat /\ x.peerN \in Nat
    BY <1>1 DEF StreamType, Outputs, Counts
<1>3. /\ t \in Seq(OutFrame) /\ h \in OutFrame
      /\ Chunks(x.outq) = Chunks(t) + (IF h = "data" THEN 1 ELSE 0)
      /\ \A f : Has(x.outq, f) <=> Has(t, f) \/ h = f
      /\ \A f : LastOnly(x.outq, f) => LastOnly(t, f)
      /\ \A f : LastOnly(x.outq, f) /\ h = f => t = <<>>
    BY <1>2, Leaves
<1>4. Len(<<h>>) = 1 /\ <<h>>[1] = h
      /\ <<h>> # <<>>
    OBVIOUS
<1> HIDE DEF h, t
<1>5. <<h>> \in Seq(OutFrame) /\ Chunks(<<h>>) = IF h = "data" THEN 1 ELSE 0
    <2>1. <<h>> \in Seq(OutFrame)
        BY <1>3
    <2>2. QED
        BY <1>4, <2>1, OneFrame
<1>6. Chunks(t) \in Nat /\ Chunks(<<>>) = 0
    BY <1>3, ChunksType, Nothing
<1>7. y \in StreamType
    <2>1. <<h>> \in Outputs /\ Tail(x.outq) \in Outputs
        BY <1>3, <1>5 DEF Outputs, t
    <2> DEFINE g == <<h>>
    <2> HIDE DEF g
    <2>2. [x EXCEPT !.pendOut = g, !.outq = Tail(@)] \in StreamType
        BY <1>1, <2>1 DEF StreamType, g
    <2>3. QED
        BY <2>2 DEF g
<1>8. /\ SameInbound(x, y) /\ y.task = x.task /\ y.taskN = x.taskN /\ y.writeDone = x.writeDone
      /\ y.peerN = x.peerN /\ y.peerEnd = x.peerEnd /\ y.pendOut = <<h>> /\ y.outq = t
    BY <1>1 DEF StreamType, SameInbound, t
<1>9. y.life = "open" /\ ~y.writeDone /\ y.pendOut # <<>>
    BY <1>4, <1>8 DEF SameInbound
<1> HIDE DEF y
<1>10. Inbound(role, y)
    BY <1>1, <1>8, InboundSame
<1>11. Chunks(<<h>>) + Chunks(t) = Chunks(x.outq) /\ Chunks(x.outq) \in Nat /\ Chunks(<<h>>) \in Nat
    <2> DEFINE a == Chunks(<<h>>)
               b == Chunks(t)
               c == Chunks(x.outq)
    <2>1. a = (IF h = "data" THEN 1 ELSE 0) /\ c = b + (IF h = "data" THEN 1 ELSE 0) /\ b \in Nat
        BY <1>3, <1>5, <1>6
    <2> HIDE DEF a, b, c
    <2>2. a + b = c /\ c \in Nat /\ a \in Nat
        BY <2>1
    <2>3. QED
        BY <2>2 DEF a, b, c
<1>12. x.peerN + Chunks(<<h>>) + Chunks(t) = x.taskN
    <2>1. x.peerN + 0 + Chunks(x.outq) = x.taskN
        BY <1>1, <1>6 DEF Outbound
    <2>2. QED
        BY <1>2, <1>6, <1>11, <2>1
<1>13. Outbound(y)
    BY <1>1, <1>3, <1>4, <1>8, <1>12 DEF Outbound, SameInbound
<1>14. QED
    BY <1>7, <1>9, <1>10, <1>13 DEF StreamOk, y, h

\* It is sent; the end goes out behind every chunk of the task's.
LEMMA SentOk ==
    ASSUME NEW x, StreamOk(role, x), x.life = "open", ~x.writeDone, x.pendOut # <<>>,
           x.pendOut[1] # "error"
    PROVE  StreamOk(role, Sent(x, x.pendOut[1]))
<1> DEFINE f == x.pendOut[1]
           end == f \in {"fin", "trailers"}
           n == IF f = "data" THEN x.peerN + 1 ELSE x.peerN
           e == IF end THEN "fin" ELSE x.peerEnd
           y == [x EXCEPT !.pendOut = <<>>, !.writeDone = end, !.peerN = n, !.peerEnd = e]
<1>1. x \in StreamType /\ Inbound(role, x) /\ Outbound(x)
    BY DEF StreamOk
<1>2. x.outq \in Seq(OutFrame) /\ x.pendOut \in Seq(OutFrame) /\ x.taskN \in Nat /\ x.peerN \in Nat
      /\ x.peerEnd \in Ends
    BY <1>1 DEF StreamType, Outputs, Counts
<1>3. Sent(x, f) = y
    BY <1>1 DEF Sent, StreamType
<1>4. n \in Counts /\ e \in Ends /\ end \in Flags /\ <<>> \in Outputs
    BY <1>2, Values DEF Counts, Flags
<1> DEFINE m == IF f = "data" THEN 1 ELSE 0
<1>5. n = x.peerN + m /\ m \in Nat
    BY <1>2
<1>6. e = IF end THEN "fin" ELSE x.peerEnd
    OBVIOUS
<1> HIDE DEF f, n, e, end, m
<1>7. y \in StreamType
    BY <1>1, <1>4 DEF StreamType
<1>8. /\ SameInbound(x, y) /\ y.task = x.task /\ y.taskN = x.taskN /\ y.outq = x.outq
      /\ y.pendOut = <<>> /\ y.writeDone = end /\ y.peerN = n /\ y.peerEnd = e
    BY <1>1 DEF StreamType, SameInbound
<1> HIDE DEF y
<1>9. Len(x.pendOut) = 1 /\ (end => x.task = "done" /\ x.outq = <<>>)
      /\ x.peerN + Chunks(x.pendOut) + Chunks(x.outq) = x.taskN /\ x.peerEnd = "no"
    BY <1>1 DEF Outbound, f, end
<1>10. Chunks(x.pendOut) = m
    BY <1>2, <1>9, OneFrame DEF f, m
<1>11. Chunks(<<>>) = 0 /\ (\A g : ~Has(<<>>, g) /\ LastOnly(<<>>, g)) /\ Chunks(x.outq) \in Nat
    BY <1>2, Nothing, ChunksType
<1>12. n + 0 + Chunks(x.outq) = x.taskN
    BY <1>2, <1>5, <1>9, <1>10, <1>11
<1>13. end => n = x.taskN
    BY <1>2, <1>5, <1>9, <1>11, <1>12
<1>14. Inbound(role, y)
    BY <1>1, <1>8, InboundSame
<1>15. Outbound(y)
    BY <1>1, <1>6, <1>8, <1>9, <1>11, <1>12, <1>13 DEF Outbound, SameInbound
<1>16. QED
    BY <1>3, <1>7, <1>14, <1>15 DEF StreamOk, f

\* What a pass may make of the outbound side.
LEMMA WrittenOk ==
    ASSUME NEW x, StreamOk(role, x), x.life = "open", NEW z \in Written(x)
    PROVE  StreamOk(role, z)
<1> DEFINE y == IF x.pendOut # <<>> THEN x
                ELSE [x EXCEPT !.pendOut = <<Head(x.outq)>>, !.outq = Tail(@)]
           f == y.pendOut[1]
<1>1. StreamOk(role, Reset(x))
    BY ResetOk
<1>2. CASE x.writeDone \/ (x.pendOut = <<>> /\ x.outq = <<>>)
    BY <1>1, <1>2 DEF Written, Unfinished
<1>3. CASE ~(x.writeDone \/ (x.pendOut = <<>> /\ x.outq = <<>>))
    <2>1. StreamOk(role, y) /\ y.life = "open" /\ ~y.writeDone /\ y.pendOut # <<>>
        BY <1>3, TakenOk
    <2>2. z \in IF f = "error" \/ x.stop THEN {Reset(y)} ELSE {y, Sent(y, f)}
        BY <1>3 DEF Written
    <2> HIDE DEF y
    <2>3. StreamOk(role, Reset(y)) /\ (f # "error" => StreamOk(role, Sent(y, f)))
        BY <2>1, ResetOk, SentOk
    <2> HIDE DEF f
    <2>4. QED
        BY <2>1, <2>2, <2>3
<1>4. QED
    BY <1>2, <1>3

\* A frame other than data joins the application's channel.
LEMMA GiveOk ==
    ASSUME NEW x, StreamOk(role, x), x.life = "open", ~Has(x.inq, "end"),
           NEW f \in Given, f # "data",
           f = "end" => Whole(x, x.gotN + Chunks(x.inq)) /\ x.wire = <<>> /\ x.pendIn = <<>>
    PROVE  StreamOk(role, Give(x, f))
<1> DEFINE y == Give(x, f)
<1>1. x \in StreamType /\ Inbound(role, x) /\ Outbound(x)
    BY DEF StreamOk
<1>2. x.inq \in Seq(Given) /\ x.gotN \in Nat
    BY <1>1 DEF StreamType, Inputs, Counts
<1>3. /\ Append(x.inq, f) \in Seq(Given) /\ Append(x.inq, f) # <<>>
      /\ Chunks(Append(x.inq, f)) = Chunks(x.inq) + (IF f = "data" THEN 1 ELSE 0)
      /\ \A g : Has(Append(x.inq, f), g) <=> Has(x.inq, g) \/ f = g
      /\ \A g : ~Has(x.inq, g) => LastOnly(Append(x.inq, f), g)
    BY <1>2, Joins
<1>4. Append(x.inq, f) \in Inputs
    BY <1>3 DEF Inputs
<1>5. y \in StreamType
    BY <1>1, <1>4 DEF Give, StreamType
<1>6. /\ SameWork(x, y) /\ y.life = x.life /\ y.wire = x.wire /\ y.pendIn = x.pendIn
      /\ y.inq = Append(x.inq, f) /\ y.response = x.response /\ y.left = x.left /\ y.recv = x.recv
    BY <1>1 DEF Give, StreamType, SameWork
<1> HIDE DEF y
<1>7. Chunks(y.inq) = Chunks(x.inq)
    <2>1. Chunks(x.inq) \in Nat
        BY <1>2, ChunksType
    <2>2. QED
        BY <1>3, <1>6, <2>1
<1>8. WireOk(role, y) /\ (IF Awaits(y) THEN HeadFirst(y) ELSE LengthKept(role, y))
    <2>1. WireOk(role, y)
        BY <1>1, <1>6 DEF Inbound, WireOk, SameWork
    <2>2. Awaits(x) => HeadFirst(y)
        BY <1>1, <1>6, <1>7 DEF Inbound, HeadFirst, SameWork
    <2>3. ~Awaits(x) => LengthKept(role, y)
        BY <1>1, <1>6, <1>7 DEF Inbound, LengthKept, SameWork
    <2>4. QED
        BY <1>6, <2>1, <2>2, <2>3 DEF Awaits
<1>9. Has(y.inq, "end") => Whole(y, y.gotN + Chunks(y.inq)) /\ y.wire = <<>> /\ y.pendIn = <<>>
    BY <1>3, <1>6, <1>7 DEF Whole, SameWork
<1>10. LastOnly(y.inq, "end")
    BY <1>3, <1>6
<1>11. Inbound(role, y)
    BY <1>1, <1>6, <1>7, <1>8, <1>9, <1>10 DEF Inbound, SameWork, Awaits, Whole
<1>12. Outbound(y)
    BY <1>1, <1>6 DEF Outbound, SameWork
<1>13. QED
    BY <1>5, <1>11, <1>12 DEF StreamOk, y

\* What the message has come to when its end is given: the whole of it.
LEMMA EndIsWhole ==
    ASSUME NEW x, StreamOk(role, x), x.life = "open", x.recv, Has(x.pendIn, "end"),
           LengthOk(x, 0, TRUE)
    PROVE  Whole(x, x.gotN + Chunks(x.inq)) /\ x.wire = <<>>
<1>1. x \in StreamType /\ Inbound(role, x) /\ WireOk(role, x)
    BY DEF StreamOk, Inbound
<1>2. x.inq \in Seq(Given) /\ x.gotN \in Nat /\ x.left \in Nat /\ x.length \in Nat /\ x.sentN \in Nat
    BY <1>1, BoundAssumption DEF StreamType, Inputs, Counts, Lengths, Any
<1>3. Chunks(x.inq) \in Nat /\ Chunks(<<>>) = 0 /\ ~Has(<<>>, "head")
    BY <1>2, ChunksType, Nothing
<1>4. x.sentEnd = "fin" /\ x.wire = <<>>
    BY <1>1 DEF Inbound
<1>5. x.gotN + Chunks(x.inq) = x.sentN
    <2>1. x.gotN + Chunks(x.inq) + Chunks(<<>>) = x.sentN
        BY <1>1, <1>4 DEF Inbound
    <2>2. QED
        BY <1>2, <1>3, <2>1
<1>6. ASSUME x.kind = "get" PROVE x.length \in {Any, x.sentN}
    <2>1. CASE Awaits(x)
        <3>1. ~x.began
            BY <1>1, <1>3, <1>4, <2>1 DEF Inbound, HeadFirst
        <3>2. QED
            BY <1>1, <3>1 DEF WireOk
    <2>2. CASE ~Awaits(x)
        <3>1. /\ x.left = Any <=> x.length = Any
              /\ x.left # Any => x.left + x.gotN + Chunks(x.inq) = x.length
            BY <1>1, <1>6, <2>2 DEF Inbound, LengthKept
        <3>2. x.left = Any \/ x.left = 0
            BY DEF LengthOk
        <3>3. QED
            BY <1>2, <1>3, <1>5, <3>1, <3>2
    <2>3. QED
        BY <2>1, <2>2
<1>7. QED
    BY <1>4, <1>5, <1>6 DEF Whole

\* The end and trailers are given behind the data, or an error in their place.
LEMMA ReadPendingOk ==
    ASSUME NEW x, StreamOk(role, x), x.life = "open", x.recv
    PROVE  StreamOk(role, ReadPending(x))
<1> DEFINE f == Head(x.pendIn)
           y == [x EXCEPT !.pendIn = Tail(@)]
<1>1. CASE x.pendIn = <<>>
    BY <1>1 DEF ReadPending
<1>2. CASE x.pendIn # <<>>
    <2>1. x \in StreamType /\ Inbound(role, x) /\ Outbound(x)
        BY DEF StreamOk
    <2>2. x.pendIn \in Seq(Final)
        BY <2>1 DEF StreamType, Endings
    <2>3. /\ Tail(x.pendIn) \in Seq(Final) /\ f \in Final
          /\ \A g : Has(x.pendIn, g) <=> Has(Tail(x.pendIn), g) \/ f = g
          /\ \A g : LastOnly(x.pendIn, g) => LastOnly(Tail(x.pendIn), g)
          /\ \A g : LastOnly(x.pendIn, g) /\ f = g => Tail(x.pendIn) = <<>>
        BY <1>2, <2>2, Leaves
    <2>4. Tail(x.pendIn) \in Endings /\ f \in Given /\ f # "data"
        BY <2>3 DEF Endings, Final
    <2>5. y \in StreamType
        BY <2>1, <2>4 DEF StreamType
    <2>6. /\ SameWork(x, y) /\ y.life = x.life /\ y.wire = x.wire /\ y.pendIn = Tail(x.pendIn)
          /\ y.inq = x.inq /\ y.response = x.response /\ y.left = x.left /\ y.recv = x.recv
        BY <2>1 DEF StreamType, SameWork
    <2>7. ReadPending(x) = IF f \in {"end", "trailers"} /\ ~LengthOk(x, 0, TRUE)
                           THEN Reset(Give(y, "error"))
                           ELSE Give(y, f)
        BY <1>2 DEF ReadPending
    <2> HIDE DEF y, f
    <2>8. ~Has(x.inq, "end")
        BY <1>2, <2>1 DEF Inbound
    <2>9. Inbound(role, y)
        <3>1. WireOk(role, y) /\ (IF Awaits(y) THEN HeadFirst(y) ELSE LengthKept(role, y))
            <4>1. WireOk(role, y)
                BY <2>1, <2>6 DEF Inbound, WireOk, SameWork
            <4>2. Awaits(x) => HeadFirst(y)
                BY <2>1, <2>6 DEF Inbound, HeadFirst, SameWork
            <4>3. ~Awaits(x) => LengthKept(role, y)
                BY <2>1, <2>6 DEF Inbound, LengthKept, SameWork
            <4>4. QED
                BY <2>6, <4>1, <4>2, <4>3 DEF Awaits
        <3>2. QED
            BY <2>1, <2>3, <2>6, <2>8, <3>1 DEF Inbound, SameWork, Awaits, Whole
    <2>10. StreamOk(role, y)
        BY <2>1, <2>5, <2>6, <2>9 DEF StreamOk, Outbound, SameWork
    <2>11. StreamOk(role, Reset(Give(y, "error")))
        <3>1. "error" \in Given
            BY DEF Given
        <3>2. QED
            BY <2>6, <2>8, <2>10, <3>1, GiveOk, ResetOk
    <2>12. ASSUME f \in {"end", "trailers"} => LengthOk(x, 0, TRUE)
           PROVE  f # "data" => StreamOk(role, Give(y, f))
        <3>1. ASSUME f = "end" PROVE Whole(y, y.gotN + Chunks(y.inq)) /\ y.wire = <<>> /\ y.pendIn = <<>>
            <4>1. Has(x.pendIn, "end") /\ y.pendIn = <<>>
                BY <2>1, <2>3, <2>6, <3>1 DEF Inbound
            <4>2. Whole(x, x.gotN + Chunks(x.inq)) /\ x.wire = <<>>
                BY <2>12, <3>1, <4>1, EndIsWhole
            <4>3. QED
                BY <2>6, <4>1, <4>2 DEF Whole, SameWork
        <3>2. QED
            BY <2>4, <2>6, <2>8, <2>10, <3>1, GiveOk
    <2>13. QED
        BY <2>4, <2>7, <2>11, <2>12
<1>3. QED
    BY <1>1, <1>2

\* A reset is read as an error.
LEMMA ResetSeen ==
    ASSUME NEW x, StreamOk(role, x), x.life = "open", Has(x.wire, "reset"), x.wire # <<>>
    PROVE  LET y == [x EXCEPT !.pendIn = <<"error">>, !.readable = FALSE,
                              !.readDone = TRUE, !.wire = <<>>]
           IN  StreamOk(role, y) /\ y.life = "open" /\ y.recv = x.recv
<1> DEFINE y == [x EXCEPT !.pendIn = <<"error">>, !.readable = FALSE,
                          !.readDone = TRUE, !.wire = <<>>]
           g == <<"error">>
<1>1. x \in StreamType /\ Inbound(role, x) /\ Outbound(x) /\ x.sentEnd = "reset"
    BY DEF StreamOk, Inbound, WireOk
<1>2. y \in StreamType
    <2>1. g \in Endings
        BY Values
    <2> HIDE DEF g
    <2>2. [x EXCEPT !.pendIn = g, !.readable = FALSE, !.readDone = TRUE, !.wire = <<>>] \in StreamType
        BY <1>1, <2>1, Values DEF StreamType
    <2>3. QED
        BY <2>2 DEF g
<1>3. /\ SameWork(x, y) /\ y.life = x.life /\ y.wire = <<>> /\ y.pendIn = g
      /\ y.inq = x.inq /\ y.response = x.response /\ y.left = x.left /\ y.recv = x.recv
    BY <1>1 DEF StreamType, SameWork
<1>4. ~Has(g, "end") /\ ~Has(g, "trailers") /\ LastOnly(g, "end")
    BY DEF Has, LastOnly
<1> HIDE DEF y, g
<1>5. (\A f : ~Has(<<>>, f) /\ LastOnly(<<>>, f) /\ Once(<<>>, f)) /\ 1..Len(<<>>) = {}
    BY Nothing
<1>6. ~Has(x.inq, "end") /\ x.gotEnd # "clean"
    BY <1>1 DEF Inbound, Whole
<1>7. WireOk(role, y)
    BY <1>1, <1>3, <1>5 DEF WireOk, Inbound, SameWork
<1>8. IF Awaits(y) THEN HeadFirst(y) ELSE LengthKept(role, y)
    <2>1. Awaits(x) => HeadFirst(y)
        BY <1>1, <1>3, <1>5 DEF Inbound, HeadFirst, SameWork
    <2>2. ~Awaits(x) => LengthKept(role, y)
        BY <1>1, <1>3, <1>5 DEF Inbound, LengthKept, SameWork
    <2>3. QED
        BY <1>3, <2>1, <2>2 DEF Awaits
<1>9. Inbound(role, y)
    BY <1>1, <1>3, <1>4, <1>5, <1>6, <1>7, <1>8 DEF Inbound, SameWork, Awaits, Whole
<1>10. Outbound(y)
    BY <1>1, <1>3 DEF Outbound, SameWork
<1>11. QED
    BY <1>2, <1>3, <1>9, <1>10 DEF StreamOk, y

\* A chunk is read while its length is within what was announced.
LEMMA ReadDataOk ==
    ASSUME NEW x, StreamOk(role, x), x.life = "open", x.recv, x.wire # <<>>, Head(x.wire) = "data"
    PROVE  StreamOk(role, ReadData(x))
<1> DEFINE m == IF x.left = Any THEN Any ELSE x.left - 1
           p == [x EXCEPT !.wire = Tail(@), !.left = m]
           y == Give(p, "data")
<1>1. x \in StreamType /\ Inbound(role, x) /\ Outbound(x)
    BY DEF StreamOk
<1>2. x.wire \in Seq(Frame) /\ x.inq \in Seq(Given) /\ x.gotN \in Nat /\ x.sentN \in Nat
      /\ x.left \in 0..Any /\ x.length \in Nat /\ Any \in Nat \ {0}
    BY <1>1, BoundAssumption DEF StreamType, Wires, Inputs, Counts, Lengths, Any
<1>3. ~Has(x.inq, "end")
    BY <1>1 DEF Inbound
<1>4. CASE ~LengthOk(x, 1, FALSE)
    <2>1. "error" \in Given
        BY DEF Given
    <2>2. StreamOk(role, Reset(Give(x, "error")))
        BY <1>3, <2>1, GiveOk, ResetOk
    <2>3. QED
        BY <1>4, <2>2 DEF ReadData
<1>5. CASE LengthOk(x, 1, FALSE)
    <2>1. x.left = Any \/ x.left >= 1
        BY <1>2, <1>5 DEF LengthOk
    <2>2. m \in Lengths /\ (m = Any <=> x.left = Any) /\ (x.left # Any => m + 1 = x.left)
        BY <1>2, <2>1 DEF Lengths
    <2>3. Tail(x.wire) \in Wires /\ Append(x.inq, "data") \in Inputs /\ "data" \in Given
        BY <1>2 DEF Wires, Inputs, Given
    <2>4. ReadData(x) = y
        BY <1>5 DEF ReadData
    <2> HIDE DEF m
    <2>5. p \in StreamType
        BY <1>1, <2>2, <2>3 DEF StreamType
    <2>6. /\ SameWork(x, p) /\ p.life = x.life /\ p.wire = Tail(x.wire) /\ p.pendIn = x.pendIn
          /\ p.inq = x.inq /\ p.response = x.response /\ p.left = m /\ p.recv = x.recv
        BY <1>1 DEF StreamType, SameWork
    <2> HIDE DEF p
    <2>7. y \in StreamType
        BY <2>3, <2>5, <2>6 DEF Give, StreamType
    <2>8. /\ SameWork(x, y) /\ y.life = "open" /\ y.wire = Tail(x.wire) /\ y.pendIn = x.pendIn
          /\ y.inq = Append(x.inq, "data") /\ y.response = x.response /\ y.left = m /\ y.recv = x.recv
        BY <2>5, <2>6 DEF Give, StreamType, SameWork
    <2> HIDE DEF y
    <2>9. /\ WireOk(role, y) /\ Chunks(x.wire) = Chunks(y.wire) + 1
          /\ \A f : Has(y.wire, f) => Has(x.wire, f)
          /\ Has(x.wire, "data")
        <3>1. Has(x.wire, Head(x.wire))
            BY <2>8, WirePops DEF SameWork
        <3>2. QED
            BY <2>8, <3>1, WirePops DEF SameWork
    <2>10. Chunks(x.inq) \in Nat /\ Chunks(y.wire) \in Nat
        BY <1>2, <2>7, ChunksType DEF StreamType, Wires
    <2>11. /\ Chunks(y.inq) = Chunks(x.inq) + 1
           /\ ~Has(y.inq, "end") /\ LastOnly(y.inq, "end")
        BY <1>2, <1>3, <2>3, <2>8, Joins
    <2>12. ~Awaits(x)
        <3>1. ASSUME Awaits(x) PROVE FALSE
            <4>1. 1 \in 1..Len(x.wire) /\ x.wire[1] = "data"
                BY <1>2
            <4>2. PICK j \in 1..Len(x.wire) : j < 1 /\ x.wire[j] = "head"
                BY <1>1, <3>1, <4>1 DEF Inbound, HeadFirst
            <4>3. QED
                BY <4>2
        <3>2. QED
            BY <3>1
    <2>13. LengthKept(role, x) /\ ~Has(x.pendIn, "end") /\ ~Has(x.pendIn, "trailers")
        BY <1>1, <2>9, <2>12, Nothing DEF Inbound
    <2>14. ~(role = "client" /\ x.kind = "head")
        BY <1>2, <2>1, <2>13 DEF LengthKept
    <2>15. x.kind = "get" =>
              /\ m = Any <=> x.length = Any
              /\ m # Any => m + x.gotN + Chunks(y.inq) = x.length
        <3>1. ASSUME x.kind = "get", m # Any PROVE m + x.gotN + Chunks(y.inq) = x.length
            <4>1. x.left + x.gotN + Chunks(x.inq) = x.length /\ m + 1 = x.left /\ m \in Nat
                BY <1>2, <2>2, <2>13, <3>1 DEF LengthKept, Lengths
            <4>2. QED
                BY <1>2, <2>10, <2>11, <4>1
        <3>2. QED
            BY <2>2, <2>13, <3>1 DEF LengthKept
    <2>16. LengthKept(role, y)
        BY <2>8, <2>9, <2>13, <2>14, <2>15 DEF LengthKept, SameWork
    <2>17. x.sentEnd # "reset" => y.gotN + Chunks(y.inq) + Chunks(y.wire) = y.sentN
        <3>1. ASSUME x.sentEnd # "reset" PROVE x.gotN + Chunks(y.inq) + Chunks(y.wire) = x.sentN
            <4>1. x.gotN + Chunks(x.inq) + Chunks(x.wire) = x.sentN
                BY <1>1, <3>1 DEF Inbound
            <4>2. QED
                BY SMTT(30), <1>2, <2>9, <2>10, <2>11, <4>1
        <3>2. QED
            BY <2>8, <3>1 DEF SameWork
    <2>18. Inbound(role, y)
        BY <1>1, <2>8, <2>9, <2>11, <2>12, <2>13, <2>14, <2>16, <2>17 DEF Inbound, SameWork, Awaits, Whole
    <2>19. Outbound(y)
        BY <1>1, <2>8 DEF Outbound, SameWork
    <2>20. QED
        BY <2>4, <2>7, <2>18, <2>19 DEF StreamOk
<1>6. QED
    BY <1>4, <1>5

\* Data first, then trailers and the end, while the application's channel has room.
LEMMA ReadOk ==
    ASSUME NEW x, StreamOk(role, x)
    PROVE  StreamOk(role, Read(x))
<1>1. CASE x.life # "open" \/ ~(x.readable \/ x.pendIn # <<>> \/ ~x.readDone)
    BY <1>1 DEF Read
<1>2. CASE x.life = "open" /\ ~x.recv
    BY <1>2, NoMoreReadingOk DEF Read, InboundOpen
<1>3. CASE x.life = "open" /\ x.recv
    <2> DEFINE e == [x EXCEPT !.pendIn = <<"error">>, !.readable = FALSE,
                              !.readDone = TRUE, !.wire = <<>>]
               y == [x EXCEPT !.readable = FALSE]
    <2>1. Read(x) \in {x}
              \cup (IF x.wire # <<>> /\ Head(x.wire) = "data" THEN {ReadData(x)} ELSE {})
              \cup (IF x.wire # <<>> /\ Head(x.wire) = "reset" THEN {ReadPending(e)} ELSE {})
              \cup {ReadPending(y)}
        BY <1>3 DEF Read, InboundOpen
    <2>2. x.wire # <<>> /\ Head(x.wire) = "data" => StreamOk(role, ReadData(x))
        BY <1>3, ReadDataOk
    <2>3. x.wire # <<>> /\ Head(x.wire) = "reset" => StreamOk(role, ReadPending(e))
        <3>1. ASSUME x.wire # <<>>, Head(x.wire) = "reset" PROVE Has(x.wire, "reset")
            <4>1. x.wire \in Seq(Frame)
                BY DEF StreamOk, StreamType, Wires
            <4>2. QED
                BY <3>1, <4>1, Leaves
        <3>2. ASSUME x.wire # <<>>, Has(x.wire, "reset")
              PROVE  StreamOk(role, e) /\ e.life = "open" /\ e.recv = x.recv
            BY <1>3, <3>2, ResetSeen
        <3> HIDE DEF e
        <3>3. QED
            BY <1>3, <3>1, <3>2, ReadPendingOk
    <2>4. StreamOk(role, ReadPending(y))
        <3>1. x \in StreamType
            BY DEF StreamOk
        <3>2. y \in StreamType
            BY <3>1, Values DEF StreamType
        <3>3. /\ SameWork(x, y) /\ y.life = x.life /\ y.wire = x.wire /\ y.pendIn = x.pendIn
              /\ y.inq = x.inq /\ y.response = x.response /\ y.left = x.left /\ y.recv = x.recv
            BY <3>1 DEF StreamType, SameWork
        <3> HIDE DEF y
        <3>4. StreamOk(role, y)
            BY <3>2, <3>3, Alike
        <3>5. QED
            BY <1>3, <3>3, <3>4, ReadPendingOk
    <2> HIDE DEF e, y
    <2>5. QED
        BY <2>1, <2>2, <2>3, <2>4
<1>4. QED
    BY <1>1, <1>2, <1>3

\* One pass over one stream.
LEMMA PollKeeps ==
    ASSUME StreamsInv, NEW s \in Stream, Poll(s)
    PROVE  StreamsInv'
<1> DEFINE x == st[s]
           w == IF ~x.readDone /\ ~InboundOpen(x) THEN NoMoreReading(x) ELSE x
<1>1. StreamOk(role, x) /\ x.life = "open" /\ role' = role
    BY DEF StreamsInv, Poll, transport
<1>2. PICK z \in Polled(x) : st' = [st EXCEPT ![s] = z]
    BY DEF Poll
<1>3. z \in {Reset(x)} \cup {Finish(Read(y)) : y \in Written(w)}
    BY <1>2 DEF Polled
<1>4. StreamOk(role, Reset(x))
    BY <1>1, ResetOk
<1>5. StreamOk(role, w) /\ w.life = "open"
    BY <1>1, NoMoreReadingOk DEF InboundOpen
<1> HIDE DEF x, w
<1>6. ASSUME NEW y \in Written(w) PROVE StreamOk(role, Finish(Read(y)))
    <2>1. StreamOk(role, Read(y))
        BY <1>5, WrittenOk, ReadOk
    <2>2. QED
        BY <2>1, ResetOk DEF Finish
<1>7. StreamOk(role, z)
    BY <1>3, <1>4, <1>6
<1>8. QED
    BY <1>1, <1>2, <1>7, OneStream

-----------------------------------------------------------------------------
(* The listener.                                                           *)

\* A connection gets its routes, and takes them along when it has been joined.
LEMMA RoutesKept ==
    ASSUME RouteInv, Listener
    PROVE  RouteInv'
<1>1. ASSUME NEW id \in Cid \cup Conn, Datagram(id) PROVE RouteInv'
    <2>1. CASE Known(id) /\ UNCHANGED <<routes, conn>>
               /\ misled' = (misled \/ \E c \in Route(id) : conn[c].at = "run" /\ c \notin Meant(id))
        <3>1. ASSUME NEW c \in Route(id), conn[c].at = "run" PROVE c \in Meant(id)
            <4>1. c \in Conn /\ <<id, c>> \in routes
                BY DEF Route
            <4>2. id \in {c, conn[c].initial}
                BY <4>1 DEF RouteInv
            <4>3. QED
                BY <3>1, <4>1, <4>2 DEF Meant
        <3>2. misled' = FALSE
            BY <2>1, <3>1 DEF RouteInv
        <3>3. QED
            BY <2>1, <3>2 DEF RouteInv
    <2>2. CASE ~Known(id) /\ id \in Cid /\ UNCHANGED misled
               /\ \E c \in Conn :
                     /\ conn[c].at = "none"
                     /\ conn' = [conn EXCEPT ![c] = [at |-> "run", initial |-> id]]
                     /\ routes' = {r \in routes : r[1] # id} \cup {<<id, c>>, <<c, c>>}
        <3>1. PICK c \in Conn : /\ conn[c].at = "none"
                                /\ conn' = [conn EXCEPT ![c] = [at |-> "run", initial |-> id]]
                                /\ routes' = {r \in routes : r[1] # id} \cup {<<id, c>>, <<c, c>>}
            BY <2>2
        <3>2. conn \in [Conn -> [at : {"none", "run", "done", "joined"}, initial : Cid \cup {0}]]
              /\ routes \subseteq (Cid \cup Conn) \X Conn
            BY DEF RouteInv
        <3>3. /\ conn'[c].at = "run" /\ conn'[c].initial = id
              /\ \A d \in Conn : d # c => conn'[d] = conn[d]
              /\ conn' \in [Conn -> [at : {"none", "run", "done", "joined"}, initial : Cid \cup {0}]]
            BY <2>2, <3>1, <3>2
        <3>4. \A r \in routes : r[2] \in Conn /\ r[2] # c /\ r[1] # c /\ r[1] # id
            <4>1. ASSUME NEW r \in routes PROVE r[2] \in Conn /\ r[2] # c /\ r[1] # id
                <5>1. r[2] \in Conn /\ r = <<r[1], r[2]>>
                    BY <3>2
                <5>2. conn[r[2]].at \in {"run", "done"}
                    BY DEF RouteInv
                <5>3. r[1] # id
                    BY <2>2, <5>1 DEF Known, Route
                <5>4. QED
                    BY <3>1, <5>1, <5>2, <5>3
            <4>2. ASSUME NEW r \in routes PROVE r[1] # c
                <5>1. r[1] \in {r[2], conn[r[2]].initial} /\ conn[r[2]].at \in {"run", "done"}
                    BY DEF RouteInv
                <5>2. conn[r[2]].initial \in Cid
                    BY <4>1, <5>1 DEF RouteInv
                <5>3. QED
                    BY <4>1, <5>1, <5>2, CidAssumption
            <4>3. QED
                BY <4>1, <4>2
        <3>5. id # c
            BY <2>2, CidAssumption
        <3>6. routes' = routes \cup {<<id, c>>, <<c, c>>}
            BY <3>1, <3>4
        <3>7. routes' \subseteq (Cid \cup Conn) \X Conn
            BY <2>2, <3>2, <3>6
        <3>8. \A d \in Conn : conn'[d].at \in {"run", "done"} =>
                 conn'[d].initial \in Cid /\ <<d, d>> \in routes' /\ <<conn'[d].initial, d>> \in routes'
            BY <2>2, <3>3, <3>6 DEF RouteInv
        <3>9. \A r \in routes' : conn'[r[2]].at \in {"run", "done"} /\ r[1] \in {r[2], conn'[r[2]].initial}
            <4>1. ASSUME NEW r \in routes
                  PROVE  conn'[r[2]].at \in {"run", "done"} /\ r[1] \in {r[2], conn'[r[2]].initial}
                BY <3>3, <3>4 DEF RouteInv
            <4>2. QED
                BY <3>3, <3>6, <4>1
        <3>10. \A r, q \in routes' : r[1] = q[1] => r = q
            <4>1. \A r, q \in routes : r[1] = q[1] => r = q
                BY DEF RouteInv
            <4>2. QED
                BY <3>4, <3>5, <3>6, <4>1
        <3>11. ~misled'
            BY <2>2 DEF RouteInv
        <3>12. QED
            BY <3>3, <3>7, <3>8, <3>9, <3>10, <3>11 DEF RouteInv
    <2>3. QED
        BY <1>1, <2>1, <2>2 DEF Datagram
<1>2. ASSUME NEW c \in Conn, TaskEnds(c) PROVE RouteInv'
    <2>1. conn' = [conn EXCEPT ![c].at = "done"] /\ routes' = routes /\ misled' = misled /\ conn[c].at = "run"
        BY <1>2 DEF TaskEnds
    <2>2. conn \in [Conn -> [at : {"none", "run", "done", "joined"}, initial : Cid \cup {0}]]
          /\ routes \subseteq (Cid \cup Conn) \X Conn
        BY DEF RouteInv
    <2>3. /\ conn' \in [Conn -> [at : {"none", "run", "done", "joined"}, initial : Cid \cup {0}]]
          /\ \A d \in Conn : conn'[d].initial = conn[d].initial
          /\ \A d \in Conn : conn'[d].at = IF d = c THEN "done" ELSE conn[d].at
        BY <2>1, <2>2
    <2>4. \A r \in routes : r[2] \in Conn
        BY <2>2
    <2>5. QED
        BY <2>1, <2>2, <2>3, <2>4 DEF RouteInv
<1>3. ASSUME NEW c \in Conn, Joined(c) PROVE RouteInv'
    <2>1. /\ conn' = [conn EXCEPT ![c].at = "joined"] /\ misled' = misled /\ conn[c].at = "done"
          /\ routes' = {r \in routes : r[1] \notin {c, conn[c].initial}}
        BY <1>3 DEF Joined
    <2>2. conn \in [Conn -> [at : {"none", "run", "done", "joined"}, initial : Cid \cup {0}]]
          /\ routes \subseteq (Cid \cup Conn) \X Conn
        BY DEF RouteInv
    <2>3. /\ conn' \in [Conn -> [at : {"none", "run", "done", "joined"}, initial : Cid \cup {0}]]
          /\ \A d \in Conn : conn'[d].initial = conn[d].initial
          /\ \A d \in Conn : conn'[d].at = IF d = c THEN "joined" ELSE conn[d].at
        BY <2>1, <2>2
    <2>4. <<c, c>> \in routes /\ <<conn[c].initial, c>> \in routes
        BY <2>1 DEF RouteInv
    <2>5. \A r \in routes' : r \in routes /\ r[2] \in Conn /\ r[2] # c
        <3>1. ASSUME NEW r \in routes, r[2] = c PROVE r[1] \in {c, conn[c].initial}
            BY <3>1 DEF RouteInv
        <3>2. QED
            BY <2>1, <2>2, <3>1
    <2>6. ASSUME NEW d \in Conn, d # c, conn[d].at \in {"run", "done"}
          PROVE  <<d, d>> \in routes' /\ <<conn[d].initial, d>> \in routes'
        <3>1. <<d, d>> \in routes /\ <<conn[d].initial, d>> \in routes
            BY <2>6 DEF RouteInv
        <3>2. \A r, q \in routes : r[1] = q[1] => r = q
            BY DEF RouteInv
        <3>3. ASSUME NEW a, <<a, d>> \in routes PROVE a \notin {c, conn[c].initial}
            <4>1. <<a, d>> # <<c, c>> /\ <<a, d>> # <<conn[c].initial, c>>
                BY <2>6
            <4>2. <<a, d>>[1] = a /\ <<c, c>>[1] = c /\ <<conn[c].initial, c>>[1] = conn[c].initial
                OBVIOUS
            <4>3. QED
                BY <2>4, <3>2, <3>3, <4>1, <4>2
        <3>4. QED
            BY <2>1, <3>1, <3>3
    <2>7. \A d \in Conn : conn'[d].at \in {"run", "done"} =>
             conn'[d].initial \in Cid /\ <<d, d>> \in routes' /\ <<conn'[d].initial, d>> \in routes'
        BY <2>3, <2>6 DEF RouteInv
    <2>8. \A r \in routes' : conn'[r[2]].at \in {"run", "done"} /\ r[1] \in {r[2], conn'[r[2]].initial}
        BY <2>3, <2>5 DEF RouteInv
    <2>9. routes' \subseteq (Cid \cup Conn) \X Conn /\ ~misled'
          /\ \A r, q \in routes' : r[1] = q[1] => r = q
        BY <2>1, <2>2, <2>5 DEF RouteInv
    <2>10. QED
        BY <2>3, <2>7, <2>8, <2>9 DEF RouteInv
<1>4. QED
    BY <1>1, <1>2, <1>3 DEF Listener

-----------------------------------------------------------------------------
(* The request channel.                                                    *)

\* A request in the channel has nothing yet.
LEMMA QueuedIsFresh ==
    ASSUME NEW x, StreamOk(role, x), x.life = "queued"
    PROVE  x.wire = <<>> /\ x.task = "none" /\ Awaits(x) /\ role = "client"
BY DEF StreamOk, Inbound, WireOk, Untouched

\* A step on a stream that is not in the channel.
LEMMA QueueKept ==
    ASSUME QueueInv, NEW s \in Stream, chan' = chan,
           \A t \in Stream \ {s} : st'[t] = st[t],
           st[s].life = "queued" => st'[s].life = "queued"
    PROVE  QueueInv'
<1>1. \A i \in 1..Len(chan) : chan[i] \in Stream
    BY DEF QueueInv
<1>2. \A t \in Stream : st[t].life = "queued" => st'[t].life = "queued"
    OBVIOUS
<1>3. QED
    BY <1>1, <1>2 DEF QueueInv

\* What the steps on one stream leave alone.
LEMMA Elsewhere ==
    ASSUME StreamsInv, NEW s \in Stream, NEW y, st' = [st EXCEPT ![s] = y]
    PROVE  st'[s] = y /\ \A t \in Stream \ {s} : st'[t] = st[t]
BY DEF StreamsInv

\* The peer reaches no stream whose request is in the channel.
LEMMA PeerQueue ==
    ASSUME StreamsInv, QueueInv, NEW s \in Stream, Peer(s)
    PROVE  QueueInv'
<1>1. StreamOk(role, st[s])
    BY DEF StreamsInv
<1>2. ASSUME NEW f, NEW x, PeerFrame(s, f, x) PROVE QueueInv'
    <2>1. st[s].life # "queued" /\ chan' = chan
          /\ st' = [st EXCEPT ![s] = [x EXCEPT !.wire = Append(@, f)]]
        BY <1>2 DEF PeerFrame
    <2>2. QED
        BY <2>1, Elsewhere, QueueKept
<1>3. ASSUME PeerStops(s) PROVE QueueInv'
    <2>1. st[s].life # "queued" /\ chan' = chan /\ \A t \in Stream \ {s} : st'[t] = st[t]
        BY <1>3 DEF PeerStops, StreamsInv
    <2>2. QED
        BY <2>1, QueueKept
<1>4. QED
    BY <1>2, <1>3 DEF Peer, PeerHead, PeerData, PeerEnds

\* Nor do the driver's passes over the streams.
LEMMA DriverQueue ==
    ASSUME StreamsInv, QueueInv, NEW s \in Stream, Event(s) \/ Submit(s) \/ Poll(s)
    PROVE  QueueInv'
<1>1. StreamOk(role, st[s])
    BY DEF StreamsInv
<1>2. st[s].life # "queued"
    BY <1>1, QueuedIsFresh DEF Event, HasEvent, Submit, Pending, Poll
<1>3. chan' = chan /\ \A t \in Stream \ {s} : st'[t] = st[t]
    BY DEF Event, Submit, Poll, StreamsInv
<1>4. QED
    BY <1>2, <1>3, QueueKept

\* A caller in the channel can give up; it has no task and no body.
LEMMA ApplicationQueue ==
    ASSUME StreamsInv, QueueInv, NEW s \in Stream, GiveUp(s) \/ Task(s) \/ App(s)
    PROVE  QueueInv'
<1>1. StreamOk(role, st[s])
    BY DEF StreamsInv
<1>2. CASE GiveUp(s)
    <2>1. chan' = chan /\ (\A t \in Stream \ {s} : st'[t] = st[t]) /\ st'[s].life = st[s].life
        BY <1>1, <1>2 DEF GiveUp, StreamsInv, StreamOk, StreamType
    <2>2. QED
        BY <2>1, QueueKept
<1>3. CASE Task(s)
    <2>1. st[s].life # "queued"
        BY <1>1, <1>3, QueuedIsFresh DEF Task, TaskSends, TaskFails
    <2>2. chan' = chan /\ \A t \in Stream \ {s} : st'[t] = st[t]
        BY <1>3 DEF Task, TaskSends, TaskFails, StreamsInv
    <2>3. QED
        BY <2>1, <2>2, QueueKept
<1>4. CASE App(s)
    <2>1. st[s].life # "queued"
        BY <1>1, <1>4, QueuedIsFresh DEF App, ReadBody, DropBody, HasBody, Awaits
    <2>2. chan' = chan /\ \A t \in Stream \ {s} : st'[t] = st[t]
        BY <1>4 DEF App, ReadBody, DropBody, StreamsInv
    <2>3. QED
        BY <2>1, <2>2, QueueKept
<1>5. QED
    BY <1>2, <1>3, <1>4

\* A request joins the channel once: it was idle.
LEMMA AskQueue ==
    ASSUME StreamsInv, QueueInv, NEW s \in Stream, Ask(s)
    PROVE  QueueInv'
<1>1. st[s].life = "idle" /\ \A t \in Stream \ {s} : st'[t] = st[t]
    BY DEF Ask, StreamsInv
<1>2. CASE chan' = chan
    BY <1>1, <1>2, QueueKept
<1>3. CASE chan' = Append(chan, s) /\ st' = [st EXCEPT ![s].life = "queued", ![s].response = "waiting"]
    <2>1. st'[s].life = "queued"
        BY <1>3 DEF StreamsInv, StreamOk, StreamType
    <2>2. chan \in Seq(Stream) /\ Len(chan) \in Nat
        BY DEF QueueInv
    <2>3. \A i \in 1..Len(chan) : chan[i] \in Stream /\ chan[i] # s /\ st'[chan[i]].life = "queued"
        BY <1>1, <2>2 DEF QueueInv
    <2>4. /\ chan' \in Seq(Stream) /\ Len(chan') = Len(chan) + 1
          /\ \A i \in 1..Len(chan) : chan'[i] = chan[i]
          /\ chan'[Len(chan) + 1] = s
        BY <1>3, <2>2
    <2>5. \A i \in 1..Len(chan') : i \in 1..Len(chan) \/ i = Len(chan) + 1
        BY <2>2, <2>4
    <2>6. QED
        BY <2>1, <2>2, <2>3, <2>4, <2>5 DEF QueueInv
<1>4. QED
    BY <1>2, <1>3 DEF Ask

\* And leaves it once.
LEMMA TakeRequestQueue ==
    ASSUME StreamsInv, QueueInv, TakeRequest
    PROVE  QueueInv'
<1> DEFINE s == chan[1]
<1>1. chan \in Seq(Stream) /\ Len(chan) \in Nat \ {0} /\ Head(chan) = s /\ s \in Stream
    BY DEF QueueInv, TakeRequest
<1>2. \A t \in Stream \ {s} : st'[t] = st[t]
    BY <1>1 DEF TakeRequest, StreamsInv
<1>3. /\ chan' \in Seq(Stream) /\ Len(chan') = Len(chan) - 1
      /\ \A i \in 1..Len(chan') : chan'[i] = chan[i + 1] /\ i + 1 \in 1..Len(chan) /\ i + 1 # 1
    BY <1>1 DEF TakeRequest
<1>4. \A i \in 1..Len(chan') : chan'[i] \in Stream /\ chan'[i] # s
    BY <1>1, <1>3 DEF QueueInv
<1>5. \A i \in 1..Len(chan') : st'[chan'[i]].life = "queued"
    BY <1>2, <1>3, <1>4 DEF QueueInv
<1>6. ASSUME NEW i \in 1..Len(chan'), NEW j \in 1..Len(chan'), i # j PROVE chan'[i] # chan'[j]
    <2>1. i + 1 # j + 1
        BY <1>3, <1>6
    <2>2. QED
        BY <1>3, <2>1 DEF QueueInv
<1>7. QED
    BY <1>3, <1>5, <1>6 DEF QueueInv

-----------------------------------------------------------------------------
(* The connection as a whole.                                              *)

\* A request is counted as it is accepted, up to the limit.
LEMMA EventModes ==
    ASSUME Modes, StreamsInv, NEW s \in Stream, Event(s)
    PROVE  Modes'
<1> DEFINE f == Head(st[s].wire)
           x == IF f = "data" THEN st[s] ELSE [st[s] EXCEPT !.wire = Tail(@)]
           y == IF x.life = "open" THEN Received(x, f) ELSE Accepted(x, f)
<1>1. st[s] \in StreamType
    BY DEF StreamsInv, StreamOk
<1>2. UNCHANGED <<role, driver, clients, goaway, misled, settings>>
      /\ seen' = IF x.life = "idle" /\ y.life = "open" THEN seen + 1 ELSE seen
    BY DEF Event, transport
<1>3. x \in StreamType
    <2>1. st[s].wire # <<>> /\ st[s].wire \in Seq(Frame)
        BY <1>1 DEF StreamType, Wires, Event, HasEvent
    <2>2. Tail(st[s].wire) \in Wires
        BY <2>1 DEF Wires
    <2>3. QED
        BY <1>1, <2>2 DEF StreamType
<1> HIDE DEF x, f
<1>4. x.life = "idle" /\ y.life = "open" => seen < MaxRequests
    BY <1>3, ResetGone DEF Accepted, Gone
<1>5. seen' \in 0..MaxRequests
    <2>1. MaxRequests \in Nat /\ seen \in 0..MaxRequests
        BY CapAssumption DEF Modes
    <2> HIDE DEF y
    <2>2. QED
        BY <1>2, <1>4, <2>1
<1>6. QED
    BY <1>2, <1>5 DEF Modes

\* The driver starts with nothing begun and no connection routed.
LEMMA Initially ==
    ASSUME Init
    PROVE  IInv
<1>1. PICK x \in Setup : /\ role = x.role
                         /\ st = [s \in Stream |-> Fresh(x.kind[s])]
                         /\ settings = [here |-> FALSE, allow |-> x.settings]
    BY DEF Init
<1>2. x \in [role : Role, kind : [Stream -> Kinds], settings : {"websocket", "plain"}]
    BY SetupAssumption DEF Kinds
<1>3. Modes
    <2>1. MaxRequests \in Nat
        BY CapAssumption
    <2>2. seen \in 0..MaxRequests /\ driver = "handshake" /\ clients = "open" /\ goaway = FALSE /\ misled = FALSE
        BY <2>1 DEF Init
    <2>3. role \in Role /\ settings \in [here : BOOLEAN, allow : {"websocket", "plain"}]
        BY <1>1, <1>2
    <2>4. QED
        BY <2>2, <2>3 DEF Modes
<1>4. ASSUME NEW k \in Kinds PROVE StreamOk(role, Fresh(k))
    <2> DEFINE y == Fresh(k)
    <2>1. /\ y.kind = k /\ y.life = IF k = "unused" THEN "gone" ELSE "idle"
          /\ y.wire = <<>> /\ y.began = FALSE /\ y.sentN = 0 /\ y.sentEnd = "no" /\ y.length = Any
          /\ y.pendIn = <<>> /\ y.inq = <<>> /\ y.left = Any
          /\ y.recv = TRUE /\ y.gotN = 0 /\ y.gotEnd = "no"
          /\ y.task = "none" /\ y.taskN = 0 /\ y.outq = <<>> /\ y.pendOut = <<>>
          /\ y.writeDone = FALSE /\ y.peerN = 0 /\ y.peerEnd = "no"
          /\ y.response = "none"
        BY DEF Fresh
    <2>2. y \in StreamType
        <3>1. (IF k = "unused" THEN "gone" ELSE "idle") \in Lives
            BY DEF Lives
        <3>2. "no" \in Ends /\ "no" \in Verdicts /\ "none" \in Works /\ "none" \in Answers
            BY DEF Ends, Verdicts, Works, Answers
        <3>3. QED
            BY <1>4, <3>1, <3>2, Values DEF Fresh, StreamType
    <2> HIDE DEF y
    <2>3. Chunks(<<>>) = 0 /\ (\A f : ~Has(<<>>, f) /\ LastOnly(<<>>, f) /\ Once(<<>>, f)) /\ 1..Len(<<>>) = {}
        BY Nothing
    <2>4. WireOk(role, y) /\ (y.life = "idle" => Untouched(role, y))
        BY <2>1, <2>3 DEF WireOk, Untouched, Awaits
    <2>5. Inbound(role, y)
        BY <2>1, <2>3, <2>4 DEF Inbound, Awaits
    <2>6. Outbound(y)
        BY <2>1, <2>3 DEF Outbound
    <2>7. QED
        BY <2>2, <2>5, <2>6 DEF StreamOk, y
<1>5. StreamsInv
    BY <1>1, <1>2, <1>4 DEF StreamsInv
<1>6. QueueInv
    BY Nothing DEF QueueInv, Init
<1>7. RouteInv
    BY DEF RouteInv, Init
<1>8. QED
    BY <1>3, <1>5, <1>6, <1>7 DEF IInv

\* Only the listener's steps touch its table.
LEMMA RoutesStep ==
    ASSUME IInv, [Next]_vars
    PROVE  RouteInv'
<1>1. RouteInv
    BY DEF IInv
<1>2. UNCHANGED <<routes, conn, misled>> \/ Listener
    <2>1. Stopped => UNCHANGED <<routes, conn, misled>>
        BY DEF Stopped, transport
    <2>2. Handshake \/ ConnectionCloses \/ DriverEnds => UNCHANGED <<routes, conn, misled>>
        BY <2>1 DEF Handshake, ConnectionCloses, DriverEnds, transport
    <2>3. GoAway \/ Settings \/ TakeRequest \/ LastClient => UNCHANGED <<routes, conn, misled>>
        BY DEF GoAway, Settings, TakeRequest, LastClient, transport, listener
    <2>4. ASSUME NEW s \in Stream PROVE Peer(s) => UNCHANGED <<routes, conn, misled>>
        BY DEF Peer, PeerHead, PeerData, PeerEnds, PeerFrame, PeerStops, transport
    <2>5. ASSUME NEW s \in Stream
          PROVE  Event(s) \/ Ask(s) \/ GiveUp(s) \/ Submit(s) \/ Poll(s) => UNCHANGED <<routes, conn, misled>>
        BY DEF Event, Ask, GiveUp, Submit, Poll, transport
    <2>6. ASSUME NEW s \in Stream PROVE Task(s) \/ App(s) => UNCHANGED <<routes, conn, misled>>
        BY DEF Task, TaskSends, TaskFails, App, ReadBody, DropBody, transport
    <2>7. UNCHANGED vars => UNCHANGED <<routes, conn, misled>>
        BY DEF vars
    <2>8. QED
        BY <2>2, <2>3, <2>4, <2>5, <2>6, <2>7 DEF Next
<1>3. UNCHANGED <<routes, conn, misled>> => RouteInv'
    BY <1>1 DEF RouteInv
<1>4. QED
    BY <1>1, <1>2, <1>3, RoutesKept

\* Every step keeps the three parts about the connection.
LEMMA ConnectionStep ==
    ASSUME IInv, [Next]_vars
    PROVE  Modes' /\ StreamsInv' /\ QueueInv'
<1>1. Modes /\ StreamsInv /\ QueueInv
    BY DEF IInv
<1>2. ASSUME UNCHANGED <<role, st, chan>>
      PROVE  StreamsInv' /\ QueueInv'
    BY <1>1, <1>2 DEF StreamsInv, QueueInv
<1>3. ASSUME UNCHANGED <<role, clients, goaway, settings, seen, misled>>,
             driver' \in {"handshake", "up", "stopped"}
      PROVE  Modes'
    BY <1>1, <1>3 DEF Modes
<1>4. CASE Stopped
    <2>1. Modes'
        BY <1>3, <1>4 DEF Stopped, transport
    <2>2. StreamsInv'
        BY <1>1, <1>4, StoppedKeeps
    <2>3. QueueInv'
        BY <1>4, Nothing DEF Stopped, QueueInv
    <2>4. QED
        BY <2>1, <2>2, <2>3
<1>5. CASE Handshake
    <2>1. CASE driver' = "up" /\ UNCHANGED <<transport, st, chan, goaway, seen>>
        BY <1>2, <1>3, <2>1 DEF transport
    <2>2. QED
        BY <1>4, <1>5, <2>1 DEF Handshake
<1>6. CASE ConnectionCloses \/ DriverEnds
    BY <1>4, <1>6 DEF ConnectionCloses, DriverEnds
<1>7. CASE GoAway \/ Settings \/ LastClient
    <2>1. UNCHANGED <<role, st, chan>>
        BY <1>7 DEF GoAway, Settings, LastClient
    <2>2. Modes'
        BY <1>1, <1>7 DEF Modes, GoAway, Settings, LastClient, listener
    <2>3. QED
        BY <1>2, <2>1, <2>2
<1>8. CASE TakeRequest
    <2>1. Modes'
        BY <1>1, <1>3, <1>8 DEF TakeRequest, transport, Modes
    <2>2. QED
        BY <1>1, <1>8, <2>1, TakeRequestKeeps, TakeRequestQueue
<1>9. CASE Listener
    <2>1. UNCHANGED <<role, driver, st, chan, clients, goaway, settings, seen>>
        BY <1>9 DEF Listener, Datagram, TaskEnds, Joined
    <2>2. misled' \in BOOLEAN
        BY <1>1, <1>9 DEF Modes, Listener, Datagram, TaskEnds, Joined
    <2>3. QED
        BY <1>1, <1>2, <2>1, <2>2 DEF Modes
<1>10. ASSUME NEW s \in Stream, Peer(s) PROVE Modes' /\ StreamsInv' /\ QueueInv'
    <2>1. Modes'
        BY <1>1, <1>10 DEF Peer, PeerHead, PeerData, PeerEnds, PeerFrame, PeerStops, transport, Modes
    <2>2. StreamsInv'
        BY <1>1, <1>10, PeerHeadKeeps, PeerDataKeeps, PeerEndsKeeps, PeerStopsKeeps DEF Peer
    <2>3. QED
        BY <1>1, <1>10, <2>1, <2>2, PeerQueue
<1>11. ASSUME NEW s \in Stream, Event(s) PROVE Modes' /\ StreamsInv' /\ QueueInv'
    BY <1>1, <1>11, EventModes, EventKeeps, DriverQueue
<1>12. ASSUME NEW s \in Stream, Submit(s) \/ Poll(s) PROVE Modes' /\ StreamsInv' /\ QueueInv'
    <2>1. Modes'
        BY <1>1, <1>12 DEF Submit, Poll, transport, Modes
    <2>2. QED
        BY <1>1, <1>12, <2>1, SubmitKeeps, PollKeeps, DriverQueue
<1>13. ASSUME NEW s \in Stream, Ask(s) PROVE Modes' /\ StreamsInv' /\ QueueInv'
    <2>1. Modes'
        BY <1>1, <1>13 DEF Ask, transport, Modes
    <2>2. QED
        BY <1>1, <1>13, <2>1, AskKeeps, AskQueue
<1>14. ASSUME NEW s \in Stream, GiveUp(s) \/ Task(s) \/ App(s) PROVE Modes' /\ StreamsInv' /\ QueueInv'
    <2>1. Modes'
        BY <1>1, <1>14 DEF GiveUp, Task, TaskSends, TaskFails, App, ReadBody, DropBody, transport, Modes
    <2>2. StreamsInv'
        BY <1>1, <1>14, GiveUpKeeps, TaskSendsKeeps, TaskFailsKeeps, ReadBodyKeeps, DropBodyKeeps DEF Task, App
    <2>3. QED
        BY <1>1, <1>14, <2>1, <2>2, ApplicationQueue
<1>15. CASE UNCHANGED vars
    BY <1>1, <1>2, <1>15 DEF vars, Modes
<1>16. QED
    BY <1>5, <1>6, <1>7, <1>8, <1>9, <1>10, <1>11, <1>12, <1>13, <1>14, <1>15 DEF Next

-----------------------------------------------------------------------------
(* The theorems.                                                           *)

\* The invariant holds in every behaviour of the driver and of the listener.
THEOREM Invariance == Spec => []IInv
<1>1. Init => IInv
    BY Initially
<1>2. IInv /\ [Next]_vars => IInv'
    BY RoutesStep, ConnectionStep DEF IInv
<1>3. QED
    BY <1>1, <1>2, PTL DEF Spec

\* A body that ends cleanly on one side of a stream is the whole body of the
\* other side (proxyapi proxy/http3/driver.rs), for any number of streams and
\* chunks and any size of the channels between them.
THEOREM MessagesAreWholeHolds == Spec => []MessagesAreWhole
<1>1. IInv => MessagesAreWhole
    <2>1. SUFFICES ASSUME IInv PROVE MessagesAreWhole
        OBVIOUS
    <2>2. TypeOK
        BY <2>1 DEF IInv, Modes, QueueInv, StreamsInv, StreamOk, StreamType, Lives, TypeOK
    <2>3. ASSUME NEW s \in Stream
          PROVE  /\ st[s].gotEnd = "clean" =>
                       /\ st[s].sentEnd = "fin" /\ st[s].gotN = st[s].sentN
                       /\ st[s].kind = "get" => st[s].length \in {Any, st[s].sentN}
                       /\ role = "client" /\ st[s].kind = "head" => st[s].gotN = 0
                 /\ st[s].peerEnd = "fin" => st[s].task = "done" /\ st[s].peerN = st[s].taskN
        <3>1. Inbound(role, st[s]) /\ Outbound(st[s])
            BY <2>1 DEF IInv, StreamsInv, StreamOk
        <3>2. QED
            BY <3>1 DEF Inbound, Outbound, Whole
    <2>4. QED
        BY <2>2, <2>3 DEF MessagesAreWhole, EndsAreWhole
<1>2. QED
    BY <1>1, Invariance, PTL

\* A connection that runs is reached by its own id and by the one its client
\* chose, and no datagram reaches another (the listener's routes in driver.rs),
\* for any number of connections, of which each client may use an id again.
THEOREM RoutesAreOwnHolds == Spec => []RoutesAreOwn
<1>1. IInv => RoutesAreOwn
    <2>1. SUFFICES ASSUME IInv PROVE RoutesAreOwn
        OBVIOUS
    <2>2. /\ ~misled /\ routes \subseteq (Cid \cup Conn) \X Conn
          /\ \A r, q \in routes : r[1] = q[1] => r = q
        BY <2>1 DEF IInv, RouteInv
    <2>3. ASSUME NEW c \in Conn, NEW id, <<id, c>> \in routes PROVE Route(id) = {c}
        <3>1. ASSUME NEW d \in Conn, <<id, d>> \in routes PROVE d = c
            <4>1. <<id, d>>[1] = id /\ <<id, c>>[1] = id
                OBVIOUS
            <4>2. <<id, d>> = <<id, c>>
                BY <2>2, <2>3, <3>1, <4>1
            <4>3. QED
                BY <4>2
        <3>2. QED
            BY <2>3, <3>1 DEF Route
    <2>4. ASSUME NEW c \in Conn, conn[c].at = "run"
          PROVE  Route(c) = {c} /\ Route(conn[c].initial) = {c}
        <3>1. <<c, c>> \in routes /\ <<conn[c].initial, c>> \in routes
            BY <2>1, <2>4 DEF IInv, RouteInv
        <3>2. QED
            BY <2>3, <3>1
    <2>5. QED
        BY <2>2, <2>4 DEF RoutesAreOwn
<1>2. QED
    BY <1>1, Invariance, PTL
=============================================================================
