---------------------------- MODULE HandlerProofs ----------------------------
(* Proofs about the two models of handler.rs: FlowCapture, for every length  *)
(* of the bodies, every size of the frames and every limit of the capture;   *)
(* then Intercept, for every set of flows and UI tasks and every capacity of *)
(* the event channel.                                                        *)
EXTENDS FlowCapture, Intercept, SequenceTheorems, TLAPS

-----------------------------------------------------------------------------
(* FlowCapture: the inductive invariant.                                   *)

Byte == 0..MaxBytes

Held == [bytes : Seq(Byte), truncated : BOOLEAN, seen : Nat, on : BOOLEAN, armed : BOOLEAN]

Types ==
    /\ scripted \in BOOLEAN
    /\ stage \in [Dir -> {"none", "collect", "complete", "exceeded", "failed",
                          "stream", "ended", "dropped", "cancelled"}]
    /\ read \in [Dir -> 0..MaxBytes]
    /\ wire \in [Dir -> {"open", "end", "failed"}]
    /\ buffer \in [Dir -> Seq(1..MaxBytes)]
    /\ prefix \in [Dir -> Seq(Seq(Byte))]
    /\ \A d \in Dir : Len(prefix[d]) <= 2
    /\ rest \in [Dir -> {"open", "end", "failed"}]
    /\ out \in [Dir -> Seq(Byte)]
    /\ capture \in [Dir -> Held]
    /\ request \in {"none", "buffered", "streaming"}
    /\ kept \in Snapshot
    /\ notified \in BOOLEAN
    /\ waiting \in Seq(Snapshot)
    /\ events \in Seq([req : Snapshot, res : Snapshot])

\* The body goes on as it came.
Original(d) == Whole(d) = Bytes(0, read[d])

\* Something else goes on in its place; then nothing more is read.
Exchanged(d) == Replaced(d) /\ rest[d] # "open"

BodyInv(d) ==
    /\ stage[d] \in {"none", "collect", "complete", "exceeded", "failed"} => out[d] = <<>>
    /\ stage[d] \in {"none", "collect"} => prefix[d] = <<>> /\ rest[d] = "open"
    /\ stage[d] \in {"none", "collect", "complete"} => buffer[d] = Bytes(0, read[d])
    /\ stage[d] = "none" => read[d] = 0
    /\ stage[d] \in {"complete", "exceeded", "failed", "stream", "ended"} =>
          Original(d) \/ Exchanged(d)

\* c is the capture of what went out: nothing is missing, or everything beyond
\* the limit is.
Faithful(c, sent) ==
    /\ c.seen = Len(sent)
    /\ \/ ~c.truncated /\ Len(sent) <= Limit /\ c.bytes = sent
       \/ c.truncated /\ Len(sent) > Limit /\ c.bytes = SubSeq(sent, 1, Limit)

CaptureInv(d) ==
    /\ Len(capture[d].bytes) <= Limit
    /\ capture[d].on => Faithful(capture[d], out[d])

\* The capture of a body is armed while its receiver may still pull it.
ArmedInv ==
    \A d \in Dir :
        /\ capture[d].armed => capture[d].on /\ stage[d] = "stream"
        /\ capture[d].on /\ stage[d] = "stream" => capture[d].armed
        /\ stage[d] \in {"none", "collect", "complete", "exceeded", "failed", "cancelled"} =>
              ~capture[d].on

\* The request is on its way, or over, when there is a response, and it is
\* reported from its capture exactly when it was captured.
RequestInv ==
    /\ stage["response"] \notin {"none", "cancelled"} =>
          stage["request"] \in {"stream", "ended", "dropped"}
    /\ stage["request"] \in {"stream", "ended", "dropped"} /\ request # "none" =>
          (request = "streaming" <=> capture["request"].on)
    /\ stage["response"] = "none" /\ stage["request"] \in {"stream", "ended", "dropped"} =>
          request # "none"
    /\ stage["response"] \in {"collect", "complete", "exceeded", "failed"} => request # "none"
    /\ capture["response"].on => request # "none"
    /\ notified => stage["request"] \in {"ended", "dropped"}

\* Nothing is reported before the response is, or streams to, the client.
EventInv ==
    /\ Len(events) + Len(waiting) <= 1
    /\ stage["response"] \in {"none", "collect", "complete", "exceeded", "failed"} \/
       capture["response"].armed => events = <<>> /\ waiting = <<>>

IInv ==
    /\ Types
    /\ \A d \in Dir : BodyInv(d) /\ CaptureInv(d)
    /\ ArmedInv /\ RequestInv /\ EventInv /\ RequestIsFinal

-----------------------------------------------------------------------------
(* Bytes, and the sequences they are in.                                   *)

\* The bounds on the bytes are naturals.
LEMMA Bounds == MaxBytes \in Nat /\ MaxFrame \in Nat /\ Limit \in Nat
BY BoundAssumption, LimitAssumption

\* The bytes from a to b are a sequence of b - a of them, in their order.
LEMMA BytesAre ==
    ASSUME NEW a \in Nat, NEW b \in Nat, a <= b, b <= MaxBytes
    PROVE  /\ Bytes(a, b) \in Seq(1..MaxBytes) /\ Bytes(a, b) \in Seq(Byte)
           /\ Len(Bytes(a, b)) = b - a
           /\ \A k \in 1..(b - a) : Bytes(a, b)[k] = a + k
<1>1. b - a \in Nat /\ \A k \in 1..(b - a) : a + k \in 1..MaxBytes /\ a + k \in Byte
    BY Bounds DEF Byte
<1>2. Bytes(a, b) \in [1..(b - a) -> 1..MaxBytes] /\ Bytes(a, b) \in [1..(b - a) -> Byte]
    BY <1>1 DEF Bytes
<1>3. QED
    BY <1>1, <1>2 DEF Bytes

\* No bytes at all is the empty sequence.
LEMMA NoBytes == Bytes(0, 0) = <<>>
<1>1. Bytes(0, 0) \in Seq(Byte) /\ Len(Bytes(0, 0)) = 0
    BY BytesAre, Bounds
<1>2. QED
    BY <1>1, EmptySeq

\* What was read before and what is read now is what has been read.
LEMMA BytesOn ==
    ASSUME NEW a \in Nat, NEW b \in Nat, a <= b, b <= MaxBytes
    PROVE  Bytes(0, a) \o Bytes(a, b) = Bytes(0, b)
<1> DEFINE x == Bytes(0, a)
           y == Bytes(a, b)
           z == Bytes(0, b)
<1>1. /\ x \in Seq(Byte) /\ Len(x) = a /\ \A k \in 1..a : x[k] = k
      /\ y \in Seq(Byte) /\ Len(y) = b - a /\ \A k \in 1..(b - a) : y[k] = a + k
      /\ z \in Seq(Byte) /\ Len(z) = b /\ \A k \in 1..b : z[k] = k
    <2>0. 0 \in Nat /\ 0 <= a /\ a <= MaxBytes /\ 0 <= b
        BY Bounds
    <2>1. /\ x \in Seq(Byte) /\ Len(x) = a - 0 /\ \A k \in 1..(a - 0) : x[k] = 0 + k
          /\ z \in Seq(Byte) /\ Len(z) = b - 0 /\ \A k \in 1..(b - 0) : z[k] = 0 + k
        BY <2>0, BytesAre
    <2>2. /\ y \in Seq(Byte) /\ Len(y) = b - a /\ \A k \in 1..(b - a) : y[k] = a + k
        BY BytesAre
    <2> HIDE DEF x, y, z
    <2>3. QED
        BY <2>1, <2>2
<1> HIDE DEF x, y, z
<1>2. /\ x \o y \in Seq(Byte) /\ Len(x \o y) = b
      /\ \A k \in 1..b : (x \o y)[k] = IF k <= a THEN x[k] ELSE y[k - a]
    <2>1. x \in Seq(Byte) /\ y \in Seq(Byte)
        BY <1>1
    <2>2. /\ x \o y \in Seq(Byte) /\ Len(x \o y) = Len(x) + Len(y)
          /\ \A k \in 1..Len(x) + Len(y) :
                (x \o y)[k] = IF k <= Len(x) THEN x[k] ELSE y[k - Len(x)]
        BY <2>1, ConcatProperties
    <2>3. Len(x) + Len(y) = b
        BY <1>1
    <2>4. QED
        BY <1>1, <2>2, <2>3
<1>3. ASSUME NEW k \in 1..b PROVE (x \o y)[k] = z[k]
    BY <1>1, <1>2
<1>4. x \o y = z
    BY <1>1, <1>2, <1>3, SeqEqual
<1>5. QED
    BY <1>4 DEF x, y, z

\* A sequence is its beginning and the rest.
LEMMA CutInTwo ==
    ASSUME NEW S, NEW s \in Seq(S), NEW n \in Nat, n <= Len(s)
    PROVE  /\ SubSeq(s, 1, n) \in Seq(S) /\ Len(SubSeq(s, 1, n)) = n
           /\ SubSeq(s, n + 1, Len(s)) \in Seq(S)
           /\ SubSeq(s, 1, n) \o SubSeq(s, n + 1, Len(s)) = s
<1>1. Len(s) \in Nat /\ \A i \in 1..Len(s) : s[i] \in S
    OBVIOUS
<1>2. SubSeq(s, 1, n) \in Seq(S) /\ Len(SubSeq(s, 1, n)) = n /\ SubSeq(s, n + 1, Len(s)) \in Seq(S)
    BY <1>1, SubSeqProperties
<1>3. 1 \in 1..(Len(s) + 1) /\ n \in 1 - 1..Len(s) /\ Len(s) \in n..Len(s)
    BY <1>1
<1>4. QED
    BY <1>2, <1>3, ConcatAdjacentSubSeq, SubSeqFull

\* The beginning of a longer sequence, up to a limit beyond the first part.
LEMMA Beginning ==
    ASSUME NEW S, NEW s \in Seq(S), NEW t \in Seq(S), NEW n \in Nat, n <= Len(s) + Len(t)
    PROVE  /\ n <= Len(s) => SubSeq(s \o t, 1, n) = SubSeq(s, 1, n)
           /\ n >= Len(s) => SubSeq(s \o t, 1, n) = s \o SubSeq(t, 1, n - Len(s))
<1>1. Len(s) \in Nat /\ Len(t) \in Nat
    OBVIOUS
<1>2. /\ s \o t \in Seq(S) /\ Len(s \o t) = Len(s) + Len(t)
      /\ \A i \in 1..Len(s) + Len(t) : (s \o t)[i] = IF i <= Len(s) THEN s[i] ELSE t[i - Len(s)]
    BY ConcatProperties
<1> DEFINE x == SubSeq(s \o t, 1, n)
<1>3. x \in Seq(S) /\ Len(x) = n /\ \A i \in 1..n : x[i] = (s \o t)[i]
    BY <1>1, <1>2, SubSeqProperties
<1> HIDE DEF x
<1>4. CASE n <= Len(s)
    <2> DEFINE y == SubSeq(s, 1, n)
    <2>1. y \in Seq(S) /\ Len(y) = n /\ \A i \in 1..n : y[i] = s[i]
        BY <1>1, <1>4, SubSeqProperties
    <2> HIDE DEF y
    <2>2. \A i \in 1..n : x[i] = y[i]
        BY <1>1, <1>2, <1>3, <1>4, <2>1
    <2>3. x = y
        BY <1>3, <2>1, <2>2, SeqEqual
    <2>4. n >= Len(s) => x = s \o SubSeq(t, 1, n - Len(s))
        <3>1. SUFFICES ASSUME n >= Len(s) PROVE x = s \o SubSeq(t, 1, n - Len(s))
            OBVIOUS
        <3>2. n = Len(s)
            BY <1>1, <1>4, <3>1
        <3>3. SubSeq(t, 1, n - Len(s)) = <<>> /\ SubSeq(s, 1, Len(s)) = s
            BY <1>1, <3>2, SubSeqEmpty, SubSeqFull
        <3>4. QED
            BY <2>3, <3>2, <3>3, ConcatEmptySeq DEF y
    <2>5. QED
        BY <2>3, <2>4 DEF x, y
<1>5. CASE n > Len(s)
    <2> DEFINE y == SubSeq(t, 1, n - Len(s))
    <2>1. /\ y \in Seq(S) /\ Len(y) = n - Len(s)
          /\ \A i \in 1..(n - Len(s)) : y[i] = t[i]
        BY <1>1, <1>5, SubSeqProperties
    <2> HIDE DEF y
    <2>2. /\ s \o y \in Seq(S) /\ Len(s \o y) = n
          /\ \A i \in 1..n : (s \o y)[i] = IF i <= Len(s) THEN s[i] ELSE y[i - Len(s)]
        BY <1>1, <1>5, <2>1, ConcatProperties
    <2>3. \A i \in 1..n : x[i] = (s \o y)[i]
        BY <1>1, <1>2, <1>3, <1>5, <2>1, <2>2
    <2>4. x = s \o y
        BY <1>3, <2>2, <2>3, SeqEqual
    <2>5. QED
        BY <1>1, <1>5, <2>4 DEF x, y
<1>6. QED
    BY <1>1, <1>4, <1>5

\* One frame or two.
LEMMA Short ==
    ASSUME NEW T, NEW p \in Seq(T), p # <<>>, Len(p) <= 2
    PROVE  /\ Head(p) \in T /\ Head(p) = p[1] /\ Tail(p) \in Seq(T)
           /\ \/ Len(p) = 1 /\ Tail(p) = <<>>
              \/ /\ Len(p) = 2 /\ p[2] \in T
                 /\ Len(Tail(p)) = 1 /\ Tail(p)[1] = p[2] /\ Tail(p) # <<>>
<1>1. /\ Head(p) \in T /\ Head(p) = p[1]
      /\ Tail(p) \in Seq(T) /\ Len(Tail(p)) = Len(p) - 1
      /\ \A i \in 1..Len(Tail(p)) : Tail(p)[i] = p[i + 1]
    BY HeadTailProperties
<1> DEFINE n == Len(p)
<1>2. n \in Nat /\ n # 0 /\ n <= 2
    BY EmptySeq
<1>3. ASSUME n = 1 PROVE Tail(p) = <<>>
    <2>1. Len(Tail(p)) = 0
        BY <1>1, <1>3
    <2>2. QED
        BY <1>1, <2>1, EmptySeq
<1>4. ASSUME n = 2 PROVE p[2] \in T /\ Len(Tail(p)) = 1 /\ Tail(p)[1] = p[2] /\ Tail(p) # <<>>
    <2>1. Len(Tail(p)) = 1 /\ 2 \in 1..Len(p)
        BY <1>1, <1>4
    <2>2. Tail(p)[1] = p[1 + 1]
        BY <1>1, <2>1
    <2>3. p[2] \in T
        BY <2>1, ElementOfSeq
    <2>4. Tail(p) # <<>>
        <3>1. Len(<<>>) = 0
            BY EmptySeq
        <3>2. Len(Tail(p)) # Len(<<>>)
            BY <2>1, <3>1
        <3>3. QED
            BY <3>2
    <2>5. 1 + 1 = 2
        OBVIOUS
    <2>6. QED
        BY <2>1, <2>2, <2>3, <2>4, <2>5
<1> HIDE DEF n
<1>5. n = 1 \/ n = 2
    BY <1>2
<1>6. QED
    BY <1>1, <1>3, <1>4, <1>5 DEF n

\* The frames of a prefix, one after the other.
LEMMA Frames ==
    ASSUME NEW S
    PROVE  /\ Flat(<<>>) = <<>>
           /\ \A a \in Seq(S) : Flat(<<a>>) = a
           /\ \A a, b \in Seq(S) : Flat(<<a, b>>) = a \o b
<1>1. Len(<<>>) = 0
    OBVIOUS
<1>2. QED
    BY <1>1 DEF Flat

\* Each of the numbers of frames that a pipe may hold is at most two.
LEMMA Few == \A n : n \in {0, 1, 2} => n <= 2
OBVIOUS

\* What a pipe holds is its first frame followed by the rest.
LEMMA FirstFrame ==
    ASSUME NEW S, NEW p \in Seq(Seq(S)), p # <<>>, Len(p) <= 2
    PROVE  /\ Head(p) \in Seq(S) /\ Tail(p) \in Seq(Seq(S)) /\ Len(Tail(p)) <= 2
           /\ Flat(Tail(p)) \in Seq(S)
           /\ Flat(p) = Head(p) \o Flat(Tail(p)) /\ Flat(p) \in Seq(S)
<1>1. /\ Head(p) \in Seq(S) /\ Head(p) = p[1] /\ Tail(p) \in Seq(Seq(S))
      /\ \/ Len(p) = 1 /\ Tail(p) = <<>>
         \/ /\ Len(p) = 2 /\ p[2] \in Seq(S)
            /\ Len(Tail(p)) = 1 /\ Tail(p)[1] = p[2] /\ Tail(p) # <<>>
    BY Short
<1>2. CASE Len(p) = 1 /\ Tail(p) = <<>>
    <2>1. Flat(p) = p[1] /\ Flat(Tail(p)) = <<>>
        BY <1>2, Frames DEF Flat
    <2>2. Head(p) \o <<>> = Head(p) /\ <<>> \in Seq(S)
        BY <1>1, ConcatEmptySeq, EmptySeq
    <2>3. Len(Tail(p)) <= 2
        BY <1>2, EmptySeq, Few
    <2>4. Head(p) \in Seq(S) /\ Tail(p) \in Seq(Seq(S)) /\ Flat(Tail(p)) \in Seq(S)
        BY <1>1, <2>1, <2>2
    <2>5. Flat(p) = Head(p) \o Flat(Tail(p)) /\ Flat(p) \in Seq(S)
        BY <1>1, <2>1, <2>2
    <2>6. QED
        BY <2>3, <2>4, <2>5
<1>3. CASE /\ Len(p) = 2 /\ p[2] \in Seq(S)
           /\ Len(Tail(p)) = 1 /\ Tail(p)[1] = p[2] /\ Tail(p) # <<>>
    <2>1. Flat(p) = p[1] \o p[2] /\ Flat(Tail(p)) = p[2]
        BY <1>3 DEF Flat
    <2>2. p[1] \o p[2] \in Seq(S)
        BY <1>1, <1>3, ConcatProperties
    <2>3. Len(Tail(p)) <= 2
        BY <1>3, Few
    <2>4. Head(p) \in Seq(S) /\ Tail(p) \in Seq(Seq(S)) /\ Flat(Tail(p)) \in Seq(S)
        BY <1>1, <1>3, <2>1
    <2>5. Flat(p) = Head(p) \o Flat(Tail(p)) /\ Flat(p) \in Seq(S)
        BY <1>1, <2>1, <2>2
    <2>6. QED
        BY <2>3, <2>4, <2>5
<1>4. QED
    BY <1>1, <1>2, <1>3

\* BodyCapture::append keeps a capture faithful.
LEMMA RecordedIs ==
    ASSUME NEW c \in Held, Len(c.bytes) <= Limit, NEW sent \in Seq(Byte), NEW data \in Seq(Byte),
           c.on => Faithful(c, sent)
    PROVE  /\ Recorded(c, data) \in Held /\ Len(Recorded(c, data).bytes) <= Limit
           /\ Recorded(c, data).on = c.on /\ Recorded(c, data).armed = c.armed
           /\ c.on => Faithful(Recorded(c, data), sent \o data)
<1>1. CASE ~c.on
    BY <1>1 DEF Recorded
<1>2. CASE c.on
    <2> DEFINE room == Limit - Len(c.bytes)
               k == IF Len(data) > room THEN room ELSE Len(data)
               r == Recorded(c, data)
    <2>1. /\ Len(c.bytes) \in Nat /\ Len(data) \in Nat /\ Len(sent) \in Nat
          /\ c.bytes \in Seq(Byte) /\ c.seen \in Nat /\ c.truncated \in BOOLEAN
        BY DEF Held
    <2>2. room \in Nat /\ room + Len(c.bytes) = Limit /\ k \in Nat /\ k <= Len(data) /\ k <= room
        <3> DEFINE l == Len(c.bytes)
                   m == Len(data)
        <3>1. l \in Nat /\ l <= Limit /\ m \in Nat
            BY <2>1
        <3> HIDE DEF l, m
        <3>2. Limit - l \in Nat /\ (Limit - l) + l = Limit
            BY <3>1, Bounds
        <3>3. room \in Nat /\ room + Len(c.bytes) = Limit
            BY <3>2 DEF l
        <3> HIDE DEF room
        <3>4. k \in Nat /\ k <= Len(data) /\ k <= room
            BY <3>1, <3>3 DEF m
        <3>5. QED
            BY <3>3, <3>4
    <2>3. /\ SubSeq(data, 1, k) \in Seq(Byte) /\ Len(SubSeq(data, 1, k)) = k
        BY <2>2, CutInTwo
    <2>4. r = [c EXCEPT !.bytes = c.bytes \o SubSeq(data, 1, k),
                        !.truncated = c.truncated \/ Len(data) > room,
                        !.seen = c.seen + Len(data)]
        BY <1>2 DEF Recorded, Cut
    <2>5. /\ c.bytes \o SubSeq(data, 1, k) \in Seq(Byte)
          /\ Len(c.bytes \o SubSeq(data, 1, k)) = Len(c.bytes) + k
        BY <2>1, <2>3, ConcatProperties
    <2>6. Len(c.bytes) + k <= Limit
        <3> HIDE DEF room, k
        <3>1. QED
            BY <2>1, <2>2, Bounds
    <2>7. sent \o data \in Seq(Byte) /\ Len(sent \o data) = Len(sent) + Len(data)
        BY ConcatProperties
    <2>8. /\ r \in Held /\ r.on = c.on /\ r.armed = c.armed
          /\ r.bytes = c.bytes \o SubSeq(data, 1, k)
          /\ r.truncated = (c.truncated \/ Len(data) > room)
          /\ r.seen = c.seen + Len(data)
        <3> DEFINE b == c.bytes \o SubSeq(data, 1, k)
                   t == c.truncated \/ Len(data) > room
                   n == c.seen + Len(data)
        <3>1. b \in Seq(Byte) /\ t \in BOOLEAN /\ n \in Nat
            BY <2>1, <2>5
        <3>2. r = [c EXCEPT !.bytes = b, !.truncated = t, !.seen = n]
            BY <2>4
        <3> HIDE DEF b, t, n, r
        <3>3. /\ r \in Held /\ r.on = c.on /\ r.armed = c.armed
              /\ r.bytes = b /\ r.truncated = t /\ r.seen = n
            BY <3>1, <3>2 DEF Held
        <3>4. QED
            BY <3>3 DEF b, t, n
    <2>9. r.seen = Len(sent \o data)
        BY <1>2, <2>7, <2>8 DEF Faithful
    <2>10. CASE c.truncated
        <3>1. /\ Len(sent) > Limit /\ c.bytes = SubSeq(sent, 1, Limit)
              /\ Len(c.bytes) = Limit
            BY <1>2, <2>1, <2>10, CutInTwo, Bounds DEF Faithful
        <3>2. room = 0 /\ k = 0
            BY <2>1, <3>1, Bounds
        <3>3. r.bytes = c.bytes
            <4>1. SubSeq(data, 1, 0) = <<>>
                BY SubSeqEmpty
            <4>2. QED
                BY <2>1, <2>8, <3>2, <4>1, ConcatEmptySeq
        <3>4. Limit <= Len(sent) + Len(data)
            BY <2>1, <3>1, Bounds
        <3>5. SubSeq(sent \o data, 1, Limit) = SubSeq(sent, 1, Limit)
            BY <2>1, <3>1, <3>4, Beginning, Bounds
        <3>6. Len(sent \o data) > Limit
            BY <2>1, <2>7, <3>1, Bounds
        <3>7. QED
            BY <2>5, <2>6, <2>8, <2>9, <2>10, <3>1, <3>3, <3>5, <3>6 DEF Faithful
    <2>11. CASE ~c.truncated
        <3>1. Len(sent) <= Limit /\ c.bytes = sent
            BY <1>2, <2>11 DEF Faithful
        <3>2. CASE Len(data) > room
            <4>1. k = Limit - Len(sent) /\ Limit >= Len(sent) /\ Limit <= Len(sent) + Len(data)
                BY <2>1, <3>1, <3>2, Bounds
            <4>2. SubSeq(sent \o data, 1, Limit) = sent \o SubSeq(data, 1, k)
                <5>1. SubSeq(sent \o data, 1, Limit) = sent \o SubSeq(data, 1, Limit - Len(sent))
                    BY <4>1, Beginning, Bounds
                <5>2. QED
                    BY <4>1, <5>1
            <4>3. Len(sent \o data) > Limit
                BY <2>1, <2>7, <3>1, <3>2, Bounds
            <4>4. QED
                BY <2>5, <2>6, <2>8, <2>9, <3>1, <3>2, <4>2, <4>3 DEF Faithful
        <3>3. CASE ~(Len(data) > room)
            <4>1. SubSeq(data, 1, k) = data
                BY <3>3, SubSeqFull
            <4>2. Len(sent \o data) <= Limit
                BY <2>1, <2>7, <3>1, <3>3, Bounds
            <4>3. QED
                BY <2>5, <2>6, <2>8, <2>9, <2>11, <3>1, <3>3, <4>1, <4>2 DEF Faithful
        <3>4. QED
            BY <3>2, <3>3
    <2>12. QED
        BY <2>10, <2>11
<1>3. QED
    BY <1>1, <1>2 DEF Held

-----------------------------------------------------------------------------
(* What the operations do to one body, and to what is reported.            *)

\* A sequence of the bytes sent is a sequence of bytes.
LEMMA Wider ==
    ASSUME NEW b \in Seq(1..MaxBytes)
    PROVE  b \in Seq(Byte)
<1>1. Len(b) \in Nat /\ b \in [1..Len(b) -> 1..MaxBytes]
    BY LenProperties
<1>2. b \in [1..Len(b) -> Byte]
    BY <1>1, Bounds DEF Byte
<1>3. QED
    BY <1>1, <1>2

\* Whatever a capture holds, what is reported of it is a snapshot.
LEMMA Snapshots ==
    /\ \A c \in Held : Shown(c) \in Snapshot
    /\ \A b \in Seq(Byte) : Complete(b) \in Snapshot
    /\ Own \in Seq(Byte)
<1>1. \A c \in Held : Shown(c) \in Snapshot
    BY DEF Held, Shown, Snapshot, Byte
<1>2. \A b \in Seq(Byte) : Complete(b) \in Snapshot
    BY DEF Complete, Snapshot, Byte
<1>3. 0 \in Byte
    BY Bounds DEF Byte
<1>4. Own \in Seq(Byte)
    BY <1>3 DEF Own
<1>5. QED
    BY <1>1, <1>2, <1>4

\* An event is added.
LEMMA SendIs ==
    ASSUME Types, NEW req \in Snapshot, NEW res \in Snapshot, Send(req, res)
    PROVE  /\ events' \in Seq([req : Snapshot, res : Snapshot])
           /\ Len(events') = Len(events) + 1
           /\ events = <<>> => \A k \in DOMAIN events' : events'[k] = [req |-> req, res |-> res]
<1> DEFINE r == [req |-> req, res |-> res]
<1>1. r \in [req : Snapshot, res : Snapshot]
    OBVIOUS
<1> HIDE DEF r
<1>2. events' = Append(events, r)
    BY DEF Send, r
<1>3. /\ events' \in Seq([req : Snapshot, res : Snapshot])
      /\ Len(events') = Len(events) + 1
      /\ events'[Len(events) + 1] = r
    BY <1>1, <1>2, AppendProperties DEF Types
<1>4. ASSUME events = <<>>, NEW k \in DOMAIN events' PROVE events'[k] = r
    <2>1. Len(events') = 1 /\ events'[1] = r
        BY <1>3, <1>4
    <2>2. DOMAIN events' = 1..Len(events')
        BY <1>3, LenProperties
    <2>3. QED
        BY <1>4, <2>1, <2>2
<1>5. QED
    BY <1>3, <1>4 DEF r

\* The next frame of a body.
LEMMA FrameIs ==
    ASSUME Types, NEW d \in Dir, NEW n \in 1..MaxFrame, Frame(d, n)
    PROVE  /\ read[d] \in Nat /\ read[d] + n \in Nat
           /\ read[d] <= read[d] + n /\ read[d] + n <= MaxBytes
           /\ Bytes(read[d], read[d] + n) \in Seq(1..MaxBytes)
           /\ Bytes(read[d], read[d] + n) \in Seq(Byte)
           /\ read' \in [Dir -> 0..MaxBytes] /\ UNCHANGED <<scripted, wire>>
           /\ \A e \in Dir : read'[e] = IF e = d THEN read[d] + n ELSE read[e]
<1>1. /\ read[d] \in Nat /\ n \in Nat /\ read[d] + n <= MaxBytes
      /\ read' = [read EXCEPT ![d] = read[d] + n] /\ UNCHANGED <<scripted, wire>>
    BY Bounds DEF Frame, Types
<1>2. read[d] + n \in 0..MaxBytes /\ read[d] <= read[d] + n
    BY <1>1, Bounds
<1>3. Bytes(read[d], read[d] + n) \in Seq(1..MaxBytes) /\ Bytes(read[d], read[d] + n) \in Seq(Byte)
    <2> DEFINE a == read[d]
               b == read[d] + n
    <2>1. a \in Nat /\ b \in Nat /\ a <= b /\ b <= MaxBytes
        BY <1>1, <1>2
    <2> HIDE DEF a, b
    <2>2. Bytes(a, b) \in Seq(1..MaxBytes) /\ Bytes(a, b) \in Seq(Byte)
        BY <2>1, BytesAre
    <2>3. QED
        BY <2>2 DEF a, b
<1>4. QED
    BY <1>1, <1>2, <1>3 DEF Types

\* What is pulled out of a body is recorded.
LEMMA PassIs ==
    ASSUME Types, NEW d \in Dir, CaptureInv(d), NEW data \in Seq(Byte), Pass(d, data)
    PROVE  /\ out' \in [Dir -> Seq(Byte)] /\ capture' \in [Dir -> Held]
           /\ out'[d] = out[d] \o data
           /\ CaptureInv(d)'
           /\ \A e \in Dir : /\ capture'[e].on = capture[e].on
                             /\ capture'[e].armed = capture[e].armed
                             /\ e # d => out'[e] = out[e] /\ capture'[e] = capture[e]
<1> DEFINE c == capture[d]
           r == Recorded(c, data)
<1>1. c \in Held /\ out[d] \in Seq(Byte) /\ Len(c.bytes) <= Limit /\ (c.on => Faithful(c, out[d]))
    BY DEF Types, CaptureInv
<1>2. out' = [out EXCEPT ![d] = out[d] \o data] /\ capture' = [capture EXCEPT ![d] = r]
    BY DEF Pass
<1>3. /\ r \in Held /\ Len(r.bytes) <= Limit /\ r.on = c.on /\ r.armed = c.armed
      /\ c.on => Faithful(r, out[d] \o data)
    <2> HIDE DEF c
    <2>1. QED
        BY <1>1, RecordedIs
<1>4. out[d] \o data \in Seq(Byte)
    BY <1>1, ConcatProperties
<1> HIDE DEF r
<1>5. out'[d] = out[d] \o data /\ capture'[d] = r
    BY <1>2 DEF Types
<1>6. CaptureInv(d)'
    BY <1>3, <1>5 DEF CaptureInv, Faithful
<1>7. QED
    BY <1>2, <1>3, <1>4, <1>5, <1>6 DEF Types

\* The end of a body: a request leaves its permit, a response is reported.
LEMMA OnCompleteIs ==
    ASSUME Types, NEW d \in Dir, OnComplete(d)
    PROVE  /\ capture' = [capture EXCEPT ![d].armed = FALSE] /\ capture' \in [Dir -> Held]
           /\ \A e \in Dir : /\ Shown(capture'[e]) = Shown(capture[e])
                             /\ capture'[e].on = capture[e].on
                             /\ capture'[e].armed = (capture[e].armed /\ e # d)
           /\ notified' \in BOOLEAN /\ waiting' \in Seq(Snapshot)
           /\ events' \in Seq([req : Snapshot, res : Snapshot])
           /\ UNCHANGED asked
           /\ ~capture[d].armed => UNCHANGED told
           /\ d = "request" => UNCHANGED <<waiting, events>>
           /\ d = "response" => notified' = notified
           /\ d = "response" /\ capture[d].armed => Report(Shown(capture[d]))
<1>1. capture' = [capture EXCEPT ![d].armed = FALSE] /\ UNCHANGED asked
    BY DEF OnComplete
<1>2. capture' \in [Dir -> Held]
      /\ \A e \in Dir : /\ Shown(capture'[e]) = Shown(capture[e])
                        /\ capture'[e].on = capture[e].on
                        /\ capture'[e].armed = (capture[e].armed /\ e # d)
    BY ZenonT(30), <1>1 DEF Types, Held, Shown
<1>3. CASE ~capture[d].armed
    BY <1>1, <1>2, <1>3 DEF OnComplete, Armed, told, Types
<1>4. CASE capture[d].armed /\ d = "request"
    BY <1>1, <1>2, <1>4 DEF OnComplete, Armed, Notify, Types
<1>5. CASE capture[d].armed /\ d = "response"
    <2>1. notified' = notified /\ Report(Shown(capture[d]))
        BY <1>5 DEF OnComplete, Armed
    <2>2. Shown(capture[d]) \in Snapshot /\ kept \in Snapshot
        BY Snapshots DEF Types
    <2>3. waiting' \in Seq(Snapshot) /\ events' \in Seq([req : Snapshot, res : Snapshot])
        <3>1. CASE request = "streaming"
            <4> DEFINE r == Shown(capture[d])
            <4>1. waiting' = <<r>> /\ UNCHANGED events
                BY <2>1, <3>1 DEF Report
            <4>2. r \in Snapshot
                BY <2>2
            <4> HIDE DEF r
            <4>3. QED
                BY <4>1, <4>2 DEF Types
        <3>2. CASE request # "streaming"
            BY <2>1, <2>2, <3>2, SendIs DEF Report, Types
        <3>3. QED
            BY <3>1, <3>2
    <2>4. QED
        BY <1>1, <1>2, <1>5, <2>1, <2>3 DEF Types
<1>6. QED
    BY <1>3, <1>4, <1>5 DEF Dir

\* The rest of a body is captured from here on.
LEMMA CapturedIs ==
    ASSUME Types, NEW d \in Dir, Captured(d)
    PROVE  /\ capture' \in [Dir -> Held] /\ capture'[d] = Fresh /\ stage'[d] = "stream"
           /\ \A e \in Dir \ {d} : capture'[e] = capture[e] /\ stage'[e] = stage[e]
           /\ stage' = [stage EXCEPT ![d] = "stream"] /\ UNCHANGED <<prefix, rest>>
<1>1. Fresh \in Held
    BY EmptySeq DEF Fresh, Held
<1>2. capture' = [capture EXCEPT ![d] = Fresh] /\ stage' = [stage EXCEPT ![d] = "stream"]
    BY DEF Captured
<1>3. QED
    BY <1>1, <1>2 DEF Captured, Types

\* A body of our own goes on.
LEMMA BufferedIs ==
    ASSUME Types, NEW d \in Dir, NEW b \in Seq(Byte), Buffered(d, b)
    PROVE  /\ prefix' \in [Dir -> Seq(Seq(Byte))] /\ \A e \in Dir : Len(prefix'[e]) <= 2
           /\ rest' \in [Dir -> {"open", "end", "failed"}]
           /\ prefix'[d] = <<b>> /\ rest'[d] = "end" /\ stage'[d] = "stream"
           /\ \A e \in Dir \ {d} :
                 prefix'[e] = prefix[e] /\ rest'[e] = rest[e] /\ stage'[e] = stage[e]
           /\ UNCHANGED capture
<1>1. /\ prefix' = [prefix EXCEPT ![d] = <<b>>] /\ rest' = [rest EXCEPT ![d] = "end"]
      /\ stage' = [stage EXCEPT ![d] = "stream"] /\ UNCHANGED capture
    BY DEF Buffered
<1>2. <<b>> \in Seq(Seq(Byte)) /\ Len(<<b>>) \in {0, 1, 2}
    OBVIOUS
<1>3. Len(<<b>>) <= 2
    BY <1>2, Few
<1>4. QED
    BY <1>1, <1>2, <1>3 DEF Types

\* What is emitted when a collected response goes on.
LEMMA EmitIs ==
    ASSUME Types, NEW b \in Seq(Byte), EmitSnapshot(b)
    PROVE  /\ events' \in Seq([req : Snapshot, res : Snapshot])
           /\ Len(events') = Len(events) + 1
           /\ request' = "none" /\ UNCHANGED <<kept, notified, waiting>>
<1>1. TakenRequest \in Snapshot /\ Complete(b) \in Snapshot
    BY Snapshots DEF TakenRequest, Types, Dir
<1>2. Send(TakenRequest, Complete(b)) /\ request' = "none" /\ UNCHANGED <<kept, notified, waiting>>
    BY DEF EmitSnapshot
<1>3. QED
    BY <1>1, <1>2, SendIs

-----------------------------------------------------------------------------
(* One step keeps each part.                                               *)

\* Every step keeps the types.
LEMMA TypesStep ==
    ASSUME Types, \A d \in Dir : BodyInv(d) /\ CaptureInv(d), [Next]_vars
    PROVE  Types'
<1> USE Bounds
<1> Dir = {"request", "response"} /\ "request" \in Dir /\ "response" \in Dir
    BY DEF Dir
<1>1. ASSUME NEW d \in Dir, NEW n \in 1..MaxFrame, Collect(d, n) PROVE Types'
    <2> DEFINE data == Bytes(read[d], read[d] + n)
               all == buffer[d] \o data
    <2>1. read' \in [Dir -> 0..MaxBytes] /\ UNCHANGED <<scripted, wire>>
        BY <1>1 DEF Collect, Frame, Types
    <2>2. data \in Seq(1..MaxBytes)
        BY <1>1, FrameIs DEF Collect
    <2>3. all \in Seq(1..MaxBytes)
        BY <2>2, ConcatProperties DEF Types
    <2>4. UNCHANGED <<rest, out, capture, asked, told>>
        BY <1>1 DEF Collect
    <2>5. CASE Len(all) <= Limit
        <3>1. buffer' = [buffer EXCEPT ![d] = all] /\ UNCHANGED <<stage, prefix>>
            BY <1>1, <2>5 DEF Collect
        <3> HIDE DEF all, data
        <3>2. QED
            BY <2>1, <2>3, <2>4, <3>1 DEF Types, asked, told
    <2>6. CASE ~(Len(all) <= Limit)
        <3> DEFINE x == SubSeq(all, 1, Limit)
                   y == Overflow(all, data)
        <3>1. /\ buffer' = [buffer EXCEPT ![d] = x]
              /\ prefix' = [prefix EXCEPT ![d] = <<x, y>>]
              /\ stage' = [stage EXCEPT ![d] = "exceeded"]
            BY <1>1, <2>6 DEF Collect
        <3>2. Limit <= Len(all)
            <4> HIDE DEF all
            <4>1. Len(all) \in Nat
                BY <2>3
            <4>2. QED
                BY <2>6, <4>1
        <3>3. x \in Seq(1..MaxBytes) /\ y \in Seq(1..MaxBytes)
            BY <2>3, <3>2, CutInTwo DEF Overflow
        <3>4. x \in Seq(Byte) /\ y \in Seq(Byte)
            BY <3>3, Wider
        <3> HIDE DEF x, y, all, data
        <3>5. <<x, y>> \in Seq(Seq(Byte)) /\ Len(<<x, y>>) \in {0, 1, 2}
            BY <3>4
        <3>6. Len(<<x, y>>) <= 2
            BY <3>5, Few
        <3>7. QED
            BY <2>1, <2>4, <3>1, <3>3, <3>5, <3>6 DEF Types, asked, told
    <2>7. QED
        BY <2>5, <2>6
<1>2. ASSUME NEW d \in Dir, NEW how \in {"end", "failed"}, CollectEnds(d, how) PROVE Types'
    <2>1. buffer[d] \in Seq(Byte)
        BY Wider DEF Types
    <2>2. <<buffer[d]>> \in Seq(Seq(Byte)) /\ Len(<<buffer[d]>>) \in {0, 1, 2}
        BY <2>1
    <2>3. Len(<<buffer[d]>>) <= 2
        BY <2>2, Few
    <2>4. QED
        BY <1>2, <2>2, <2>3 DEF CollectEnds, Ends, Types, asked, told
<1>3. ASSUME NEW b \in Seq(Byte), ForwardBuffered(b) PROVE Types'
    <2>1. Buffered("request", b) /\ UNCHANGED <<source, buffer, out, told>>
          /\ request' = "buffered" /\ kept' = Complete(b)
        BY <1>3 DEF ForwardBuffered
    <2>2. QED
        BY <2>1, BufferedIs, Snapshots DEF Types, source, told, Buffered
<1>4. CASE ForwardStreaming
    BY <1>4, CapturedIs DEF ForwardStreaming, Types, source, told
<1>5. ASSUME NEW d \in Dir, PullPrefix(d) PROVE Types'
    <2>1. /\ prefix[d] # <<>> /\ Pass(d, Head(prefix[d]))
          /\ prefix' = [prefix EXCEPT ![d] = Tail(prefix[d])]
          /\ UNCHANGED <<stage, source, buffer, rest, asked, told>>
        BY <1>5 DEF PullPrefix
    <2>2. /\ Head(prefix[d]) \in Seq(Byte)
          /\ Tail(prefix[d]) \in Seq(Seq(Byte)) /\ Len(Tail(prefix[d])) <= 2
        BY <2>1, FirstFrame DEF Types
    <2>3. out' \in [Dir -> Seq(Byte)] /\ capture' \in [Dir -> Held]
        BY <2>1, <2>2, PassIs
    <2>4. QED
        BY <2>1, <2>2, <2>3 DEF Types, source, asked, told
<1>6. ASSUME NEW d \in Dir, NEW n \in 1..MaxFrame, PullFrame(d, n) PROVE Types'
    <2>1. /\ Frame(d, n) /\ Pass(d, Bytes(read[d], read[d] + n))
          /\ UNCHANGED <<stage, buffer, prefix, rest, asked, told>>
        BY <1>6 DEF PullFrame
    <2>2. read' \in [Dir -> 0..MaxBytes] /\ UNCHANGED <<scripted, wire>>
        BY <2>1 DEF Frame, Types
    <2>3. Bytes(read[d], read[d] + n) \in Seq(Byte)
        BY <2>1, FrameIs
    <2>4. out' \in [Dir -> Seq(Byte)] /\ capture' \in [Dir -> Held]
        BY <2>1, <2>3, PassIs
    <2>5. QED
        BY <2>1, <2>2, <2>4 DEF Types, asked, told
<1>7. ASSUME NEW d \in Dir, NEW how \in {"end", "failed"}, PullEnd(d, how) PROVE Types'
    <2>1. OnComplete(d) /\ stage' = [stage EXCEPT ![d] = "ended"]
          /\ UNCHANGED <<buffer, prefix, rest, out>>
        BY <1>7 DEF PullEnd
    <2>2. UNCHANGED <<scripted, read>> /\ wire' \in [Dir -> {"open", "end", "failed"}]
        BY <1>7 DEF PullEnd, Ends, source, Types
    <2>3. QED
        BY <2>1, <2>2, OnCompleteIs DEF Types, asked
<1>8. ASSUME NEW d \in Dir, DropBody(d) PROVE Types'
    BY <1>8, OnCompleteIs DEF DropBody, Types, source, asked
<1>9. CASE ResponseHead
    <2>1. UNCHANGED <<source, buffer, out, asked, told>>
        BY <1>9 DEF ResponseHead
    <2>2. CASE scripted
        BY <1>9, <2>1, <2>2 DEF ResponseHead, Types, source, asked, told
    <2>3. CASE ~scripted
        BY <1>9, <2>1, <2>3, CapturedIs DEF ResponseHead, Types, source, asked, told
    <2>4. QED
        BY <2>2, <2>3
<1>10. ASSUME NEW b \in Seq(Byte), FinishBuffered(b) PROVE Types'
    BY ZenonT(30), <1>10, BufferedIs, EmitIs DEF FinishBuffered, Types, source, Buffered
<1>11. CASE StreamResponse
    BY <1>11, CapturedIs DEF StreamResponse, Types, source, asked, told
<1>12. CASE UpstreamFails
    BY ZenonT(30), <1>12, BufferedIs, EmitIs, Snapshots DEF UpstreamFails, Types, source, Buffered
<1>13. CASE Cancel
    BY <1>13 DEF Cancel, Types, source, told
<1>14. CASE ReportLater
    <2>1. waiting # <<>> /\ Send(Shown(capture["request"]), waiting[1])
          /\ waiting' = <<>> /\ notified' = FALSE
          /\ UNCHANGED <<stage, source, buffer, prefix, rest, out, capture, asked>>
        BY <1>14 DEF ReportLater
    <2>2. waiting[1] \in Snapshot
        BY <2>1, HeadTailProperties DEF Types
    <2>3. Shown(capture["request"]) \in Snapshot
        BY Snapshots DEF Types
    <2>4. events' \in Seq([req : Snapshot, res : Snapshot])
        BY <2>1, <2>2, <2>3, SendIs
    <2>5. waiting' \in Seq(Snapshot)
        BY <2>1, EmptySeq
    <2>6. QED
        BY <2>1, <2>4, <2>5 DEF Types, source, asked
<1>15. CASE UNCHANGED vars
    BY <1>15 DEF Types, vars
<1>16. \A d \in Dir : buffer[d] \in Seq(Byte) /\ Own \in Seq(Byte)
    BY Wider, Snapshots DEF Types
<1>17. QED
    BY <1>1, <1>2, <1>3, <1>4, <1>5, <1>6, <1>7, <1>8, <1>9, <1>10, <1>11, <1>12,
       <1>13, <1>14, <1>15, <1>16 DEF Next, Pull

\* A step that leaves a body alone.
LEMMA BodyFrame ==
    ASSUME NEW d \in Dir, BodyInv(d),
           stage'[d] = stage[d] \/ stage'[d] \in {"dropped", "cancelled"},
           read'[d] = read[d], buffer'[d] = buffer[d], prefix'[d] = prefix[d],
           rest'[d] = rest[d], out'[d] = out[d]
    PROVE  BodyInv(d)'
BY DEF BodyInv, Original, Exchanged, Replaced, Whole

\* What was collected, or something else, goes on as the whole body.
LEMMA BodyBuffered ==
    ASSUME Types, NEW d \in Dir, NEW b \in Seq(Byte), Buffered(d, b),
           out[d] = <<>>, UNCHANGED <<out, read>>, b = Own \/ b = Bytes(0, read[d])
    PROVE  BodyInv(d)'
<1>1. prefix'[d] = <<b>> /\ rest'[d] = "end" /\ stage'[d] = "stream"
    BY BufferedIs
<1>2. Whole(d)' = b
    BY <1>1, Frames, ConcatEmptySeq DEF Whole
<1>3. CASE b = Bytes(0, read[d])
    BY <1>1, <1>2, <1>3 DEF BodyInv, Original
<1>4. CASE b = Own
    <2>1. 1 \in DOMAIN Own /\ Own[1] = 0
        BY DEF Own
    <2>2. Exchanged(d)'
        BY <1>1, <1>2, <1>4, <2>1 DEF Exchanged, Replaced
    <2>3. QED
        BY <1>1, <2>2 DEF BodyInv
<1>5. QED
    BY <1>3, <1>4

\* A body goes on as it is, and its capture starts.
LEMMA BodyCaptured ==
    ASSUME Types, NEW d \in Dir, BodyInv(d), Captured(d),
           stage[d] \in {"none", "exceeded", "failed"}, UNCHANGED <<out, read, buffer>>
    PROVE  BodyInv(d)' /\ CaptureInv(d)'
<1>1. /\ stage'[d] = "stream" /\ capture'[d] = Fresh /\ UNCHANGED <<prefix, rest>>
      /\ out[d] = <<>>
    BY CapturedIs DEF BodyInv
<1>2. Original(d) \/ Exchanged(d)
    <2>1. CASE stage[d] = "none"
        <3>1. prefix[d] = <<>> /\ read[d] = 0
            BY <2>1 DEF BodyInv
        <3>2. Whole(d) = <<>>
            BY <1>1, <3>1, Frames, ConcatEmptySeq, EmptySeq DEF Whole
        <3>3. QED
            BY <3>1, <3>2, NoBytes DEF Original
    <2>2. CASE stage[d] # "none"
        BY <2>2 DEF BodyInv
    <2>3. QED
        BY <2>1, <2>2
<1>3. BodyInv(d)'
    BY <1>1, <1>2 DEF BodyInv, Original, Exchanged, Replaced, Whole
<1>4. CaptureInv(d)'
    <2>1. Len(<<>>) = 0 /\ 0 <= Limit
        BY Bounds
    <2>2. QED
        BY <1>1, <2>1 DEF CaptureInv, Faithful, Fresh
<1>5. QED
    BY <1>3, <1>4

\* What has gone on and what is held stays the whole body.
LEMMA BodyStep ==
    ASSUME Types, \A e \in Dir : BodyInv(e) /\ CaptureInv(e), [Next]_vars, NEW d \in Dir
    PROVE  BodyInv(d)'
<1> BodyInv(d) /\ "request" \in Dir /\ "response" \in Dir
    BY DEF Dir
<1>1. ASSUME NEW e \in Dir, NEW n \in 1..MaxFrame, Collect(e, n) PROVE BodyInv(d)'
    <2> DEFINE data == Bytes(read[e], read[e] + n)
               all == buffer[e] \o data
    <2>1. /\ stage[e] = "collect" /\ Frame(e, n)
          /\ UNCHANGED <<rest, out, capture, asked, told>>
          /\ IF Len(all) <= Limit
             THEN buffer' = [buffer EXCEPT ![e] = all] /\ UNCHANGED <<stage, prefix>>
             ELSE /\ buffer' = [buffer EXCEPT ![e] = SubSeq(all, 1, Limit)]
                  /\ prefix' = [prefix EXCEPT ![e] = <<SubSeq(all, 1, Limit), Overflow(all, data)>>]
                  /\ stage' = [stage EXCEPT ![e] = "exceeded"]
        BY <1>1 DEF Collect
    <2>2. CASE d # e
        <3>1. read'[d] = read[d]
            BY <2>1, <2>2, FrameIs
        <3> HIDE DEF all, data
        <3>2. QED
            BY <2>1, <2>2, <3>1, BodyFrame DEF Types
    <2>3. CASE d = e
        <3>1. /\ read[d] \in Nat /\ read[d] + n \in Nat /\ read[d] <= read[d] + n
              /\ read[d] + n <= MaxBytes /\ data \in Seq(1..MaxBytes)
              /\ read'[d] = read[d] + n
            BY <2>1, <2>3, FrameIs
        <3>2. buffer[d] = Bytes(0, read[d]) /\ out[d] = <<>> /\ prefix[d] = <<>> /\ rest[d] = "open"
            BY <2>1, <2>3 DEF BodyInv
        <3>3. all = Bytes(0, read'[d])
            BY <2>3, <3>1, <3>2, BytesOn
        <3>4. all \in Seq(Byte)
            <4>1. all \in Seq(1..MaxBytes)
                BY <2>3, <3>1, ConcatProperties DEF Types
            <4>2. QED
                BY <4>1, Wider
        <3>5. CASE Len(all) <= Limit
            <4>1. buffer'[d] = all /\ stage'[d] = "collect" /\ prefix' = prefix
                BY <2>1, <2>3, <3>5 DEF Types
            <4> HIDE DEF all, data
            <4>2. QED
                BY <2>1, <3>2, <3>3, <4>1 DEF BodyInv
        <3>6. CASE ~(Len(all) <= Limit)
            <4> DEFINE x == SubSeq(all, 1, Limit)
                       y == Overflow(all, data)
            <4>1. prefix'[d] = <<x, y>> /\ stage'[d] = "exceeded" /\ out'[d] = <<>>
                BY <2>1, <2>3, <3>2, <3>6 DEF Types
            <4>2. x \in Seq(Byte) /\ y \in Seq(Byte) /\ x \o y = all
                <5> HIDE DEF all
                <5>1. Len(all) \in Nat /\ Limit <= Len(all)
                    BY <3>4, <3>6, Bounds
                <5>2. QED
                    BY <3>4, <5>1, CutInTwo, Bounds DEF Overflow
            <4> HIDE DEF x, y
            <4>3. Flat(prefix'[d]) = all
                BY <4>1, <4>2, Frames
            <4>4. Whole(d)' = all
                BY <3>4, <4>1, <4>3, ConcatEmptySeq DEF Whole
            <4> HIDE DEF all, data
            <4>5. QED
                BY <3>3, <4>1, <4>4 DEF BodyInv, Original
        <3>7. QED
            BY <3>5, <3>6
    <2>4. QED
        BY <2>2, <2>3
<1>2. ASSUME NEW e \in Dir, NEW how \in {"end", "failed"}, CollectEnds(e, how) PROVE BodyInv(d)'
    <2>1. /\ stage[e] = "collect" /\ UNCHANGED <<read, buffer, out>>
          /\ rest' = [rest EXCEPT ![e] = how] /\ prefix' = [prefix EXCEPT ![e] = <<buffer[e]>>]
          /\ stage' = [stage EXCEPT ![e] = IF how = "end" THEN "complete" ELSE "failed"]
        BY <1>2 DEF CollectEnds, Ends
    <2>2. CASE d # e
        BY <2>1, <2>2, BodyFrame DEF Types
    <2>3. CASE d = e
        <3>1. /\ buffer[d] = Bytes(0, read[d]) /\ out'[d] = <<>>
              /\ prefix'[d] = <<buffer[d]>> /\ stage'[d] \in {"complete", "failed"}
            BY <2>1, <2>3 DEF BodyInv, Types
        <3>2. Whole(d)' = buffer[d]
            BY <3>1, Frames, Wider, ConcatEmptySeq DEF Whole, Types
        <3>3. QED
            BY <2>1, <3>1, <3>2 DEF BodyInv, Original
    <2>4. QED
        BY <2>2, <2>3
<1>3. ASSUME NEW b \in Seq(Byte), ForwardBuffered(b) PROVE BodyInv(d)'
    <2>1. /\ Buffered("request", b) /\ UNCHANGED <<read, buffer, out>>
          /\ stage["request"] \in {"complete", "exceeded"}
          /\ b = Own \/ (stage["request"] = "complete" /\ b = buffer["request"])
        BY <1>3 DEF ForwardBuffered, Hooked, source
    <2>2. CASE d = "request"
        <3>1. out[d] = <<>> /\ (b = Own \/ b = Bytes(0, read[d]))
            BY <2>1, <2>2 DEF BodyInv
        <3>2. QED
            BY <2>1, <2>2, <3>1, BodyBuffered
    <2>3. CASE d # "request"
        BY <2>1, <2>3, BufferedIs, BodyFrame
    <2>4. QED
        BY <2>2, <2>3
<1>4. ASSUME NEW b \in Seq(Byte), FinishBuffered(b) PROVE BodyInv(d)'
    <2>1. /\ Buffered("response", b) /\ UNCHANGED <<read, buffer, out>>
          /\ stage["response"] \in {"complete", "exceeded"}
          /\ b = Own \/ (stage["response"] = "complete" /\ b = buffer["response"])
        BY <1>4 DEF FinishBuffered, Hooked, source
    <2>2. CASE d = "response"
        <3>1. out[d] = <<>> /\ (b = Own \/ b = Bytes(0, read[d]))
            BY <2>1, <2>2 DEF BodyInv
        <3>2. QED
            BY <2>1, <2>2, <3>1, BodyBuffered
    <2>3. CASE d # "response"
        BY <2>1, <2>3, BufferedIs, BodyFrame
    <2>4. QED
        BY <2>2, <2>3
<1>5. CASE UpstreamFails
    <2>1. /\ Buffered("response", Own) /\ UNCHANGED <<read, buffer, out>>
          /\ stage["response"] = "none" /\ Own \in Seq(Byte)
        BY <1>5, Snapshots DEF UpstreamFails, source
    <2>2. CASE d = "response"
        <3>1. out[d] = <<>>
            BY <2>1, <2>2 DEF BodyInv
        <3>2. QED
            BY <2>1, <2>2, <3>1, BodyBuffered
    <2>3. CASE d # "response"
        BY <2>1, <2>3, BufferedIs, BodyFrame
    <2>4. QED
        BY <2>2, <2>3
<1>6. CASE ForwardStreaming
    <2>1. /\ Captured("request") /\ UNCHANGED <<read, buffer, out>>
          /\ stage["request"] \in {"exceeded", "failed"}
        BY <1>6 DEF ForwardStreaming, source
    <2>2. QED
        BY <2>1, BodyCaptured, CapturedIs, BodyFrame
<1>7. CASE StreamResponse
    <2>1. /\ Captured("response") /\ UNCHANGED <<read, buffer, out>>
          /\ stage["response"] \in {"exceeded", "failed"}
        BY <1>7 DEF StreamResponse, source
    <2>2. QED
        BY <2>1, BodyCaptured, CapturedIs, BodyFrame
<1>8. CASE ResponseHead
    <2>1. stage["response"] = "none" /\ UNCHANGED <<read, buffer, out>>
        BY <1>8 DEF ResponseHead, source
    <2>2. CASE scripted
        BY <1>8, <2>1, <2>2 DEF ResponseHead, BodyInv, Types, Original, Exchanged, Replaced, Whole
    <2>3. CASE ~scripted
        BY <1>8, <2>1, <2>3, BodyCaptured, CapturedIs, BodyFrame DEF ResponseHead
    <2>4. QED
        BY <2>2, <2>3
<1>9. ASSUME NEW e \in Dir, PullPrefix(e) PROVE BodyInv(d)'
    <2>1. /\ stage[e] = "stream" /\ prefix[e] # <<>> /\ Pass(e, Head(prefix[e]))
          /\ prefix' = [prefix EXCEPT ![e] = Tail(prefix[e])]
          /\ UNCHANGED <<stage, read, buffer, rest>>
        BY <1>9 DEF PullPrefix, source
    <2>2. /\ Head(prefix[e]) \in Seq(Byte) /\ Flat(Tail(prefix[e])) \in Seq(Byte)
          /\ Flat(prefix[e]) = Head(prefix[e]) \o Flat(Tail(prefix[e]))
        BY <2>1, FirstFrame DEF Types
    <2>3. out'[e] = out[e] \o Head(prefix[e]) /\ \A f \in Dir : f # e => out'[f] = out[f]
        <3>1. PICK data \in Seq(Byte) : data = Head(prefix[e])
            BY <2>2
        <3>2. CaptureInv(e) /\ Pass(e, data)
            BY <2>1, <3>1 DEF Pass
        <3>3. out'[e] = out[e] \o data /\ \A f \in Dir : f # e => out'[f] = out[f]
            BY <3>2 DEF Pass, Types
        <3>4. QED
            BY <3>1, <3>3
    <2>4. CASE d # e
        BY <2>1, <2>3, <2>4, BodyFrame DEF Types
    <2>5. CASE d = e
        <3>1. prefix'[d] = Tail(prefix[d])
            BY <2>1, <2>5 DEF Types
        <3>2. (out[d] \o Head(prefix[d])) \o Flat(Tail(prefix[d]))
                 = out[d] \o (Head(prefix[d]) \o Flat(Tail(prefix[d])))
            <4> DEFINE x == out[d]
                       y == Head(prefix[d])
                       z == Flat(Tail(prefix[d]))
            <4>1. x \in Seq(Byte) /\ y \in Seq(Byte) /\ z \in Seq(Byte)
                BY <2>2, <2>5 DEF Types
            <4> HIDE DEF x, y, z
            <4>2. (x \o y) \o z = x \o (y \o z)
                BY <4>1, ConcatAssociative
            <4>3. QED
                BY <4>2 DEF x, y, z
        <3>3. Whole(d)' = Whole(d)
            BY <2>2, <2>3, <2>5, <3>1, <3>2 DEF Whole
        <3>4. QED
            BY <2>1, <2>5, <3>3 DEF BodyInv, Original, Exchanged, Replaced
    <2>6. QED
        BY <2>4, <2>5
<1>10. ASSUME NEW e \in Dir, NEW n \in 1..MaxFrame, PullFrame(e, n) PROVE BodyInv(d)'
    <2> DEFINE data == Bytes(read[e], read[e] + n)
    <2>1. /\ stage[e] = "stream" /\ prefix[e] = <<>> /\ rest[e] = "open"
          /\ Frame(e, n) /\ Pass(e, data)
          /\ UNCHANGED <<stage, buffer, prefix, rest>>
        BY <1>10 DEF PullFrame
    <2>2. /\ read[e] \in Nat /\ read[e] + n \in Nat /\ read[e] <= read[e] + n
          /\ read[e] + n <= MaxBytes /\ data \in Seq(Byte)
          /\ \A f \in Dir : read'[f] = IF f = e THEN read[e] + n ELSE read[f]
        BY <2>1, FrameIs
    <2>3. out'[e] = out[e] \o data /\ \A f \in Dir : f # e => out'[f] = out[f]
        <3>1. PICK x \in Seq(Byte) : x = data
            BY <2>2
        <3>2. CaptureInv(e) /\ Pass(e, x)
            BY <2>1, <3>1 DEF Pass
        <3>3. out'[e] = out[e] \o x /\ \A f \in Dir : f # e => out'[f] = out[f]
            BY <3>2 DEF Pass, Types
        <3>4. QED
            BY <3>1, <3>3
    <2>4. CASE d # e
        BY <2>1, <2>2, <2>3, <2>4, BodyFrame DEF Types
    <2>5. CASE d = e
        <3>1. Whole(d) = Bytes(0, read[d])
            BY <2>1, <2>5 DEF BodyInv, Exchanged, Original
        <3>2. Whole(d) = out[d]
            <4>1. Flat(prefix[d]) = <<>> /\ out[d] \in Seq(Byte)
                BY <2>1, <2>5, Frames DEF Types
            <4>2. out[d] \o <<>> = out[d]
                BY <4>1, ConcatEmptySeq
            <4>3. QED
                BY <4>1, <4>2 DEF Whole
        <3>3. out'[d] = Bytes(0, read'[d])
            <4> DEFINE a == read[d]
                       b == read[d] + n
            <4>1. a \in Nat /\ b \in Nat /\ a <= b /\ b <= MaxBytes /\ read'[d] = b
                BY <2>2, <2>5
            <4>2. out'[d] = Bytes(0, a) \o Bytes(a, b)
                BY <2>3, <2>5, <3>1, <3>2
            <4> HIDE DEF a, b
            <4>3. QED
                BY <4>1, <4>2, BytesOn
        <3>4. out'[d] \in Seq(Byte)
            <4>1. out[d] \in Seq(Byte) /\ data \in Seq(Byte) /\ out'[d] = out[d] \o data
                BY <2>2, <2>3, <2>5 DEF Types
            <4> HIDE DEF data
            <4>2. QED
                BY <4>1, ConcatProperties
        <3>5. Whole(d)' = out'[d]
            BY <2>1, <2>5, <3>4, Frames, ConcatEmptySeq DEF Whole
        <3>6. QED
            BY <2>1, <2>5, <3>3, <3>5 DEF BodyInv, Original
    <2>6. QED
        BY <2>4, <2>5
<1>11. ASSUME NEW e \in Dir, NEW how \in {"end", "failed"}, PullEnd(e, how) PROVE BodyInv(d)'
    <2>1. /\ stage[e] = "stream" /\ stage' = [stage EXCEPT ![e] = "ended"]
          /\ UNCHANGED <<read, buffer, prefix, rest, out>>
        BY <1>11 DEF PullEnd, Ends, source
    <2>2. CASE d # e
        BY <2>1, <2>2, BodyFrame DEF Types
    <2>3. CASE d = e
        BY <2>1, <2>3 DEF BodyInv, Types, Original, Exchanged, Replaced, Whole
    <2>4. QED
        BY <2>2, <2>3
<1>12. ASSUME NEW e \in Dir, DropBody(e) PROVE BodyInv(d)'
    BY <1>12, BodyFrame DEF DropBody, source, Types
<1>13. CASE Cancel
    BY <1>13, BodyFrame DEF Cancel, source, Types
<1>14. CASE ReportLater \/ UNCHANGED vars
    BY <1>14, BodyFrame DEF ReportLater, source, vars
<1>15. \A e \in Dir : buffer[e] \in Seq(Byte) /\ Own \in Seq(Byte)
    BY Wider, Snapshots DEF Types
<1>16. QED
    BY <1>1, <1>2, <1>3, <1>4, <1>5, <1>6, <1>7, <1>8, <1>9, <1>10, <1>11, <1>12,
       <1>13, <1>14, <1>15 DEF Next, Pull

\* A capture whose body lets nothing through stays faithful.
LEMMA CaptureFrame ==
    ASSUME NEW d \in Dir, CaptureInv(d), out'[d] = out[d],
           Shown(capture'[d]) = Shown(capture[d]), capture'[d].on = capture[d].on
    PROVE  CaptureInv(d)'
<1>1. /\ capture'[d].bytes = capture[d].bytes /\ capture'[d].seen = capture[d].seen
      /\ capture'[d].truncated = capture[d].truncated
    BY DEF Shown
<1>2. QED
    BY <1>1 DEF CaptureInv, Faithful

\* A capture stays the beginning of what went through.
LEMMA CaptureStep ==
    ASSUME Types, \A e \in Dir : BodyInv(e) /\ CaptureInv(e), [Next]_vars, NEW d \in Dir
    PROVE  CaptureInv(d)'
<1> CaptureInv(d) /\ "request" \in Dir /\ "response" \in Dir
    BY DEF Dir
<1>1. ASSUME UNCHANGED <<capture, out>> PROVE CaptureInv(d)'
    BY <1>1, CaptureFrame
<1>2. ASSUME NEW e \in Dir, NEW n \in 1..MaxFrame, Collect(e, n) PROVE CaptureInv(d)'
    BY <1>1, <1>2 DEF Collect
<1>3. ASSUME NEW e \in Dir, NEW how \in {"end", "failed"}, CollectEnds(e, how)
      PROVE CaptureInv(d)'
    BY <1>1, <1>3 DEF CollectEnds
<1>4. ASSUME NEW b \in Seq(Byte), ForwardBuffered(b) \/ FinishBuffered(b) PROVE CaptureInv(d)'
    BY <1>1, <1>4 DEF ForwardBuffered, FinishBuffered, Buffered
<1>5. CASE UpstreamFails \/ Cancel \/ ReportLater \/ UNCHANGED vars
    BY <1>1, <1>5 DEF UpstreamFails, Buffered, Cancel, ReportLater, vars
<1>6. ASSUME NEW e \in Dir, Captured(e), stage[e] \in {"none", "exceeded", "failed"},
             UNCHANGED <<out, read, buffer>>
      PROVE CaptureInv(d)'
    <2>1. CASE d = e
        BY <1>6, <2>1, BodyCaptured
    <2>2. CASE d # e
        <3>1. capture'[d] = capture[d]
            BY <1>6, <2>2, CapturedIs
        <3>2. QED
            BY <1>6, <3>1, CaptureFrame
    <2>3. QED
        BY <2>1, <2>2
<1>7. CASE ForwardStreaming
    BY <1>6, <1>7 DEF ForwardStreaming, source
<1>8. CASE StreamResponse
    BY <1>6, <1>8 DEF StreamResponse, source
<1>9. CASE ResponseHead
    BY <1>1, <1>6, <1>9 DEF ResponseHead, source
<1>10. ASSUME NEW e \in Dir, NEW data \in Seq(Byte), Pass(e, data) PROVE CaptureInv(d)'
    <2>1. CaptureInv(e)
        OBVIOUS
    <2>2. CASE d = e
        BY <1>10, <2>1, <2>2, PassIs
    <2>3. CASE d # e
        <3>1. out'[d] = out[d] /\ capture'[d] = capture[d]
            BY <1>10, <2>1, <2>3 DEF Pass, Types
        <3>2. QED
            BY <3>1, CaptureFrame
    <2>4. QED
        BY <2>2, <2>3
<1>11. ASSUME NEW e \in Dir, PullPrefix(e) PROVE CaptureInv(d)'
    <2>1. prefix[e] # <<>> /\ Pass(e, Head(prefix[e]))
        BY <1>11 DEF PullPrefix
    <2>2. Head(prefix[e]) \in Seq(Byte)
        BY <2>1, FirstFrame DEF Types
    <2>3. QED
        BY <1>10, <2>1, <2>2
<1>12. ASSUME NEW e \in Dir, NEW n \in 1..MaxFrame, PullFrame(e, n) PROVE CaptureInv(d)'
    <2>1. Frame(e, n) /\ Pass(e, Bytes(read[e], read[e] + n))
        BY <1>12 DEF PullFrame
    <2>2. Bytes(read[e], read[e] + n) \in Seq(Byte)
        BY <2>1, FrameIs
    <2>3. QED
        BY <1>10, <2>1, <2>2
<1>13. ASSUME NEW e \in Dir, OnComplete(e), UNCHANGED out PROVE CaptureInv(d)'
    <2>1. Shown(capture'[d]) = Shown(capture[d]) /\ capture'[d].on = capture[d].on
        BY <1>13, OnCompleteIs
    <2>2. QED
        BY <1>13, <2>1, CaptureFrame
<1>14. ASSUME NEW e \in Dir, NEW how \in {"end", "failed"}, PullEnd(e, how) PROVE CaptureInv(d)'
    BY <1>13, <1>14 DEF PullEnd
<1>15. ASSUME NEW e \in Dir, DropBody(e) PROVE CaptureInv(d)'
    BY <1>13, <1>15 DEF DropBody
<1>16. \A e \in Dir : buffer[e] \in Seq(Byte) /\ Own \in Seq(Byte)
    BY Wider, Snapshots DEF Types
<1>17. QED
    BY <1>2, <1>3, <1>4, <1>5, <1>7, <1>8, <1>9, <1>11, <1>12, <1>14, <1>15, <1>16
       DEF Next, Pull

\* A body that is still collected goes on being collected, or is held; nothing
\* is captured or reported.
LEMMA Collecting ==
    ASSUME Types, NEW e \in Dir,
           \/ \E n \in 1..MaxFrame : Collect(e, n)
           \/ \E how \in {"end", "failed"} : CollectEnds(e, how)
    PROVE  /\ stage[e] = "collect" /\ stage'[e] \in {"collect", "complete", "exceeded", "failed"}
           /\ \A f \in Dir : f # e => stage'[f] = stage[f]
           /\ UNCHANGED <<capture, request, kept, notified, waiting, events>>
<1>1. ASSUME NEW n \in 1..MaxFrame, Collect(e, n)
      PROVE  /\ stage[e] = "collect" /\ stage'[e] \in {"collect", "exceeded"}
             /\ \A f \in Dir : f # e => stage'[f] = stage[f]
             /\ UNCHANGED <<capture, request, kept, notified, waiting, events>>
    <2>1. /\ stage[e] = "collect"
          /\ UNCHANGED stage \/ stage' = [stage EXCEPT ![e] = "exceeded"]
          /\ UNCHANGED <<capture, asked, told>>
        BY <1>1 DEF Collect
    <2>2. QED
        BY <2>1 DEF Types, asked, told
<1>2. ASSUME NEW how \in {"end", "failed"}, CollectEnds(e, how)
      PROVE  /\ stage[e] = "collect" /\ stage'[e] \in {"complete", "failed"}
             /\ \A f \in Dir : f # e => stage'[f] = stage[f]
             /\ UNCHANGED <<capture, request, kept, notified, waiting, events>>
    BY <1>2 DEF CollectEnds, Types, asked, told
<1>3. QED
    BY <1>1, <1>2

\* The receiver pulls: the body is in transit, and nothing is reported.
LEMMA Pulling ==
    ASSUME Types, \A d \in Dir : BodyInv(d) /\ CaptureInv(d), NEW e \in Dir,
           PullPrefix(e) \/ (\E n \in 1..MaxFrame : PullFrame(e, n))
    PROVE  /\ stage[e] = "stream" /\ UNCHANGED stage
           /\ \A f \in Dir : /\ capture'[f].on = capture[f].on
                             /\ capture'[f].armed = capture[f].armed
                             /\ f # e => capture'[f] = capture[f]
           /\ UNCHANGED <<request, kept, notified, waiting, events>>
<1>1. PICK data \in Seq(Byte) : /\ stage[e] = "stream" /\ Pass(e, data)
                               /\ UNCHANGED <<stage, asked, told>>
    <2>1. CASE PullPrefix(e)
        <3>1. prefix[e] # <<>> /\ stage[e] = "stream" /\ Pass(e, Head(prefix[e]))
              /\ UNCHANGED <<stage, asked, told>>
            BY <2>1 DEF PullPrefix
        <3>2. Head(prefix[e]) \in Seq(Byte)
            BY <3>1, FirstFrame DEF Types
        <3>3. QED
            BY <3>1, <3>2
    <2>2. ASSUME NEW n \in 1..MaxFrame, PullFrame(e, n)
          PROVE  \E x \in Seq(Byte) : /\ stage[e] = "stream" /\ Pass(e, x)
                                      /\ UNCHANGED <<stage, asked, told>>
        <3>1. /\ stage[e] = "stream" /\ Frame(e, n) /\ Pass(e, Bytes(read[e], read[e] + n))
              /\ UNCHANGED <<stage, asked, told>>
            BY <2>2 DEF PullFrame
        <3>2. Bytes(read[e], read[e] + n) \in Seq(Byte)
            BY <3>1, FrameIs
        <3>3. QED
            BY <3>1, <3>2
    <2>3. QED
        BY <2>1, <2>2
<1>2. \A f \in Dir : /\ capture'[f].on = capture[f].on
                     /\ capture'[f].armed = capture[f].armed
                     /\ f # e => capture'[f] = capture[f]
    <2>1. CaptureInv(e)
        OBVIOUS
    <2>2. QED
        BY <1>1, <2>1, PassIs
<1>3. QED
    BY <1>1, <1>2 DEF asked, told

\* A body ends or is dropped: its capture is complete.
LEMMA Ending ==
    ASSUME Types, NEW e \in Dir,
           (\E how \in {"end", "failed"} : PullEnd(e, how)) \/ DropBody(e)
    PROVE  /\ stage[e] \in {"stream", "ended"} /\ stage'[e] \in {"ended", "dropped"}
           /\ \A f \in Dir : f # e => stage'[f] = stage[f]
           /\ OnComplete(e)
<1>1. ASSUME NEW how \in {"end", "failed"}, PullEnd(e, how)
      PROVE  /\ stage[e] = "stream" /\ stage' = [stage EXCEPT ![e] = "ended"] /\ OnComplete(e)
    BY <1>1 DEF PullEnd
<1>2. CASE DropBody(e)
    BY <1>2 DEF DropBody, Types
<1>3. QED
    BY <1>1, <1>2 DEF Types

\* The ways in which the exchange moves on.
LEMMA Steps ==
    ASSUME Types, [Next]_vars
    PROVE  \/ \E e \in Dir : \/ \E n \in 1..MaxFrame : Collect(e, n)
                             \/ \E how \in {"end", "failed"} : CollectEnds(e, how)
           \/ \E e \in Dir : PullPrefix(e) \/ \E n \in 1..MaxFrame : PullFrame(e, n)
           \/ \E e \in Dir : (\E how \in {"end", "failed"} : PullEnd(e, how)) \/ DropBody(e)
           \/ \E b \in Seq(Byte) : ForwardBuffered(b)
           \/ \E b \in Seq(Byte) : \/ FinishBuffered(b)
                                   \/ UpstreamFails /\ b = Own
           \/ ForwardStreaming \/ ResponseHead \/ StreamResponse
           \/ Cancel \/ ReportLater \/ UNCHANGED vars
<1>1. \A e \in Dir : buffer[e] \in Seq(Byte) /\ Own \in Seq(Byte)
    BY Wider, Snapshots DEF Types
<1>2. "request" \in Dir /\ "response" \in Dir
    BY DEF Dir
<1>3. QED
    BY <1>1, <1>2 DEF Next, Pull

\* The response is built by the proxy, or goes on as collected: it is reported.
LEMMA Finishing ==
    ASSUME Types, NEW b \in Seq(Byte), FinishBuffered(b) \/ (UpstreamFails /\ b = Own)
    PROVE  /\ stage["response"] \in {"none", "complete", "exceeded"}
           /\ stage["response"] = "none" => stage["request"] \in {"stream", "ended", "dropped"}
           /\ stage'["response"] = "stream" /\ stage'["request"] = stage["request"]
           /\ UNCHANGED <<capture, notified, waiting, kept>> /\ request' = "none"
           /\ Len(events') = Len(events) + 1
<1>1. EmitSnapshot(b) /\ Buffered("response", b)
    BY DEF FinishBuffered, UpstreamFails
<1>2. Len(events') = Len(events) + 1 /\ request' = "none" /\ UNCHANGED <<kept, notified, waiting>>
    BY <1>1, EmitIs
<1>3. /\ stage'["response"] = "stream" /\ stage'["request"] = stage["request"]
      /\ UNCHANGED capture
    BY <1>1, BufferedIs DEF Dir
<1>4. /\ stage["response"] \in {"none", "complete", "exceeded"}
      /\ stage["response"] = "none" => stage["request"] \in {"stream", "ended", "dropped"}
    BY DEF FinishBuffered, UpstreamFails
<1>5. QED
    BY <1>2, <1>3, <1>4

\* The request goes on, as a buffer or through a capture.
LEMMA Forwarding ==
    ASSUME Types, ForwardStreaming \/ \E b \in Seq(Byte) : ForwardBuffered(b)
    PROVE  /\ stage["request"] \in {"complete", "exceeded", "failed"}
           /\ stage'["request"] = "stream" /\ stage'["response"] = stage["response"]
           /\ capture'["response"] = capture["response"]
           /\ \/ capture'["request"] = capture["request"] /\ request' = "buffered"
              \/ capture'["request"] = Fresh /\ request' = "streaming"
           /\ UNCHANGED <<notified, waiting, events>>
<1>1. ASSUME NEW b \in Seq(Byte), ForwardBuffered(b)
      PROVE  /\ stage["request"] \in {"complete", "exceeded"}
             /\ stage'["request"] = "stream" /\ stage'["response"] = stage["response"]
             /\ UNCHANGED capture /\ request' = "buffered" /\ UNCHANGED told
    <2>1. /\ Buffered("request", b) /\ request' = "buffered" /\ UNCHANGED told
          /\ stage["request"] \in {"complete", "exceeded"}
        BY <1>1 DEF ForwardBuffered
    <2>2. QED
        BY <2>1, BufferedIs DEF Dir
<1>2. CASE ForwardStreaming
    <2>1. /\ Captured("request") /\ request' = "streaming" /\ UNCHANGED told
          /\ stage["request"] \in {"exceeded", "failed"}
        BY <1>2 DEF ForwardStreaming
    <2>2. /\ capture'["request"] = Fresh /\ stage'["request"] = "stream"
          /\ capture'["response"] = capture["response"] /\ stage'["response"] = stage["response"]
        BY <2>1, CapturedIs DEF Dir
    <2>3. QED
        BY <2>1, <2>2 DEF told
<1>3. QED
    BY <1>1, <1>2 DEF told

\* The response is on its way: it is collected, or its capture starts.
LEMMA Answering ==
    ASSUME Types, ResponseHead \/ StreamResponse
    PROVE  /\ stage["response"] \in {"none", "exceeded", "failed"}
           /\ stage["response"] = "none" => stage["request"] \in {"stream", "ended", "dropped"}
           /\ stage'["request"] = stage["request"] /\ capture'["request"] = capture["request"]
           /\ \/ stage'["response"] = "collect" /\ capture'["response"] = capture["response"]
                 /\ stage["response"] = "none"
              \/ stage'["response"] = "stream" /\ capture'["response"] = Fresh
           /\ UNCHANGED <<request, kept, notified, waiting, events>>
<1>1. /\ stage["response"] \in {"none", "exceeded", "failed"}
      /\ stage["response"] = "none" => stage["request"] \in {"stream", "ended", "dropped"}
      /\ UNCHANGED <<asked, told>>
    BY DEF ResponseHead, StreamResponse
<1>2. \/ Captured("response")
      \/ /\ stage' = [stage EXCEPT !["response"] = "collect"] /\ UNCHANGED capture
         /\ stage["response"] = "none"
    BY DEF ResponseHead, StreamResponse
<1>3. CASE Captured("response")
    <2>1. /\ capture'["response"] = Fresh /\ stage'["response"] = "stream"
          /\ capture'["request"] = capture["request"] /\ stage'["request"] = stage["request"]
        BY <1>3, CapturedIs DEF Dir
    <2>2. QED
        BY <1>1, <2>1 DEF asked, told
<1>4. CASE /\ stage' = [stage EXCEPT !["response"] = "collect"] /\ UNCHANGED capture
           /\ stage["response"] = "none"
    BY <1>1, <1>4 DEF asked, told, Types, Dir
<1>5. QED
    BY <1>2, <1>3, <1>4

\* A capture that was not started was not armed, and starts armed.
LEMMA ArmedStep ==
    ASSUME Types, \A e \in Dir : BodyInv(e) /\ CaptureInv(e), ArmedInv, [Next]_vars
    PROVE  ArmedInv'
<1> "request" \in Dir /\ "response" \in Dir /\ \A d \in Dir : d = "request" \/ d = "response"
    BY DEF Dir
<1> Fresh.on = TRUE /\ Fresh.armed = TRUE
    BY DEF Fresh
<1>1. ASSUME NEW e \in Dir,
             \/ \E n \in 1..MaxFrame : Collect(e, n)
             \/ \E how \in {"end", "failed"} : CollectEnds(e, how)
      PROVE  ArmedInv'
    BY <1>1, Collecting DEF ArmedInv
<1>2. ASSUME NEW e \in Dir, PullPrefix(e) \/ \E n \in 1..MaxFrame : PullFrame(e, n)
      PROVE  ArmedInv'
    <2>1. /\ stage[e] = "stream" /\ UNCHANGED <<stage, request, notified>>
          /\ \A f \in Dir : capture'[f].on = capture[f].on /\ capture'[f].armed = capture[f].armed
        BY <1>2, Pulling
    <2>2. QED
        BY <2>1 DEF ArmedInv
<1>3. ASSUME NEW e \in Dir, (\E how \in {"end", "failed"} : PullEnd(e, how)) \/ DropBody(e)
      PROVE  ArmedInv'
    <2>1. /\ stage'[e] \in {"ended", "dropped"} /\ \A f \in Dir : f # e => stage'[f] = stage[f]
          /\ OnComplete(e)
        BY <1>3, Ending
    <2>2. \A f \in Dir : capture'[f].on = capture[f].on
                       /\ capture'[f].armed = (capture[f].armed /\ f # e)
        BY <2>1, OnCompleteIs
    <2>3. ASSUME NEW d \in Dir
          PROVE  /\ capture'[d].armed => capture'[d].on /\ stage'[d] = "stream"
                 /\ capture'[d].on /\ stage'[d] = "stream" => capture'[d].armed
                 /\ stage'[d] \in {"none", "collect", "complete", "exceeded", "failed",
                                   "cancelled"} => ~capture'[d].on
        <3>1. CASE d = e
            BY <2>1, <2>2, <3>1
        <3>2. CASE d # e
            BY <2>1, <2>2, <3>2 DEF ArmedInv
        <3>3. QED
            BY <3>1, <3>2
    <2>4. QED
        BY <2>3 DEF ArmedInv
<1>4. CASE ForwardStreaming \/ \E b \in Seq(Byte) : ForwardBuffered(b)
    BY <1>4, Forwarding DEF ArmedInv
<1>5. ASSUME NEW b \in Seq(Byte), FinishBuffered(b) \/ (UpstreamFails /\ b = Own) PROVE ArmedInv'
    BY <1>5, Finishing DEF ArmedInv
<1>6. CASE ResponseHead \/ StreamResponse
    BY <1>6, Answering DEF ArmedInv
<1>7. CASE Cancel
    BY <1>7 DEF Cancel, ArmedInv, Types
<1>8. CASE ReportLater \/ UNCHANGED vars
    BY <1>8 DEF ReportLater, vars, ArmedInv
<1>9. QED
    BY <1>1, <1>2, <1>3, <1>4, <1>5, <1>6, <1>7, <1>8, Steps

\* The response follows the request.
LEMMA RequestStep ==
    ASSUME Types, \A e \in Dir : BodyInv(e) /\ CaptureInv(e), ArmedInv, RequestInv, [Next]_vars
    PROVE  RequestInv'
<1> "request" \in Dir /\ "response" \in Dir /\ \A d \in Dir : d = "request" \/ d = "response"
    BY DEF Dir
<1> Fresh.on = TRUE
    BY DEF Fresh
<1>1. ASSUME NEW e \in Dir,
             \/ \E n \in 1..MaxFrame : Collect(e, n)
             \/ \E how \in {"end", "failed"} : CollectEnds(e, how)
      PROVE  RequestInv'
    BY <1>1, Collecting DEF RequestInv
<1>2. ASSUME NEW e \in Dir, PullPrefix(e) \/ \E n \in 1..MaxFrame : PullFrame(e, n)
      PROVE  RequestInv'
    <2>1. /\ stage[e] = "stream" /\ UNCHANGED <<stage, request, notified>>
          /\ \A f \in Dir : capture'[f].on = capture[f].on /\ capture'[f].armed = capture[f].armed
        BY <1>2, Pulling
    <2>2. QED
        BY <2>1 DEF RequestInv
<1>3. ASSUME NEW e \in Dir, (\E how \in {"end", "failed"} : PullEnd(e, how)) \/ DropBody(e)
      PROVE  RequestInv'
    <2>1. /\ stage[e] \in {"stream", "ended"} /\ stage'[e] \in {"ended", "dropped"}
          /\ \A f \in Dir : f # e => stage'[f] = stage[f]
          /\ OnComplete(e)
        BY <1>3, Ending
    <2>2. /\ \A f \in Dir : capture'[f].on = capture[f].on
          /\ e = "response" => notified' = notified
          /\ UNCHANGED request
        BY <2>1, OnCompleteIs DEF asked
    <2>3. CASE e = "request"
        BY <2>1, <2>2, <2>3 DEF RequestInv
    <2>4. CASE e = "response"
        BY <2>1, <2>2, <2>4 DEF RequestInv
    <2>5. QED
        BY <2>3, <2>4
<1>4. CASE ForwardStreaming \/ \E b \in Seq(Byte) : ForwardBuffered(b)
    BY <1>4, Forwarding DEF ArmedInv, RequestInv
<1>5. ASSUME NEW b \in Seq(Byte), FinishBuffered(b) \/ (UpstreamFails /\ b = Own) PROVE RequestInv'
    BY <1>5, Finishing DEF ArmedInv, RequestInv
<1>6. CASE ResponseHead \/ StreamResponse
    BY <1>6, Answering DEF ArmedInv, RequestInv
<1>7. CASE Cancel
    <2>1. /\ stage["response"] \in {"none", "collect"} /\ stage'["response"] = "cancelled"
          /\ stage'["request"] = IF stage["request"] \in {"stream", "ended", "dropped"}
                                 THEN stage["request"] ELSE "cancelled"
          /\ request' = "none" /\ UNCHANGED <<capture, notified>>
        BY <1>7 DEF Cancel, told
    <2>2. QED
        BY <2>1 DEF RequestInv, ArmedInv
<1>8. CASE ReportLater \/ UNCHANGED vars
    BY <1>8 DEF ReportLater, asked, vars, RequestInv
<1>9. QED
    BY <1>1, <1>2, <1>3, <1>4, <1>5, <1>6, <1>7, <1>8, Steps

\* The response ends: the report waits for the request, or is sent.
LEMMA Reporting ==
    ASSUME Types, NEW res \in Snapshot, Report(res), events = <<>>, waiting = <<>>
    PROVE  /\ Len(events') + Len(waiting') <= 1
           /\ request = "streaming" => events' = events
<1>1. CASE request = "streaming"
    <2>1. waiting' = <<res>> /\ events' = events
        BY <1>1 DEF Report
    <2>2. Len(events') = 0 /\ Len(waiting') = 1
        BY <2>1
    <2>3. QED
        BY <2>1, <2>2
<1>2. CASE request # "streaming"
    <2>1. Send(kept, res) /\ waiting' = <<>>
        BY <1>2 DEF Report
    <2>2. Len(events') = Len(events) + 1
        BY <2>1, SendIs DEF Types
    <2>3. Len(events) = 0 /\ Len(waiting') = 0
        BY <2>1
    <2>4. QED
        BY <1>2, <2>2, <2>3
<1>3. QED
    BY <1>1, <1>2

\* The detached task: it held the only report, and the request is over.
LEMMA ReportingLater ==
    ASSUME Types, EventInv, RequestInv, ReportLater
    PROVE  /\ Len(events') = 1 /\ waiting' = <<>> /\ stage["request"] \in {"ended", "dropped"}
           /\ \A k \in DOMAIN events' : events'[k].req = Shown(capture["request"])
           /\ waiting # <<>> /\ UNCHANGED <<stage, capture, request>>
<1>1. /\ waiting # <<>> /\ notified /\ Send(Shown(capture["request"]), waiting[1])
      /\ waiting' = <<>> /\ UNCHANGED <<stage, capture, request>>
    BY DEF ReportLater, Ready, asked
<1>2. waiting[1] \in Snapshot /\ Len(waiting) \in Nat /\ Len(waiting) # 0
    BY <1>1, HeadTailProperties, EmptySeq DEF Types
<1>3. Shown(capture["request"]) \in Snapshot
    BY Snapshots DEF Types, Dir
<1>4. events = <<>>
    <2>1. Len(events) \in Nat /\ Len(events) + Len(waiting) <= 1
        BY DEF Types, EventInv
    <2>2. Len(events) = 0
        BY <1>2, <2>1
    <2>3. QED
        BY <2>2, EmptySeq DEF Types
<1>5. /\ Len(events') = Len(events) + 1
      /\ \A k \in DOMAIN events' :
            events'[k] = [req |-> Shown(capture["request"]), res |-> waiting[1]]
    BY <1>1, <1>2, <1>3, <1>4, SendIs
<1>6. Len(events) = 0
    BY <1>4
<1>7. QED
    BY <1>1, <1>5, <1>6 DEF RequestInv

\* There is one report, after the response has gone.
LEMMA EventStep ==
    ASSUME Types, \A e \in Dir : BodyInv(e) /\ CaptureInv(e), ArmedInv, RequestInv, EventInv,
           [Next]_vars
    PROVE  EventInv'
<1> "request" \in Dir /\ "response" \in Dir /\ \A d \in Dir : d = "request" \/ d = "response"
    BY DEF Dir
<1>1. ASSUME NEW e \in Dir,
             \/ \E n \in 1..MaxFrame : Collect(e, n)
             \/ \E how \in {"end", "failed"} : CollectEnds(e, how)
      PROVE  EventInv'
    BY <1>1, Collecting DEF EventInv
<1>2. ASSUME NEW e \in Dir, PullPrefix(e) \/ \E n \in 1..MaxFrame : PullFrame(e, n)
      PROVE  EventInv'
    <2>1. /\ UNCHANGED <<stage, waiting, events>>
          /\ \A f \in Dir : capture'[f].armed = capture[f].armed
        BY <1>2, Pulling
    <2>2. QED
        BY <2>1 DEF EventInv
<1>3. ASSUME NEW e \in Dir, (\E how \in {"end", "failed"} : PullEnd(e, how)) \/ DropBody(e)
      PROVE  EventInv'
    <2>1. /\ stage'[e] \in {"ended", "dropped"} /\ \A f \in Dir : f # e => stage'[f] = stage[f]
          /\ OnComplete(e)
        BY <1>3, Ending
    <2>2. /\ \A f \in Dir : capture'[f].armed = (capture[f].armed /\ f # e)
          /\ ~capture[e].armed => UNCHANGED told
          /\ e = "request" => UNCHANGED <<waiting, events>>
          /\ e = "response" /\ capture[e].armed => Report(Shown(capture[e]))
        BY <2>1, OnCompleteIs
    <2>3. CASE e = "request"
        BY <2>1, <2>2, <2>3 DEF EventInv
    <2>4. CASE e = "response" /\ ~capture[e].armed
        BY <2>1, <2>2, <2>4 DEF EventInv, told
    <2>5. CASE e = "response" /\ capture[e].armed
        <3>1. Shown(capture[e]) \in Snapshot
            BY Snapshots DEF Types
        <3>2. events = <<>> /\ waiting = <<>> /\ Report(Shown(capture[e]))
            BY <2>2, <2>5 DEF EventInv
        <3>3. Len(events') + Len(waiting') <= 1
            BY <3>1, <3>2, Reporting
        <3>4. QED
            BY <2>1, <2>2, <2>5, <3>3 DEF EventInv
    <2>6. QED
        BY <2>3, <2>4, <2>5
<1>4. CASE ForwardStreaming \/ \E b \in Seq(Byte) : ForwardBuffered(b)
    BY <1>4, Forwarding DEF EventInv
<1>5. ASSUME NEW b \in Seq(Byte), FinishBuffered(b) \/ (UpstreamFails /\ b = Own) PROVE EventInv'
    <2>1. /\ stage["response"] \in {"none", "complete", "exceeded"}
          /\ stage'["response"] = "stream" /\ UNCHANGED <<capture, waiting>>
          /\ Len(events') = Len(events) + 1
        BY <1>5, Finishing
    <2>2. events = <<>> /\ waiting = <<>> /\ ~capture["response"].armed
        BY <2>1 DEF EventInv, ArmedInv
    <2>3. Len(events') + Len(waiting') <= 1
        <3>1. Len(events) = 0 /\ Len(waiting') = 0
            BY <2>1, <2>2
        <3>2. QED
            BY <2>1, <3>1
    <2>4. QED
        BY <2>1, <2>2, <2>3 DEF EventInv
<1>6. CASE ResponseHead \/ StreamResponse
    BY <1>6, Answering DEF EventInv
<1>7. CASE Cancel
    <2>1. /\ stage["response"] \in {"none", "collect"} /\ stage'["response"] = "cancelled"
          /\ UNCHANGED <<capture, waiting, events>>
        BY <1>7 DEF Cancel, told
    <2>2. QED
        BY <2>1 DEF EventInv
<1>8. CASE ReportLater
    <2>1. /\ Len(events') = 1 /\ waiting' = <<>> /\ waiting # <<>> /\ UNCHANGED <<stage, capture>>
        BY <1>8, ReportingLater
    <2>2. Len(waiting') = 0
        BY <2>1
    <2>3. QED
        BY <2>1, <2>2 DEF EventInv
<1>9. CASE UNCHANGED vars
    BY <1>9 DEF vars, EventInv
<1>10. QED
    BY <1>1, <1>2, <1>3, <1>4, <1>5, <1>6, <1>7, <1>8, <1>9, Steps

\* The request that was reported from its capture does not change any more.
LEMMA FinalStep ==
    ASSUME Types, \A e \in Dir : BodyInv(e) /\ CaptureInv(e), ArmedInv, RequestInv, EventInv,
           RequestIsFinal, [Next]_vars
    PROVE  RequestIsFinal'
<1> "request" \in Dir /\ "response" \in Dir /\ \A d \in Dir : d = "request" \/ d = "response"
    BY DEF Dir
<1>1. ASSUME UNCHANGED <<capture, events>> PROVE RequestIsFinal'
    BY <1>1 DEF RequestIsFinal
<1>2. ASSUME ~capture'["response"].on PROVE RequestIsFinal'
    BY <1>2 DEF RequestIsFinal
<1>3. ASSUME NEW e \in Dir,
             \/ \E n \in 1..MaxFrame : Collect(e, n)
             \/ \E how \in {"end", "failed"} : CollectEnds(e, how)
      PROVE  RequestIsFinal'
    BY <1>1, <1>3, Collecting
<1>4. ASSUME NEW e \in Dir, PullPrefix(e) \/ \E n \in 1..MaxFrame : PullFrame(e, n)
      PROVE  RequestIsFinal'
    <2>1. /\ stage[e] = "stream" /\ UNCHANGED events
          /\ \A f \in Dir : capture'[f].on = capture[f].on /\ capture'[f].armed = capture[f].armed
          /\ \A f \in Dir : f # e => capture'[f] = capture[f]
        BY <1>4, Pulling
    <2>2. CASE e = "response"
        BY <2>1, <2>2 DEF RequestIsFinal
    <2>3. CASE e = "request"
        BY <2>1, <2>3 DEF RequestIsFinal, ArmedInv
    <2>4. QED
        BY <2>2, <2>3
<1>5. ASSUME NEW e \in Dir, (\E how \in {"end", "failed"} : PullEnd(e, how)) \/ DropBody(e)
      PROVE  RequestIsFinal'
    <2>1. stage[e] \in {"stream", "ended"} /\ OnComplete(e)
        BY <1>5, Ending
    <2>2. /\ \A f \in Dir : /\ Shown(capture'[f]) = Shown(capture[f])
                            /\ capture'[f].on = capture[f].on
                            /\ capture'[f].armed = (capture[f].armed /\ f # e)
          /\ ~capture[e].armed => UNCHANGED told
          /\ e = "request" => UNCHANGED <<waiting, events>>
          /\ e = "response" /\ capture[e].armed => Report(Shown(capture[e]))
        BY <2>1, OnCompleteIs
    <2>3. CASE events' = events
        BY <2>2, <2>3 DEF RequestIsFinal
    <2>4. CASE events' # events
        <3>1. e = "response" /\ capture[e].armed
            BY <2>2, <2>4 DEF told
        <3>2. events = <<>> /\ waiting = <<>> /\ Report(Shown(capture[e]))
            BY <2>2, <3>1 DEF EventInv
        <3>3. Shown(capture[e]) \in Snapshot
            BY Snapshots DEF Types
        <3>4. request # "streaming"
            BY <2>4, <3>2, <3>3, Reporting
        <3>5. capture["response"].on /\ stage["response"] = "stream"
            BY <3>1 DEF ArmedInv
        <3>6. ~capture["request"].on
            BY <3>4, <3>5 DEF RequestInv
        <3>7. QED
            BY <2>2, <3>6 DEF RequestIsFinal
    <2>5. QED
        BY <2>3, <2>4
<1>6. CASE ForwardStreaming \/ \E b \in Seq(Byte) : ForwardBuffered(b)
    <2>1. /\ stage["request"] \in {"complete", "exceeded", "failed"}
          /\ capture'["response"] = capture["response"]
        BY <1>6, Forwarding
    <2>2. ~capture'["response"].on
        BY <2>1 DEF RequestInv, ArmedInv
    <2>3. QED
        BY <1>2, <2>2
<1>7. ASSUME NEW b \in Seq(Byte), FinishBuffered(b) \/ (UpstreamFails /\ b = Own)
      PROVE  RequestIsFinal'
    <2>1. stage["response"] \in {"none", "complete", "exceeded"} /\ UNCHANGED capture
        BY <1>7, Finishing
    <2>2. ~capture'["response"].on
        BY <2>1 DEF ArmedInv
    <2>3. QED
        BY <1>2, <2>2
<1>8. CASE ResponseHead \/ StreamResponse
    <2>1. stage["response"] \in {"none", "exceeded", "failed"} /\ UNCHANGED events
        BY <1>8, Answering
    <2>2. events' = <<>>
        BY <2>1 DEF EventInv
    <2>3. QED
        BY <2>2 DEF RequestIsFinal
<1>9. CASE Cancel
    BY <1>1, <1>9 DEF Cancel, told
<1>10. CASE ReportLater
    <2>1. /\ stage["request"] \in {"ended", "dropped"} /\ UNCHANGED capture
          /\ \A k \in DOMAIN events' : events'[k].req = Shown(capture["request"])
        BY <1>10, ReportingLater
    <2>2. ~capture["request"].armed
        BY <2>1 DEF ArmedInv
    <2>3. QED
        BY <2>1, <2>2 DEF RequestIsFinal
<1>11. CASE UNCHANGED vars
    BY <1>1, <1>11 DEF vars
<1>12. QED
    BY <1>3, <1>4, <1>5, <1>6, <1>7, <1>8, <1>9, <1>10, <1>11, Steps

-----------------------------------------------------------------------------
(* The theorems.                                                           *)

\* The initial states satisfy the inductive invariant.
LEMMA InitIInv == Init => IInv
<1>1. SUFFICES ASSUME Init PROVE IInv
    OBVIOUS
<1> "request" \in Dir /\ "response" \in Dir /\ \A d \in Dir : d = "request" \/ d = "response"
    BY DEF Dir
<1>2. /\ Fresh \in Held /\ Off \in Held /\ ~Off.on /\ ~Off.armed /\ Fresh.on /\ Fresh.armed
      /\ Fresh.bytes = <<>> /\ Off.bytes = <<>> /\ Fresh.seen = 0 /\ ~Fresh.truncated
      /\ Complete(<<>>) \in Snapshot
    BY EmptySeq, Snapshots DEF Fresh, Off, Held
<1>3. /\ Len(<<>>) = 0 /\ 0 <= Limit /\ 0 \in 0..MaxBytes /\ Len(<<>>) <= 2
      /\ \A S : <<>> \in Seq(S)
    BY Bounds, EmptySeq
<1>4. PICK collects \in BOOLEAN :
          /\ stage = [request  |-> IF collects THEN "collect" ELSE "stream",
                      response |-> "none"]
          /\ capture = [request |-> IF collects THEN Off ELSE Fresh, response |-> Off]
          /\ request = IF collects THEN "none" ELSE "streaming"
    BY <1>1 DEF Init
<1>5. /\ scripted \in BOOLEAN
      /\ read = [d \in Dir |-> 0] /\ wire = [d \in Dir |-> "open"]
      /\ buffer = [d \in Dir |-> <<>>]
      /\ prefix = [d \in Dir |-> <<>>] /\ rest = [d \in Dir |-> "open"]
      /\ out = [d \in Dir |-> <<>>] /\ kept = Complete(<<>>)
      /\ notified = FALSE /\ waiting = <<>> /\ events = <<>>
    BY <1>1 DEF Init
<1>6. /\ stage["response"] = "none" /\ stage["request"] \in {"collect", "stream"}
      /\ capture["response"] = Off /\ capture["request"] \in {Off, Fresh}
      /\ stage["request"] = "stream" <=> capture["request"] = Fresh
      /\ stage["request"] = "stream" => request = "streaming"
      /\ request \in {"none", "streaming"}
    BY <1>2, <1>4
<1>7. Types
    <2>1. /\ stage \in [Dir -> {"none", "collect", "stream"}]
          /\ capture \in [Dir -> Held]
        BY <1>2, <1>4 DEF Dir
    <2>2. QED
        BY <1>2, <1>3, <1>5, <1>6, <2>1 DEF Types
<1>8. ASSUME NEW d \in Dir PROVE BodyInv(d) /\ CaptureInv(d)
    <2>1. Whole(d) = <<>> /\ Original(d)
        <3>1. Flat(<<>>) = <<>> /\ <<>> \o <<>> = <<>>
            BY Frames, ConcatEmptySeq, EmptySeq
        <3>2. Whole(d) = <<>>
            BY <1>5, <3>1 DEF Whole
        <3>3. QED
            BY <1>5, <3>2, NoBytes DEF Original
    <2>2. BodyInv(d)
        BY <1>5, <1>6, <2>1, NoBytes DEF BodyInv
    <2>3. CaptureInv(d)
        BY <1>2, <1>3, <1>5, <1>6 DEF CaptureInv, Faithful
    <2>4. QED
        BY <2>2, <2>3
<1>9. ArmedInv
    BY <1>2, <1>6 DEF ArmedInv
<1>10. RequestInv
    BY <1>2, <1>5, <1>6 DEF RequestInv
<1>11. EventInv
    BY <1>3, <1>5 DEF EventInv
<1>12. RequestIsFinal
    BY <1>2, <1>6 DEF RequestIsFinal
<1>13. QED
    BY <1>7, <1>8, <1>9, <1>10, <1>11, <1>12 DEF IInv

\* Whatever the peers send, the hooks replace, the receivers pull or drop and
\* the limit cuts, every state of the exchange satisfies the invariant.
THEOREM Invariance == Spec => []IInv
<1>1. Init => IInv
    BY InitIInv
<1>2. IInv /\ [Next]_vars => IInv'
    <2>1. SUFFICES ASSUME IInv, [Next]_vars PROVE IInv'
        OBVIOUS
    <2>2. /\ Types /\ \A d \in Dir : BodyInv(d) /\ CaptureInv(d)
          /\ ArmedInv /\ RequestInv /\ EventInv /\ RequestIsFinal
        BY <2>1 DEF IInv
    <2>3. Types' /\ \A d \in Dir : BodyInv(d)' /\ CaptureInv(d)'
        BY <2>1, <2>2, TypesStep, BodyStep, CaptureStep
    <2>4. ArmedInv' /\ RequestInv' /\ EventInv' /\ RequestIsFinal'
        BY <2>1, <2>2, ArmedStep, RequestStep, EventStep, FinalStep
    <2>5. QED
        BY <2>3, <2>4 DEF IInv, Dir
<1>3. QED
    BY <1>1, <1>2, PTL DEF Spec

\* collect_body, the hooks, the replay of what was collected and the stream
\* behind it pass every body on as it came, for every limit and size.
THEOREM PassedOnWholeHolds == Spec => []PassedOnWhole
<1>1. IInv => PassedOnWhole
    BY DEF IInv, BodyInv, PassedOnWhole, Original, Exchanged
<1>2. QED
    BY <1>1, Invariance, PTL

\* What BodyCapture and the detached task report is true: the captures are the
\* beginnings of what went through, reported once, when the request is over.
THEOREM ReportIsFaithfulHolds == Spec => []ReportIsFaithful
<1>1. IInv => TypeOK
    <2>1. ASSUME IInv, NEW d \in Dir
          PROVE  /\ Shown(capture[d]) \in Snapshot /\ Len(capture[d].bytes) <= Limit
                 /\ capture[d].on \in BOOLEAN /\ capture[d].armed \in BOOLEAN
        <3>1. capture[d] \in Held /\ CaptureInv(d)
            BY <2>1 DEF IInv, Types
        <3>2. QED
            BY <3>1, Snapshots DEF Held, CaptureInv
    <2>2. QED
        BY <2>1 DEF IInv, Types, TypeOK, Byte
<1>2. IInv => CaptureIsFaithful
    <2>1. SUFFICES ASSUME IInv, NEW d \in Dir, capture[d].on
          PROVE  /\ capture[d].bytes = SubSeq(out[d], 1, Len(capture[d].bytes))
                 /\ capture[d].seen = Len(out[d])
                 /\ capture[d].truncated <=> Len(capture[d].bytes) < Len(out[d])
        BY DEF CaptureIsFaithful
    <2>2. out[d] \in Seq(Byte) /\ Len(out[d]) \in Nat /\ Faithful(capture[d], out[d])
        BY <2>1 DEF IInv, Types, CaptureInv
    <2>3. CASE ~capture[d].truncated /\ capture[d].bytes = out[d]
        BY <2>2, <2>3, SubSeqFull DEF Faithful
    <2>4. CASE /\ capture[d].truncated /\ Len(out[d]) > Limit
               /\ capture[d].bytes = SubSeq(out[d], 1, Limit)
        <3>1. Limit <= Len(out[d])
            BY <2>2, <2>4, Bounds
        <3>2. Len(SubSeq(out[d], 1, Limit)) = Limit
            BY <2>2, <3>1, CutInTwo, Bounds
        <3>3. Len(capture[d].bytes) = Limit
            BY <2>4, <3>2
        <3>4. Limit < Len(out[d])
            BY <2>2, <2>4, Bounds
        <3>5. QED
            BY <2>2, <2>4, <3>3, <3>4 DEF Faithful
    <2>5. QED
        BY <2>2, <2>3, <2>4 DEF Faithful
<1>3. IInv => ReportedOnce /\ RequestIsFinal
    BY DEF IInv, EventInv, ReportedOnce
<1>4. IInv => ReportIsFaithful
    BY <1>1, <1>2, <1>3 DEF ReportIsFaithful
<1>5. QED
    BY <1>4, Invariance, PTL

-----------------------------------------------------------------------------
(* Intercept: the inductive invariant.                                     *)

Early   == {"idle", "arrived", "collect", "check", "register"}
Pausing == {"announce", "wait", "expired"}

\* A paused handler is either undecided and in the map, or decided and out of it.
Paused(f) ==
    \/ f \in pending /\ rx[f] = "open" /\ verdict[f] = "none"
    \/ f \notin pending /\ rx[f] \in Decision /\ verdict[f] = rx[f]

\* What a flow has emitted and how its entry and its receiver stand, by place.
FlowInv(f) ==
    /\ pc[f] \in Early =>
          f \notin pending /\ rx[f] = "none" /\ verdict[f] = "none" /\ trail[f] = <<>>
    /\ pc[f] \in Pausing => Paused(f)
    /\ pc[f] = "announce" => trail[f] = <<>>
    /\ pc[f] \in {"wait", "expired"} => trail[f] = <<"Intercepted">>
    /\ pc[f] = "upstream" =>
          /\ f \notin pending
          /\ rx[f] # "open"
          /\ \/ trail[f] = <<>>
             \/ trail[f] = <<"Intercepted">> /\ verdict[f] \in {"Forward", "Modified"}
    /\ pc[f] \in {"done", "cancelled"} =>
          /\ trail[f] \in Trails
          /\ rx[f] # "open"
          /\ f \in pending => rx[f] = "dropped" /\ verdict[f] = "none"

FlowsInv == \A f \in Flow : FlowInv(f)

PauseInv == PauseTypeOK /\ FlowsInv

\* Everything is quiet before the first request: both parts hold at the start.
LEMMA InitPauseInv == PauseInit => PauseInv
<1> SUFFICES ASSUME PauseInit PROVE PauseInv
    OBVIOUS
<1>1. PauseTypeOK
    <2>1. <<>> \in Seq(Kind)
        OBVIOUS
    <2>2. 0 \in 0..EventCap
        BY CapAssumption
    <2>3. trail \in [Flow -> Seq(Kind)]
        BY <2>1 DEF PauseInit
    <2>4. rx \in [Flow -> Decision \cup {"none", "open", "dropped"}]
        BY DEF PauseInit
    <2>5. QED
        BY <2>2, <2>3, <2>4 DEF PauseInit, PauseTypeOK, Location
<1>2. FlowsInv
    BY DEF PauseInit, FlowsInv, FlowInv, Location, Early, Pausing
<1>3. QED
    BY <1>1, <1>2 DEF PauseInv

-----------------------------------------------------------------------------
(* What try_send_event does to a trail.                                    *)

\* A dropped event changes nothing, a delivered one is the last of its flow.
LEMMA EmitEffect ==
    ASSUME PauseTypeOK, NEW f \in Flow, NEW k \in Kind, Emit(f, k)
    PROVE  /\ queued' \in 0..EventCap
           /\ trail' \in [Flow -> Seq(Kind)]
           /\ \A g \in Flow \ {f} : trail'[g] = trail[g]
           /\ trail'[f] \in {trail[f], Append(trail[f], k)}
<1>1. trail[f] \in Seq(Kind) /\ trail \in [Flow -> Seq(Kind)] /\ queued \in Nat
    BY DEF PauseTypeOK
<1>2. Append(trail[f], k) \in Seq(Kind)
    BY <1>1
<1>3. CASE HasRoom
    <2>1. queued' = queued + 1 /\ trail' = [trail EXCEPT ![f] = Append(trail[f], k)]
        BY <1>3 DEF Emit
    <2>2. queued' \in 0..EventCap
        BY <1>1, <1>3, <2>1, CapAssumption DEF HasRoom
    <2>3. QED
        BY <1>1, <1>2, <2>1, <2>2
<1>4. CASE ~HasRoom
    BY <1>1, <1>4 DEF Emit, PauseTypeOK
<1>5. QED
    BY <1>3, <1>4

\* The two trails the handler ever extends, extended.
LEMMA Extended ==
    ASSUME NEW k \in Kind
    PROVE  Append(<<>>, k) = <<k>> /\ Append(<<"Intercepted">>, k) = <<"Intercepted", k>>
<1>1. Append(<<>>, k) = <<k>>
    OBVIOUS
<1>2. Append(<<"Intercepted">>, k) = <<"Intercepted", k>>
    <2>1. <<"Intercepted">> \in Seq(Kind) /\ <<"Intercepted", k>> \in Seq(Kind)
        BY DEF Kind
    <2>2. /\ Append(<<"Intercepted">>, k) \in Seq(Kind)
          /\ Len(Append(<<"Intercepted">>, k)) = 2
        BY <2>1
    <2>3. \A i \in 1..2 : Append(<<"Intercepted">>, k)[i] = <<"Intercepted", k>>[i]
        BY <2>1
    <2>4. QED
        BY <2>1, <2>2, <2>3, SeqEqual
<1>3. QED
    BY <1>1, <1>2

\* A flow that ends with a terminal event keeps the invariant of every flow,
\* if it ends from a legal trail and leaves no live receiver.
LEMMA EndedFlow ==
    ASSUME PauseTypeOK, FlowsInv, NEW f \in Flow, NEW k \in {"Complete", "WebSocket"},
           Emit(f, k), pc' = [pc EXCEPT ![f] = "done"],
           UNCHANGED <<pending, verdict>>,
           \A g \in Flow \ {f} : rx'[g] = rx[g],
           trail[f] \in {<<>>, <<"Intercepted">>},
           rx'[f] # "open",
           f \in pending => rx'[f] = "dropped" /\ verdict[f] = "none"
    PROVE  FlowsInv'
<1>1. k \in Kind
    BY DEF Kind
<1>2. /\ \A g \in Flow \ {f} : trail'[g] = trail[g]
      /\ trail'[f] \in {trail[f], Append(trail[f], k)}
    BY <1>1, EmitEffect
<1>3. trail'[f] \in Trails
    BY <1>1, <1>2, Extended DEF Trails
<1>4. \A g \in Flow : pc'[g] = IF g = f THEN "done" ELSE pc[g]
    BY DEF PauseTypeOK
<1>5. ASSUME NEW g \in Flow \ {f} PROVE FlowInv(g)'
    BY <1>2, <1>4, <1>5 DEF FlowsInv, FlowInv, Paused
<1>6. FlowInv(f)'
    BY <1>3, <1>4 DEF FlowInv, Early, Pausing
<1>7. QED
    BY <1>5, <1>6 DEF FlowsInv

-----------------------------------------------------------------------------
(* One step keeps each part.                                               *)

\* Every operation of the interface and of the handler keeps the types.
LEMMA PauseTypeStep == PauseTypeOK /\ [PauseNext]_pauseVars => PauseTypeOK'
<1> SUFFICES ASSUME PauseTypeOK, [PauseNext]_pauseVars PROVE PauseTypeOK'
    OBVIOUS
<1> USE CapAssumption, ReplayAssumption DEF PauseTypeOK, Location, Decision, Kind
<1>1. CASE Consume
    BY <1>1 DEF Consume
<1>2. CASE OtherTraffic
    BY <1>2 DEF OtherTraffic, HasRoom
<1>3. ASSUME NEW u \in UI, NEW v \in BOOLEAN, SetEnabled(u, v) PROVE PauseTypeOK'
    BY <1>3 DEF SetEnabled
<1>4. ASSUME NEW u \in UI, Toggle(u) PROVE PauseTypeOK'
    BY <1>4 DEF Toggle
<1>5. ASSUME NEW u \in UI, DrainForward(u) PROVE PauseTypeOK'
    BY <1>5 DEF DrainForward, SendDecision
<1>6. ASSUME NEW u \in UI, NEW f \in Flow, NEW d \in Decision, Resolve(u, f, d) PROVE PauseTypeOK'
    BY <1>6 DEF Resolve, SendDecision, Take
<1>7. ASSUME NEW f \in Flow, Arrive(f) PROVE PauseTypeOK'
    BY <1>7 DEF Arrive
<1>8. ASSUME NEW f \in Flow, RuleResponds(f) PROVE PauseTypeOK'
    BY <1>8, EmitEffect DEF RuleResponds, Synthesize
<1>9. ASSUME NEW f \in Flow, ChooseBuffering(f) PROVE PauseTypeOK'
    BY <1>9 DEF ChooseBuffering
<1>10. ASSUME NEW f \in Flow, Collected(f) PROVE PauseTypeOK'
    BY <1>10 DEF Collected
<1>11. ASSUME NEW f \in Flow, CollectFailed(f) PROVE PauseTypeOK'
    BY <1>11 DEF CollectFailed
<1>12. ASSUME NEW f \in Flow, ScriptResponds(f) PROVE PauseTypeOK'
    BY <1>12, EmitEffect DEF ScriptResponds, Synthesize
<1>13. ASSUME NEW f \in Flow, CheckEnabled(f) PROVE PauseTypeOK'
    BY <1>13 DEF CheckEnabled
<1>14. ASSUME NEW f \in Flow, Register(f) PROVE PauseTypeOK'
    BY <1>14 DEF Register
<1>15. ASSUME NEW f \in Flow, Announce(f) PROVE PauseTypeOK'
    BY <1>15, EmitEffect DEF Announce
<1>16. ASSUME NEW f \in Flow, SkipIntercept(f) PROVE PauseTypeOK'
    BY <1>16 DEF SkipIntercept, Take
<1>17. ASSUME NEW f \in Flow, Released(f) PROVE PauseTypeOK'
    BY <1>17 DEF Released, Approved
<1>18. ASSUME NEW f \in Flow, RejectEdit(f) PROVE PauseTypeOK'
    BY <1>18, EmitEffect DEF RejectEdit, Synthesize
<1>19. ASSUME NEW f \in Flow, Blocked(f) PROVE PauseTypeOK'
    BY <1>19, EmitEffect DEF Blocked, Synthesize
<1>20. ASSUME NEW f \in Flow, Expire(f) PROVE PauseTypeOK'
    BY <1>20 DEF Expire
<1>21. ASSUME NEW f \in Flow, GiveUp(f) PROVE PauseTypeOK'
    BY <1>21, EmitEffect DEF GiveUp, Synthesize
<1>22. ASSUME NEW f \in Flow, NEW k \in {"Complete", "WebSocket"}, Finish(f, k) PROVE PauseTypeOK'
    BY <1>22, EmitEffect DEF Finish
<1>23. ASSUME NEW f \in Flow, CancelHandler(f) PROVE PauseTypeOK'
    BY <1>23 DEF CancelHandler
<1>24. CASE UNCHANGED pauseVars
    BY <1>24 DEF pauseVars
<1>25. QED
    BY <1>1, <1>2, <1>3, <1>4, <1>5, <1>6, <1>7, <1>8, <1>9, <1>10, <1>11, <1>12,
      <1>13, <1>14, <1>15, <1>16, <1>17, <1>18, <1>19, <1>20, <1>21, <1>22, <1>23,
      <1>24
      DEF PauseNext, UiStep, FlowStep, Progress

\* ... and what is known of each flow: the operations of the interface move
\* every flow they touch from undecided to decided, a handler moves only itself.
LEMMA FlowsStep == PauseTypeOK /\ FlowsInv /\ [PauseNext]_pauseVars => FlowsInv'
<1> SUFFICES ASSUME PauseTypeOK, FlowsInv, [PauseNext]_pauseVars PROVE FlowsInv'
    OBVIOUS
<1> USE ReplayAssumption
      DEF PauseTypeOK, Location, Decision, Kind, FlowsInv, FlowInv, Early, Pausing,
          Paused, Trails
<1>1. CASE Consume
    BY <1>1 DEF Consume
<1>2. CASE OtherTraffic
    BY <1>2 DEF OtherTraffic, HasRoom
<1>3. ASSUME NEW u \in UI, NEW v \in BOOLEAN, SetEnabled(u, v) PROVE FlowsInv'
    BY <1>3 DEF SetEnabled
<1>4. ASSUME NEW u \in UI, Toggle(u) PROVE FlowsInv'
    BY <1>4 DEF Toggle
<1>5. ASSUME NEW u \in UI, DrainForward(u) PROVE FlowsInv'
    BY <1>5 DEF DrainForward, SendDecision
<1>6. ASSUME NEW u \in UI, NEW f \in Flow, NEW d \in Decision, Resolve(u, f, d) PROVE FlowsInv'
    BY <1>6 DEF Resolve, SendDecision, Take
<1>7. ASSUME NEW f \in Flow, Arrive(f) PROVE FlowsInv'
    BY <1>7 DEF Arrive
<1>8. ASSUME NEW f \in Flow, RuleResponds(f) PROVE FlowsInv'
    <2>1. /\ pc' = [pc EXCEPT ![f] = "done"] /\ Emit(f, "Complete")
          /\ UNCHANGED <<pending, verdict>>
          /\ \A g \in Flow \ {f} : rx'[g] = rx[g]
        BY <1>8 DEF RuleResponds, Synthesize
    <2>2. /\ trail[f] \in {<<>>, <<"Intercepted">>} /\ rx'[f] # "open"
          /\ f \in pending => rx'[f] = "dropped" /\ verdict[f] = "none"
        BY <1>8 DEF RuleResponds, Synthesize
    <2>3. QED
        BY <2>1, <2>2, EndedFlow
<1>9. ASSUME NEW f \in Flow, ChooseBuffering(f) PROVE FlowsInv'
    BY <1>9 DEF ChooseBuffering
<1>10. ASSUME NEW f \in Flow, Collected(f) PROVE FlowsInv'
    BY <1>10 DEF Collected
<1>11. ASSUME NEW f \in Flow, CollectFailed(f) PROVE FlowsInv'
    BY <1>11 DEF CollectFailed
<1>12. ASSUME NEW f \in Flow, ScriptResponds(f) PROVE FlowsInv'
    <2>1. /\ pc' = [pc EXCEPT ![f] = "done"] /\ Emit(f, "Complete")
          /\ UNCHANGED <<pending, verdict>>
          /\ \A g \in Flow \ {f} : rx'[g] = rx[g]
        BY <1>12 DEF ScriptResponds, Synthesize
    <2>2. /\ trail[f] \in {<<>>, <<"Intercepted">>} /\ rx'[f] # "open"
          /\ f \in pending => rx'[f] = "dropped" /\ verdict[f] = "none"
        BY <1>12 DEF ScriptResponds, Synthesize
    <2>3. QED
        BY <2>1, <2>2, EndedFlow
<1>13. ASSUME NEW f \in Flow, CheckEnabled(f) PROVE FlowsInv'
    BY <1>13 DEF CheckEnabled
<1>14. ASSUME NEW f \in Flow, Register(f) PROVE FlowsInv'
    BY <1>14 DEF Register
<1>15. ASSUME NEW f \in Flow, Announce(f) PROVE FlowsInv'
    <2>1. trail' = [trail EXCEPT ![f] = <<"Intercepted">>]
        BY <1>15, Extended DEF Announce, Emit
    <2>2. QED
        BY <1>15, <2>1 DEF Announce
<1>16. ASSUME NEW f \in Flow, SkipIntercept(f) PROVE FlowsInv'
    BY <1>16 DEF SkipIntercept, Take
<1>17. ASSUME NEW f \in Flow, Released(f) PROVE FlowsInv'
    BY <1>17 DEF Released, Approved
<1>18. ASSUME NEW f \in Flow, RejectEdit(f) PROVE FlowsInv'
    <2>1. /\ pc' = [pc EXCEPT ![f] = "done"] /\ Emit(f, "Complete")
          /\ UNCHANGED <<pending, verdict>>
          /\ \A g \in Flow \ {f} : rx'[g] = rx[g]
        BY <1>18 DEF RejectEdit, Synthesize
    <2>2. /\ trail[f] \in {<<>>, <<"Intercepted">>} /\ rx'[f] # "open"
          /\ f \in pending => rx'[f] = "dropped" /\ verdict[f] = "none"
        BY <1>18 DEF RejectEdit, Synthesize
    <2>3. QED
        BY <2>1, <2>2, EndedFlow
<1>19. ASSUME NEW f \in Flow, Blocked(f) PROVE FlowsInv'
    <2>1. /\ pc' = [pc EXCEPT ![f] = "done"] /\ Emit(f, "Complete")
          /\ UNCHANGED <<pending, verdict>>
          /\ \A g \in Flow \ {f} : rx'[g] = rx[g]
        BY <1>19 DEF Blocked, Synthesize
    <2>2. /\ trail[f] \in {<<>>, <<"Intercepted">>} /\ rx'[f] # "open"
          /\ f \in pending => rx'[f] = "dropped" /\ verdict[f] = "none"
        BY <1>19 DEF Blocked, Synthesize
    <2>3. QED
        BY <2>1, <2>2, EndedFlow
<1>20. ASSUME NEW f \in Flow, Expire(f) PROVE FlowsInv'
    BY <1>20 DEF Expire
<1>21. ASSUME NEW f \in Flow, GiveUp(f) PROVE FlowsInv'
    <2>1. CASE f \in Replay
        <3>1. /\ pc' = [pc EXCEPT ![f] = "done"]
              /\ rx' = [rx EXCEPT ![f] = "dropped"]
              /\ UNCHANGED <<pending, verdict, trail>>
            BY <1>21, <2>1 DEF GiveUp
        <3>2. QED
            BY ZenonT(30), <1>21, <3>1 DEF GiveUp
    <2>2. CASE f \notin Replay
        <3>1. /\ pc' = [pc EXCEPT ![f] = "done"] /\ Emit(f, "Complete")
              /\ UNCHANGED <<pending, verdict>>
              /\ \A g \in Flow \ {f} : rx'[g] = rx[g]
            BY <1>21, <2>2 DEF GiveUp, Synthesize
        <3>2. /\ trail[f] \in {<<>>, <<"Intercepted">>} /\ rx'[f] # "open"
              /\ f \in pending => rx'[f] = "dropped" /\ verdict[f] = "none"
            BY <1>21 DEF GiveUp
        <3>3. QED
            BY <3>1, <3>2, EndedFlow
    <2>3. QED
        BY <2>1, <2>2
<1>22. ASSUME NEW f \in Flow, NEW k \in {"Complete", "WebSocket"}, Finish(f, k) PROVE FlowsInv'
    <2>1. /\ pc' = [pc EXCEPT ![f] = "done"] /\ Emit(f, k)
          /\ UNCHANGED <<pending, verdict>>
          /\ \A g \in Flow \ {f} : rx'[g] = rx[g]
        BY <1>22 DEF Finish
    <2>2. /\ trail[f] \in {<<>>, <<"Intercepted">>} /\ rx'[f] # "open"
          /\ f \in pending => rx'[f] = "dropped" /\ verdict[f] = "none"
        BY <1>22 DEF Finish
    <2>3. QED
        BY ZenonT(30), <2>1, <2>2, EndedFlow
<1>23. ASSUME NEW f \in Flow, CancelHandler(f) PROVE FlowsInv'
    BY ZenonT(30), <1>23 DEF CancelHandler
<1>24. CASE UNCHANGED pauseVars
    BY <1>24 DEF pauseVars
<1>25. QED
    BY <1>1, <1>2, <1>3, <1>4, <1>5, <1>6, <1>7, <1>8, <1>9, <1>10, <1>11, <1>12,
      <1>13, <1>14, <1>15, <1>16, <1>17, <1>18, <1>19, <1>20, <1>21, <1>22, <1>23,
      <1>24
      DEF PauseNext, UiStep, FlowStep, Progress

-----------------------------------------------------------------------------
(* The theorems.                                                           *)

\* IInv is an invariant: a flow is only ever where its trail, its entry in the
\* pending map and its oneshot agree.
THEOREM PauseInvariance == PauseSpec => []PauseInv
<1>1. PauseInv /\ [PauseNext]_pauseVars => PauseInv'
    BY PauseTypeStep, FlowsStep DEF PauseInv
<1>2. QED
    BY InitPauseInv, <1>1, PTL DEF PauseSpec

\* Types: the channel never holds more than its capacity, every flow has one place.
THEOREM PauseTypes == PauseSpec => []PauseTypeOK
  BY PauseInvariance, PTL DEF PauseInv

\* A paused handler that nobody has decided can always still be found in the map.
THEOREM WaiterReachableHolds == PauseSpec => []WaiterReachable
<1>1. PauseInv => WaiterReachable
    BY DEF PauseInv, FlowsInv, FlowInv, Paused, Pausing, WaiterReachable, Decision
<1>2. QED
    BY <1>1, PauseInvariance, PTL

\* A request announced as held goes upstream only after a Forward or a Modified.
THEOREM HeldUntilDecidedHolds == PauseSpec => []HeldUntilDecided
<1>1. PauseInv => HeldUntilDecided
    BY DEF PauseInv, FlowsInv, FlowInv, HeldUntilDecided, Announced
<1>2. QED
    BY <1>1, PauseInvariance, PTL

\* The events of one flow come out in one of the six legal orders.
THEOREM TrailOrderHolds == PauseSpec => []TrailOrder
<1>1. PauseInv => TrailOrder
    BY DEF PauseInv, PauseTypeOK, FlowsInv, FlowInv, TrailOrder, Trails, Location, Early, Pausing
<1>2. QED
    BY <1>1, PauseInvariance, PTL

\* What stays behind in the map was never let through.
THEOREM NoEntryBehindForwardedHolds == PauseSpec => []NoEntryBehindForwarded
<1>1. PauseInv => NoEntryBehindForwarded
    BY DEF PauseInv, PauseTypeOK, FlowsInv, FlowInv, NoEntryBehindForwarded, Paused, Pausing,
           Early, Location
<1>2. QED
    BY <1>1, PauseInvariance, PTL

\* The pause is safe, for any number of requests, replays and user interfaces.
THEOREM PauseIsSafeHolds == PauseSpec => []PauseIsSafe
  BY PauseTypes, WaiterReachableHolds, HeldUntilDecidedHolds, TrailOrderHolds,
     NoEntryBehindForwardedHolds, PTL DEF PauseIsSafe

\* A step that ends a client flow while the channel has room puts its end there.
LEMMA EndIsEmitted ==
    ASSUME PauseTypeOK, PauseNext, NEW f \in Flow \ Replay,
           pc[f] # "done", pc'[f] = "done", HasRoom
    PROVE  Len(trail'[f]) = Len(trail[f]) + 1
<1>1. SUFFICES \E k \in Kind : Emit(f, k)
    <2>1. PICK k \in Kind : Emit(f, k)
        BY <1>1
    <2>2. trail' = [trail EXCEPT ![f] = Append(trail[f], k)]
        BY <2>1 DEF Emit
    <2>3. trail[f] \in Seq(Kind) /\ trail'[f] = Append(trail[f], k)
        BY <2>2 DEF PauseTypeOK
    <2>4. QED
        BY <2>3
<1>2. PICK g \in Flow : FlowStep(g)
    BY DEF PauseNext, Consume, OtherTraffic, UiStep, SetEnabled, Toggle, DrainForward, Resolve
<1>3. /\ "Complete" \in Kind
      /\ {"Complete", "WebSocket"} \subseteq Kind
    BY DEF Kind
<1>4. CASE \E k \in {"Complete", "WebSocket"} : Finish(g, k)
    BY <1>3, <1>4 DEF Finish, PauseTypeOK
<1>5. CASE RuleResponds(g) \/ ScriptResponds(g) \/ RejectEdit(g) \/ Blocked(g)
    BY <1>3, <1>5 DEF RuleResponds, ScriptResponds, RejectEdit, Blocked, Synthesize, PauseTypeOK
<1>6. CASE GiveUp(g)
    BY <1>3, <1>6 DEF GiveUp, Synthesize, PauseTypeOK
<1>7. CASE \/ Arrive(g) \/ ChooseBuffering(g) \/ Collected(g) \/ CollectFailed(g)
           \/ CheckEnabled(g) \/ Register(g) \/ Announce(g) \/ SkipIntercept(g)
           \/ Released(g) \/ Expire(g) \/ CancelHandler(g)
    BY <1>7 DEF Arrive, ChooseBuffering, Collected, CollectFailed, CheckEnabled, Register,
                Announce, SkipIntercept, Released, Expire, CancelHandler, PauseTypeOK
<1>8. QED
    BY <1>2, <1>4, <1>5, <1>6, <1>7 DEF FlowStep, Progress

\* Every end of a client flow is visible, unless the channel is full.
THEOREM ClientFlowEndsVisiblyHolds == PauseSpec => ClientFlowEndsVisibly
<1>1. PauseTypeOK /\ [PauseNext]_pauseVars =>
        [\A f \in Flow \ Replay :
            pc[f] # "done" /\ pc'[f] = "done" /\ HasRoom
            => Len(trail'[f]) = Len(trail[f]) + 1]_pauseVars
    BY EndIsEmitted
<1>2. QED
    BY <1>1, PauseTypes, PTL DEF PauseSpec, ClientFlowEndsVisibly
=============================================================================
