----------------------------- MODULE TunnelProofs -----------------------------
(* Proofs about Tunnel for every set of connections, every length of the     *)
(* streams, every size of the pipes and every limit of the capture.          *)
EXTENDS Tunnel, SequenceTheorems, TLAPS

-----------------------------------------------------------------------------
(* The inductive invariant.                                                *)

Pipe == [n : 0..PipeCap, end : {"open", "eof", "error"}, read : BOOLEAN]

\* Movers in each direction: the relay, and a bridge for each side that has one.
N == 1 + (IF setup.client = "h2" THEN 1 ELSE 0) + (IF setup.server = "h2" THEN 1 ELSE 0)

Chunks == [units : SUBSET Nat, marks : Nat]

Capture == [total : Nat, captured : Nat, emitted : BOOLEAN, seen : Chunks, lost : Chunks]

Types ==
    /\ setup \in Setup
    /\ phase \in {"asked", "upgrade", "open", "over"}
    /\ answer \in {"none", "accepted", "refused"}
    /\ taken \in Dir \cup {"none"}
    /\ reported \in {"none", "connected", "closed"} /\ failed \in BOOLEAN
    /\ pipe \in [Dir -> [1..N + 1 -> Pipe]]
    /\ mover \in [Dir -> [1..N -> {"run", "done"}]]
    /\ sent \in [Dir -> Nat]
    /\ got \in [Dir -> [n : Nat, end : {"open", "eof", "error"}]]
    /\ capture \in [Dir -> Capture]

\* What is in a row of pipes.
Amount(p) ==
    p[1].n + p[2].n + (IF N >= 2 THEN p[3].n ELSE 0) + (IF N >= 3 THEN p[4].n ELSE 0)

\* A row of a connection nobody has reset: only an end that was passed on stops a
\* mover, nothing is dropped, and what was sent is in a pipe or has arrived.
Whole(p, m, s, g) ==
    /\ \A i \in 1..N + 1 : p[i].end # "error"
    /\ \A i \in 1..N : m[i] = "done" => p[i].n = 0 /\ p[i].end = "eof"
    /\ \A i \in 1..N : p[i + 1].end = "eof" => m[i] = "done"
    /\ \A i \in 1..N : ~p[i].read => m[i] = "done"
    /\ p[N + 1].read
    /\ g.end # "error"
    /\ g.end = "eof" => p[N + 1].n = 0 /\ p[N + 1].end = "eof"
    /\ Amount(p) + g.n = s

WholeInv ==
    setup.speaks = "raw" /\ ~failed =>
        \A d \in Dir : Whole(pipe[d], mover[d], sent[d], got[d])

\* How much of a stream is recorded, refused chunks included.
Kept(n) == IF n < MaxCapture THEN n ELSE MaxCapture

\* The counters of a copy say where the recording would stop and whether a chunk
\* has said so, which is what the next chunk is cut by, sent or not.
Accounted(c) ==
    /\ c.captured = Kept(c.total)
    /\ c.emitted <=> c.total > MaxCapture
    /\ c.lost.units \subseteq 1..Kept(c.total)
    /\ c.seen.units = (1..Kept(c.total)) \ c.lost.units
    /\ c.seen.marks + c.lost.marks = IF c.total > MaxCapture THEN 1 ELSE 0

CaptureInv == \A d \in Dir : Accounted(capture[d])

IInv == Types /\ WholeInv /\ CaptureInv

-----------------------------------------------------------------------------
\* How many movers a direction can have.
LEMMA SetupFacts ==
    ASSUME setup \in Setup
    PROVE  /\ setup.client \in {"tcp", "h2"} /\ setup.server \in {"tcp", "h2"}
           /\ setup.speaks \in {"raw", "ws"}
           /\ N \in 1..3
           /\ PipeCap \in Nat \ {0} /\ MaxCapture \in Nat \ {0}
BY SetupAssumption, CapAssumption DEF N

\* Short rows put together, which is how Movers lists them.
LEMMA Rows ==
    ASSUME NEW a, NEW b, NEW c
    PROVE  /\ <<>> \o <<b>> = <<b>> /\ <<b>> \o <<>> = <<b>>
           /\ <<a>> \o <<b>> = <<a, b>>
           /\ <<a, b>> \o <<>> = <<a, b>>
           /\ <<a, b>> \o <<c>> = <<a, b, c>>
<1> DEFINE S == {a, b, c}
           x == <<a>>
           y == <<b>>
           z == <<c>>
           xy == <<a, b>>
           xyz == <<a, b, c>>
<1>1. /\ x \in Seq(S) /\ Len(x) = 1 /\ x[1] = a
      /\ y \in Seq(S) /\ Len(y) = 1 /\ y[1] = b
      /\ z \in Seq(S) /\ Len(z) = 1 /\ z[1] = c
    OBVIOUS
<1>2. xy \in Seq(S) /\ Len(xy) = 2 /\ xy[1] = a /\ xy[2] = b
    OBVIOUS
<1>3. xyz \in Seq(S) /\ Len(xyz) = 3 /\ xyz[1] = a /\ xyz[2] = b /\ xyz[3] = c
    OBVIOUS
<1> HIDE DEF x, y, z, xy, xyz, S
<1>4. <<>> \o y = y /\ y \o <<>> = y /\ xy \o <<>> = xy
    BY <1>1, <1>2, ConcatEmptySeq
<1>5. x \o y = xy
    <2>1. x \o y \in Seq(S) /\ Len(x \o y) = 2 /\ (x \o y)[1] = a /\ (x \o y)[2] = b
        <3>1. /\ x \o y \in Seq(S) /\ Len(x \o y) = 2
              /\ \A i \in 1..2 : (x \o y)[i] = IF i <= 1 THEN x[i] ELSE y[i - 1]
            BY SMTT(30), <1>1, ConcatProperties
        <3>2. 1 \in 1..2 /\ 2 \in 1..2
            OBVIOUS
        <3>3. QED
            BY <1>1, <3>1, <3>2
    <2>2. \A i \in 1..2 : (x \o y)[i] = xy[i]
        BY <1>2, <2>1
    <2>3. QED
        BY <1>2, <2>1, <2>2, SeqEqual
<1>6. xy \o z = xyz
    <2>1. /\ xy \o z \in Seq(S) /\ Len(xy \o z) = 3
          /\ (xy \o z)[1] = a /\ (xy \o z)[2] = b /\ (xy \o z)[3] = c
        BY SMTT(30), <1>1, <1>2, ConcatProperties
    <2>2. \A i \in 1..3 : (xy \o z)[i] = xyz[i]
        BY <1>3, <2>1
    <2>3. QED
        BY <1>3, <2>1, <2>2, SeqEqual
<1>7. QED
    BY <1>4, <1>5, <1>6 DEF x, y, z, xy, xyz

\* Where each mover of a direction is.
LEMMA Places ==
    ASSUME setup \in Setup
    PROVE  /\ \A d \in Dir : Len(Movers(setup, d)) = N /\ DOMAIN Movers(setup, d) = 1..N
           /\ Place("up", "relay") = IF setup.client = "h2" THEN 2 ELSE 1
           /\ Place("down", "relay") = IF setup.server = "h2" THEN 2 ELSE 1
           /\ setup.client = "h2" => Place("up", "receive") = 1 /\ Place("down", "transmit") = N
           /\ setup.server = "h2" => Place("up", "send") = N /\ Place("down", "answer") = 1
<1>1. CASE setup.client = "h2" /\ setup.server = "h2"
    <2>1. Movers(setup, "up") = <<"receive", "relay", "send">>
        BY <1>1, Rows DEF Movers
    <2>2. Movers(setup, "down") = <<"answer", "relay", "transmit">>
        BY <1>1, Rows DEF Movers
    <2>3. N = 3
        BY <1>1 DEF N
    <2> HIDE DEF N
    <2>4. QED
        BY <1>1, <2>1, <2>2, <2>3 DEF Dir, Place
<1>2. CASE setup.client = "h2" /\ setup.server # "h2"
    <2>1. Movers(setup, "up") = <<"receive", "relay">>
        BY <1>2, Rows DEF Movers
    <2>2. Movers(setup, "down") = <<"relay", "transmit">>
        BY <1>2, Rows DEF Movers
    <2>3. N = 2
        BY <1>2 DEF N
    <2>4. QED
        BY <1>2, <2>1, <2>2, <2>3 DEF Dir, Place
<1>3. CASE setup.client # "h2" /\ setup.server = "h2"
    <2>1. Movers(setup, "up") = <<"relay", "send">>
        BY <1>3, Rows DEF Movers
    <2>2. Movers(setup, "down") = <<"answer", "relay">>
        BY <1>3, Rows DEF Movers
    <2>3. N = 2
        BY <1>3 DEF N
    <2>4. QED
        BY <1>3, <2>1, <2>2, <2>3 DEF Dir, Place
<1>4. CASE setup.client # "h2" /\ setup.server # "h2"
    <2>1. Movers(setup, "up") = <<"relay">> /\ Movers(setup, "down") = <<"relay">>
        BY <1>4, Rows DEF Movers
    <2>2. N = 1
        BY <1>4 DEF N
    <2>3. QED
        BY <1>4, <2>1, <2>2 DEF Dir, Place
<1>5. QED
    BY <1>1, <1>2, <1>3, <1>4

\* The relay has a pipe on either side, and stands next to the bridge there is.
LEMMA RelayPlace ==
    ASSUME setup \in Setup, NEW d \in Dir
    PROVE  /\ Place(d, "relay") \in 1..N /\ Place(d, "relay") + 1 \in 1..N + 1
           /\ setup.client = "h2" => N >= 2
           /\ setup.client = "h2" /\ d = "up" => Place(d, "relay") = 2
           /\ setup.server = "h2" /\ d = "down" => Place(d, "relay") = 2
           /\ setup.client = "h2" /\ d = "down" => Place(d, "relay") = N - 1
           /\ setup.server = "h2" /\ d = "up" => Place(d, "relay") = N - 1
<1>1. CASE setup.client = "h2" /\ setup.server = "h2"
    BY <1>1, Places DEF Dir, N
<1>2. CASE setup.client = "h2" /\ setup.server # "h2"
    BY <1>2, Places DEF Dir, N
<1>3. CASE setup.client # "h2" /\ setup.server = "h2"
    BY <1>3, Places DEF Dir, N
<1>4. CASE setup.client # "h2" /\ setup.server # "h2"
    BY <1>4, Places DEF Dir, N
<1>5. QED
    BY <1>1, <1>2, <1>3, <1>4

\* The last pipe of a row.
LEMMA LastIs ==
    ASSUME Types, NEW d \in Dir
    PROVE  Last(d) = N + 1 /\ N \in 1..3 /\ 1 \in 1..N + 1 /\ N + 1 \in 1..N + 1
<1>1. N \in 1..3
    BY SetupFacts DEF Types
<1>2. pipe[d] \in [1..N + 1 -> Pipe]
    BY DEF Types
<1> HIDE DEF N
<1>3. pipe[d] \in Seq(Pipe) /\ Len(pipe[d]) = N + 1
    BY <1>1, <1>2
<1>4. QED
    BY <1>1, <1>3 DEF Last

-----------------------------------------------------------------------------
(* One pipe, and one row of them.                                          *)

\* What shutting down a writer or dropping a reader does to a pipe.
LEMMA PipeFacts ==
    ASSUME NEW x \in Pipe, NEW e \in {"eof", "error"}
    PROVE  /\ x.n \in Nat /\ x.n <= PipeCap
           /\ Ended(x, e) \in Pipe /\ Ended(x, e).n = x.n /\ Ended(x, e).read = x.read
           /\ Ended(x, e).end = IF x.end = "open" THEN e ELSE x.end
           /\ Unread(x) \in Pipe /\ Unread(x).n = 0 /\ ~Unread(x).read /\ Unread(x).end = x.end
           /\ \A k \in 0..PipeCap : [x EXCEPT !.n = k] \in Pipe /\ [x EXCEPT !.n = k].n = k
                  /\ [x EXCEPT !.n = k].end = x.end /\ [x EXCEPT !.n = k].read = x.read
<1>1. PipeCap \in Nat
    BY CapAssumption
<1>2. x.n \in Nat /\ x.n <= PipeCap
    BY <1>1 DEF Pipe
<1>3. /\ Ended(x, e) \in Pipe /\ Ended(x, e).n = x.n /\ Ended(x, e).read = x.read
      /\ Ended(x, e).end = IF x.end = "open" THEN e ELSE x.end
    BY DEF Pipe, Ended
<1>4. Unread(x) \in Pipe /\ Unread(x).n = 0 /\ ~Unread(x).read /\ Unread(x).end = x.end
    <2>1. ASSUME NEW b \in BOOLEAN, NEW k \in 0..PipeCap
          PROVE  /\ [x EXCEPT !.read = b, !.n = k] \in Pipe
                 /\ [x EXCEPT !.read = b, !.n = k].n = k
                 /\ [x EXCEPT !.read = b, !.n = k].read = b
                 /\ [x EXCEPT !.read = b, !.n = k].end = x.end
        BY DEF Pipe
    <2>2. 0 \in 0..PipeCap /\ FALSE \in BOOLEAN
        BY <1>1
    <2>3. QED
        BY <2>1, <2>2 DEF Unread
<1>5. ASSUME NEW k \in 0..PipeCap
      PROVE  /\ [x EXCEPT !.n = k] \in Pipe /\ [x EXCEPT !.n = k].n = k
             /\ [x EXCEPT !.n = k].end = x.end /\ [x EXCEPT !.n = k].read = x.read
    BY DEF Pipe
<1>6. QED
    BY <1>2, <1>3, <1>4, <1>5

\* q is the row p but for k units that have moved from pipe i to the next.
MovedOn(q, p, i, k) ==
    /\ q \in [1..N + 1 -> Pipe]
    /\ q[i] = [p[i] EXCEPT !.n = p[i].n - k]
    /\ q[i + 1] = [p[i + 1] EXCEPT !.n = p[i + 1].n + k]
    /\ \A j \in 1..N + 1 : j \notin {i, i + 1} => q[j] = p[j]

\* Units that move on leave every other pipe alone.
LEMMA MoveRow ==
    ASSUME Types, NEW d \in Dir, NEW i \in 1..N, NEW k \in Nat,
           k <= pipe[d][i].n, pipe[d][i + 1].n + k <= PipeCap,
           pipe' = [pipe EXCEPT ![d][i].n = @ - k, ![d][i + 1].n = @ + k]
    PROVE  /\ pipe' \in [Dir -> [1..N + 1 -> Pipe]]
           /\ MovedOn(pipe'[d], pipe[d], i, k)
           /\ \A o \in Dir : o # d => pipe'[o] = pipe[o]
<1> DEFINE x == [pipe[d][i] EXCEPT !.n = pipe[d][i].n - k]
           y == [pipe[d][i + 1] EXCEPT !.n = pipe[d][i + 1].n + k]
<1>1. N \in 1..3 /\ i \in 1..N + 1 /\ i + 1 \in 1..N + 1 /\ i # i + 1 /\ PipeCap \in Nat
    BY SetupFacts DEF Types
<1>2. pipe \in [Dir -> [1..N + 1 -> Pipe]] /\ pipe[d][i] \in Pipe /\ pipe[d][i + 1] \in Pipe
    BY <1>1 DEF Types
<1>3. pipe[d][i].n - k \in 0..PipeCap /\ pipe[d][i + 1].n + k \in 0..PipeCap
    BY SMTT(30), <1>1, <1>2, PipeFacts
<1>4. x \in Pipe /\ y \in Pipe
    BY <1>2, <1>3, PipeFacts
<1> DEFINE u == [pipe[d] EXCEPT ![i] = x, ![i + 1] = y]
<1>5. pipe' = [pipe EXCEPT ![d] = u]
    BY <1>1, <1>2
<1> HIDE DEF x, y, N
<1>6. /\ u \in [1..N + 1 -> Pipe] /\ u[i] = x /\ u[i + 1] = y
      /\ \A j \in 1..N + 1 : j \notin {i, i + 1} => u[j] = pipe[d][j]
    BY <1>1, <1>2, <1>4
<1> HIDE DEF u
<1>7. /\ pipe' \in [Dir -> [1..N + 1 -> Pipe]]
      /\ pipe'[d] = u
      /\ \A o \in Dir : o # d => pipe'[o] = pipe[o]
    BY <1>2, <1>5, <1>6
<1>8. QED
    BY <1>6, <1>7 DEF MovedOn, x, y

\* A pipe put in its place leaves every other alone.
LEMMA PutRow ==
    ASSUME Types, NEW d \in Dir, NEW i \in 1..N + 1, NEW x \in Pipe,
           NEW p \in [Dir -> [1..N + 1 -> Pipe]]
    PROVE  LET q == [p EXCEPT ![d][i] = x]
           IN /\ q \in [Dir -> [1..N + 1 -> Pipe]]
              /\ q[d][i] = x
              /\ \A j \in 1..N + 1 : j # i => q[d][j] = p[d][j]
              /\ \A o \in Dir : o # d => q[o] = p[o]
<1> DEFINE u == [p[d] EXCEPT ![i] = x]
           q == [p EXCEPT ![d] = u]
<1> HIDE DEF N
<1>1. p[d] \in [1..N + 1 -> Pipe]
    OBVIOUS
<1>2. /\ u \in [1..N + 1 -> Pipe] /\ u[i] = x
      /\ \A j \in 1..N + 1 : j # i => u[j] = p[d][j]
    BY <1>1
<1>3. [p EXCEPT ![d][i] = x] = q
    OBVIOUS
<1> HIDE DEF u
<1>4. /\ q \in [Dir -> [1..N + 1 -> Pipe]] /\ q[d] = u
      /\ \A o \in Dir : o # d => q[o] = p[o]
    BY <1>2
<1>5. QED
    BY <1>2, <1>3, <1>4

\* Both streams of the relay are dropped.
LEMMA DroppedRows ==
    ASSUME Types
    PROVE  /\ Dropped(pipe) \in [Dir -> [1..N + 1 -> Pipe]]
           /\ RelayStopped(mover) \in [Dir -> [1..N -> {"run", "done"}]]
           /\ \A d \in Dir :
                 LET i == Place(d, "relay")
                     q == Dropped(pipe)[d]
                 IN /\ q[i] = Unread(pipe[d][i]) /\ q[i + 1] = Ended(pipe[d][i + 1], "eof")
                    /\ \A j \in 1..N + 1 : j \notin {i, i + 1} => q[j] = pipe[d][j]
                    /\ RelayStopped(mover)[d] = [mover[d] EXCEPT ![i] = "done"]
<1>1. setup \in Setup /\ pipe \in [Dir -> [1..N + 1 -> Pipe]]
      /\ mover \in [Dir -> [1..N -> {"run", "done"}]] /\ N \in 1..3
    BY SetupFacts DEF Types
<1> HIDE DEF N
<1>2. ASSUME NEW d \in Dir
      PROVE  LET i == Place(d, "relay")
                 q == [pipe[d] EXCEPT ![i] = Unread(@), ![i + 1] = Ended(@, "eof")]
             IN /\ i \in 1..N
                /\ q \in [1..N + 1 -> Pipe]
                /\ q[i] = Unread(pipe[d][i]) /\ q[i + 1] = Ended(pipe[d][i + 1], "eof")
                /\ \A j \in 1..N + 1 : j \notin {i, i + 1} => q[j] = pipe[d][j]
    <2> DEFINE i == Place(d, "relay")
    <2>1. i \in 1..N /\ i \in 1..N + 1 /\ i + 1 \in 1..N + 1 /\ i # i + 1
        BY <1>1, RelayPlace
    <2> HIDE DEF i
    <2>2. pipe[d] \in [1..N + 1 -> Pipe] /\ pipe[d][i] \in Pipe /\ pipe[d][i + 1] \in Pipe
        BY <1>1, <2>1
    <2> DEFINE x == Unread(pipe[d][i])
               y == Ended(pipe[d][i + 1], "eof")
    <2>3. x \in Pipe /\ y \in Pipe
        BY <2>2, PipeFacts
    <2>4. [pipe[d] EXCEPT ![i] = Unread(@), ![i + 1] = Ended(@, "eof")]
              = [pipe[d] EXCEPT ![i] = x, ![i + 1] = y]
        BY <2>1, <2>2
    <2> HIDE DEF x, y
    <2> DEFINE q == [pipe[d] EXCEPT ![i] = x, ![i + 1] = y]
    <2>5. /\ q \in [1..N + 1 -> Pipe] /\ q[i] = x /\ q[i + 1] = y
          /\ \A j \in 1..N + 1 : j \notin {i, i + 1} => q[j] = pipe[d][j]
        BY <2>1, <2>2, <2>3
    <2>6. QED
        BY <2>1, <2>4, <2>5 DEF i, x, y
<1>3. \A d \in Dir : [mover[d] EXCEPT ![Place(d, "relay")] = "done"] \in [1..N -> {"run", "done"}]
    BY <1>1
<1>4. QED
    BY <1>2, <1>3 DEF Dropped, RelayStopped

-----------------------------------------------------------------------------
(* Types.                                                                  *)

\* Dropping both streams of the relay keeps the types.
LEMMA OverTypes ==
    ASSUME Types, Over, UNCHANGED <<setup, sent, got, capture>>,
           answer' \in {"none", "accepted", "refused"},
           reported' \in {"none", "connected", "closed"}, failed' \in BOOLEAN
    PROVE  Types'
BY DroppedRows DEF Types, Over, N

\* So does whatever changes only what the connections hold.
LEMMA PipeTypes ==
    ASSUME Types, pipe' \in [Dir -> [1..N + 1 -> Pipe]],
           mover' \in [Dir -> [1..N -> {"run", "done"}]],
           UNCHANGED <<setup, phase, answer, reported>>,
           capture' \in [Dir -> Capture], taken' \in Dir \cup {"none"}, failed' \in BOOLEAN,
           sent' \in [Dir -> Nat], got' \in [Dir -> [n : Nat, end : {"open", "eof", "error"}]]
    PROVE  Types'
BY DEF Types, N

\* ... each way of opening or refusing,
LEMMA OpeningTypes ==
    ASSUME Types, Opening
    PROVE  Types'
<1>1. CASE Accept
    BY <1>1 DEF Accept, Types, N
<1>2. CASE Refuse
    BY <1>2, OverTypes DEF Refuse, Types
<1>3. CASE AcceptWebSocket
    BY <1>3 DEF AcceptWebSocket, Types, N
<1>4. CASE Upgraded
    BY <1>4 DEF Upgraded, Types, N
<1>5. CASE UpgradeFails
    BY <1>5, OverTypes DEF UpgradeFails, Types
<1>6. CASE Connect
    BY <1>6 DEF Connect, Types, N
<1>7. CASE ConnectFails
    BY <1>7, OverTypes DEF ConnectFails, Types
<1>8. QED
    BY <1>1, <1>2, <1>3, <1>4, <1>5, <1>6, <1>7 DEF Opening

\* What a pipe a mover reads, and the one it writes, are.
LEMMA PipesOf ==
    ASSUME Types, NEW d \in Dir, NEW i \in 1..N
    PROVE  /\ i \in 1..N + 1 /\ i + 1 \in 1..N + 1 /\ i # i + 1 /\ N \in 1..3
           /\ pipe[d][i] \in Pipe /\ pipe[d][i + 1] \in Pipe
           /\ pipe[d][i].n \in Nat /\ pipe[d][i + 1].n \in Nat
           /\ pipe[d][i].n <= PipeCap /\ pipe[d][i + 1].n <= PipeCap
<1>1. N \in 1..3
    BY SetupFacts DEF Types
<1>2. pipe[d] \in [1..N + 1 -> Pipe]
    BY DEF Types
<1> HIDE DEF N
<1>3. i \in 1..N + 1 /\ i + 1 \in 1..N + 1 /\ i # i + 1
    BY <1>1
<1>4. pipe[d][i] \in Pipe /\ pipe[d][i + 1] \in Pipe
    BY <1>2, <1>3
<1>5. QED
    BY <1>1, <1>3, <1>4, PipeFacts

\* ... what the two sides do,
LEMMA SidesTypes ==
    ASSUME Types, Sides
    PROVE  Types'
<1>1. PICK d \in Dir : Send(d) \/ End(d) \/ ResetBy(d) \/ Take(d)
    BY DEF Sides
<1>2. Last(d) = N + 1 /\ Last(Other(d)) = N + 1 /\ Other(d) \in Dir /\ 1 \in 1..N + 1 /\ N + 1 \in 1..N + 1
    BY LastIs DEF Dir, Other
<1>3. /\ pipe \in [Dir -> [1..N + 1 -> Pipe]] /\ pipe[d][1] \in Pipe /\ pipe[d][N + 1] \in Pipe
      /\ mover \in [Dir -> [1..N -> {"run", "done"}]] /\ got[d].n \in Nat
      /\ sent \in [Dir -> Nat] /\ got \in [Dir -> [n : Nat, end : {"open", "eof", "error"}]]
      /\ taken \in Dir \cup {"none"} /\ failed \in BOOLEAN /\ capture \in [Dir -> Capture]
    <2>1. pipe \in [Dir -> [1..N + 1 -> Pipe]]
        BY DEF Types
    <2>2. pipe[d][1] \in Pipe /\ pipe[d][N + 1] \in Pipe
        BY <1>2, <2>1
    <2>3. got[d].n \in Nat
        BY DEF Types
    <2>4. QED
        BY <2>1, <2>2, <2>3 DEF Types
<1>4. PipeCap \in Nat /\ pipe[d][1].n \in Nat /\ pipe[d][N + 1].n \in Nat /\ pipe[d][N + 1].n <= PipeCap
    BY <1>3, PipeFacts, CapAssumption
<1> HIDE DEF N
<1>5. ASSUME NEW x \in Pipe, NEW j \in 1..N + 1 PROVE [pipe EXCEPT ![d][j] = x] \in [Dir -> [1..N + 1 -> Pipe]]
    BY <1>3, PutRow
<1>6. CASE Send(d)
    <2> DEFINE x == [pipe[d][1] EXCEPT !.n = pipe[d][1].n + 1]
    <2>1. pipe[d][1].n + 1 \in 0..PipeCap
        BY <1>4, <1>6 DEF Send
    <2>2. x \in Pipe
        BY <1>3, <2>1, PipeFacts
    <2>3. [pipe EXCEPT ![d][1].n = @ + 1] = [pipe EXCEPT ![d][1] = x]
        BY <1>2, <1>3
    <2> HIDE DEF x
    <2>4. pipe' \in [Dir -> [1..N + 1 -> Pipe]]
        BY <1>2, <1>3, <1>5, <1>6, <2>2, <2>3 DEF Send
    <2>5. sent' \in [Dir -> Nat]
        BY <1>3, <1>6 DEF Send
    <2>6. QED
        BY <1>3, <1>6, <2>4, <2>5, PipeTypes DEF Send, Proxy
<1>7. CASE End(d)
    <2>1. Ended(pipe[d][1], "eof") \in Pipe
        BY <1>3, PipeFacts
    <2>2. pipe' = [pipe EXCEPT ![d][1] = Ended(pipe[d][1], "eof")]
        BY <1>2, <1>3, <1>7 DEF End
    <2>3. pipe' \in [Dir -> [1..N + 1 -> Pipe]]
        BY <1>2, <1>5, <2>1, <2>2
    <2>4. QED
        BY <1>3, <1>7, <2>3, PipeTypes DEF End, Proxy
<1>8. CASE ResetBy(d)
    <2> DEFINE x == [Ended(pipe[d][1], "error") EXCEPT !.n = 0]
               y == Unread(pipe[Other(d)][N + 1])
               q == [pipe EXCEPT ![d][1] = x]
    <2>1. x \in Pipe
        <3>1. Ended(pipe[d][1], "error") \in Pipe /\ 0 \in 0..PipeCap
            BY <1>3, <1>4, PipeFacts
        <3>2. QED
            BY <3>1, PipeFacts
    <2>2. y \in Pipe
        BY <1>2, <1>3, PipeFacts
    <2>3. Other(d) # d
        BY DEF Other, Dir
    <2>4. pipe' = [q EXCEPT ![Other(d)][N + 1] = y]
        BY <1>2, <1>3, <1>8, <2>3 DEF ResetBy
    <2> HIDE DEF x, y
    <2>5. q \in [Dir -> [1..N + 1 -> Pipe]]
        BY <1>2, <1>5, <2>1
    <2> HIDE DEF q
    <2>6. pipe' \in [Dir -> [1..N + 1 -> Pipe]]
        BY <1>2, <2>2, <2>4, <2>5, PutRow
    <2>7. QED
        BY <1>3, <1>8, <2>6, PipeTypes DEF ResetBy, Proxy
<1>9. CASE Take(d)
    <2> DEFINE x == [pipe[d][N + 1] EXCEPT !.n = pipe[d][N + 1].n - 1]
    <2>1. CASE UNCHANGED pipe /\ got' = [got EXCEPT ![d].end = pipe[d][N + 1].end]
        <3>1. pipe[d][N + 1].end \in {"open", "eof", "error"}
            BY <1>3 DEF Pipe
        <3>2. got' \in [Dir -> [n : Nat, end : {"open", "eof", "error"}]]
            BY <1>3, <2>1, <3>1
        <3>3. QED
            BY <1>3, <1>9, <2>1, <3>2, PipeTypes DEF Take, Proxy
    <2>2. CASE /\ pipe[d][N + 1].n > 0 /\ pipe' = [pipe EXCEPT ![d][N + 1].n = @ - 1]
               /\ got' = [got EXCEPT ![d].n = @ + 1]
        <3>1. pipe[d][N + 1].n - 1 \in 0..PipeCap
            BY <1>4, <2>2
        <3>2. x \in Pipe
            BY <1>3, <3>1, PipeFacts
        <3>3. pipe' = [pipe EXCEPT ![d][N + 1] = x]
            BY <1>2, <1>3, <2>2
        <3> HIDE DEF x
        <3>4. pipe' \in [Dir -> [1..N + 1 -> Pipe]]
            BY <1>2, <1>5, <3>2, <3>3
        <3>5. got' \in [Dir -> [n : Nat, end : {"open", "eof", "error"}]]
            <4> DEFINE k == got[d].n + 1
            <4>1. k \in Nat /\ got' = [got EXCEPT ![d].n = k]
                BY <1>3, <2>2
            <4> HIDE DEF k
            <4>2. QED
                BY <1>3, <4>1
        <3>6. QED
            BY <1>3, <1>9, <3>4, <3>5, PipeTypes DEF Take, Proxy
    <2>3. QED
        BY <1>2, <1>9, <2>1, <2>2 DEF Take
<1>10. QED
    BY <1>1, <1>6, <1>7, <1>8, <1>9

\* What k more units add to the beginning that is recorded follows what it holds.
LEMMA BeginningGrows ==
    ASSUME NEW n \in Nat, NEW k \in Nat \ {0}, MaxCapture \in Nat \ {0}
    PROVE  LET units == n + 1..n + (Kept(n + k) - Kept(n))
           IN /\ 1..Kept(n + k) = (1..Kept(n)) \cup units
              /\ (1..Kept(n)) \cap units = {}
<1> DEFINE units == n + 1..n + (Kept(n + k) - Kept(n))
<1>1. CASE n < MaxCapture
    <2>1. Kept(n) = n /\ Kept(n + k) \in Nat /\ Kept(n + k) >= n
        BY <1>1 DEF Kept
    <2>2. n + (Kept(n + k) - Kept(n)) = Kept(n + k)
        BY <2>1
    <2>3. units = n + 1..Kept(n + k)
        BY <2>2
    <2> HIDE DEF units
    <2>4. QED
        BY <2>1, <2>3 DEF units
<1>2. CASE ~(n < MaxCapture)
    <2>1. Kept(n) = MaxCapture /\ Kept(n + k) = MaxCapture
        BY <1>2 DEF Kept
    <2>2. units = {}
        BY <2>1
    <2>3. QED
        BY <2>1, <2>2
<1>3. QED
    BY <1>1, <1>2

\* What k more units do to a recording, whether the event channel has room or not.
LEMMA CopiedFacts ==
    ASSUME Types, CaptureInv, NEW d \in Dir, NEW k \in Nat \ {0}, NEW room \in BOOLEAN
    PROVE  Copied(d, k, room) \in Capture /\ Accounted(Copied(d, k, room))
<1> DEFINE c == capture[d]
           remaining == MaxCapture - c.captured
           length == IF k < remaining THEN k ELSE remaining
           truncated == length < k \/ remaining = 0
           units == c.total + 1..c.total + length
           chunk == [units |-> units, marks |-> IF truncated THEN 1 ELSE 0]
           next == [total |-> c.total + k,
                    captured |-> c.captured + length,
                    emitted |-> c.emitted \/ truncated,
                    seen |-> IF room THEN With(c.seen, chunk) ELSE c.seen,
                    lost |-> IF room THEN c.lost ELSE With(c.lost, chunk)]
           silent == [c EXCEPT !.total = @ + k]
<1>1. MaxCapture \in Nat \ {0} /\ c \in Capture /\ Accounted(c)
    BY CapAssumption DEF Types, CaptureInv
<1>2. Copied(d, k, room) = IF length = 0 /\ c.emitted THEN silent ELSE next
    BY DEF Copied
<1> HIDE DEF c
<1>3. /\ c.total \in Nat /\ c.captured \in Nat /\ c.emitted \in BOOLEAN
      /\ c.seen \in Chunks /\ c.lost \in Chunks
      /\ c.captured = Kept(c.total) /\ (c.emitted <=> c.total > MaxCapture)
      /\ c.seen.marks + c.lost.marks = IF c.total > MaxCapture THEN 1 ELSE 0
    BY <1>1 DEF Capture, Accounted
<1>4. /\ length \in Nat /\ c.captured + length = Kept(c.total + k)
      /\ length = Kept(c.total + k) - Kept(c.total)
      /\ truncated \in BOOLEAN /\ (truncated <=> c.total + k > MaxCapture)
      /\ length = 0 <=> c.total >= MaxCapture
      /\ c.total + k \in Nat
    BY <1>1, <1>3 DEF Kept
<1>5. units \in SUBSET Nat
    BY <1>3, <1>4
<1> HIDE DEF remaining, length, truncated, units
<1>6. CASE length = 0 /\ c.emitted
    <2>1. /\ silent \in Capture /\ silent.total = c.total + k /\ silent.captured = c.captured
          /\ silent.emitted = c.emitted /\ silent.seen = c.seen /\ silent.lost = c.lost
        BY <1>1, <1>4 DEF Capture
    <2>2. Kept(c.total + k) = Kept(c.total) /\ c.total > MaxCapture /\ c.total + k > MaxCapture
        BY <1>1, <1>3, <1>4, <1>6 DEF Kept
    <2> HIDE DEF silent
    <2>3. Accounted(silent)
        BY <1>1, <2>1, <2>2 DEF Accounted
    <2>4. QED
        BY <1>2, <1>6, <2>1, <2>3
<1>7. CASE ~(length = 0 /\ c.emitted)
    <2>1. ~c.emitted
        BY <1>1, <1>3, <1>4, <1>7
    <2> DEFINE seen == IF room THEN c.seen.units \cup units ELSE c.seen.units
               lost == IF room THEN c.lost.units ELSE c.lost.units \cup units
    <2>2. chunk.units = units /\ chunk.marks = (IF truncated THEN 1 ELSE 0) /\ chunk \in Chunks
        BY <1>5 DEF Chunks
    <2> HIDE DEF chunk
    <2>3. /\ With(c.seen, chunk) \in Chunks /\ With(c.lost, chunk) \in Chunks
          /\ With(c.seen, chunk).units = c.seen.units \cup units
          /\ With(c.lost, chunk).units = c.lost.units \cup units
          /\ With(c.seen, chunk).marks = c.seen.marks + chunk.marks
          /\ With(c.lost, chunk).marks = c.lost.marks + chunk.marks
        BY <1>3, <2>2 DEF With, Chunks
    <2>4. /\ next \in Capture
          /\ next.total = c.total + k /\ next.captured = Kept(c.total + k)
          /\ next.emitted <=> c.total + k > MaxCapture
          /\ next.seen = IF room THEN With(c.seen, chunk) ELSE c.seen
          /\ next.lost = IF room THEN c.lost ELSE With(c.lost, chunk)
        BY <1>3, <1>4, <2>1, <2>3 DEF Capture
    <2> HIDE DEF next
    <2>5. /\ 1..Kept(c.total + k) = (1..Kept(c.total)) \cup units
          /\ (1..Kept(c.total)) \cap units = {}
        <3>1. units = c.total + 1..c.total + (Kept(c.total + k) - Kept(c.total))
            BY <1>4 DEF units
        <3>2. QED
            BY <1>1, <1>3, <3>1, BeginningGrows
    <2>6. lost \subseteq 1..Kept(c.total + k) /\ seen = (1..Kept(c.total + k)) \ lost
        <3> DEFINE A == 1..Kept(c.total)
                   B == 1..Kept(c.total + k)
        <3>1. /\ B = A \cup units /\ A \cap units = {}
              /\ c.lost.units \subseteq A /\ c.seen.units = A \ c.lost.units
            BY <1>1, <2>5 DEF Accounted
        <3> HIDE DEF A, B
        <3>2. lost \subseteq B /\ seen = B \ lost
            BY <3>1
        <3>3. QED
            BY <3>2 DEF B
    <2>7. next.seen.units = seen /\ next.lost.units = lost
        BY <2>3, <2>4
    <2>8. next.seen.marks + next.lost.marks = IF c.total + k > MaxCapture THEN 1 ELSE 0
        <3>1. c.seen.marks = 0 /\ c.lost.marks = 0
            BY <1>3, <2>1 DEF Chunks
        <3>2. chunk.marks = IF c.total + k > MaxCapture THEN 1 ELSE 0
            BY <1>4, <2>2
        <3>3. QED
            BY <2>3, <2>4, <3>1, <3>2
    <2> HIDE DEF seen, lost
    <2>9. Accounted(next)
        BY <2>4, <2>6, <2>7, <2>8 DEF Accounted
    <2>10. QED
        BY <1>2, <1>7, <2>4, <2>9
<1>8. QED
    BY <1>6, <1>7

\* Only a copy records, and what it records stays accounted for.
LEMMA CaptureStep ==
    ASSUME Types, CaptureInv, [Next]_vars
    PROVE  CaptureInv' /\ capture' \in [Dir -> Capture]
<1>1. capture \in [Dir -> Capture]
    BY DEF Types
<1>2. CASE UNCHANGED capture
    BY <1>1, <1>2 DEF CaptureInv
<1>3. ASSUME NEW d \in Dir, Copy(d)
      PROVE  CaptureInv' /\ capture' \in [Dir -> Capture]
    <2>1. Place(d, "relay") \in 1..N
        BY RelayPlace DEF Types
    <2>2. PICK k \in 1..pipe[d][Place(d, "relay")].n, room \in BOOLEAN :
              capture' = [capture EXCEPT ![d] = Copied(d, k, room)]
        BY <1>3 DEF Copy
    <2>3. k \in Nat \ {0}
        <3>1. pipe[d][Place(d, "relay")].n \in Nat
            BY <2>1, PipesOf
        <3>2. QED
            BY <3>1
    <2> DEFINE c == Copied(d, k, room)
    <2>4. c \in Capture /\ Accounted(c)
        BY <2>3, CopiedFacts
    <2>5. capture' = [capture EXCEPT ![d] = c]
        BY <2>2
    <2> HIDE DEF c
    <2>6. capture'[d] = c /\ (\A o \in Dir : o # d => capture'[o] = capture[o]) /\ capture' \in [Dir -> Capture]
        BY <1>1, <2>4, <2>5
    <2>7. CaptureInv'
        BY <2>4, <2>6 DEF CaptureInv
    <2>8. QED
        BY <2>6, <2>7
<1>4. UNCHANGED capture \/ \E d \in Dir : Copy(d)
    <2>1. ASSUME Opening PROVE UNCHANGED capture
        BY <2>1 DEF Opening, Accept, Refuse, AcceptWebSocket, Upgraded, UpgradeFails, Connect, ConnectFails
    <2>2. ASSUME Relay PROVE UNCHANGED capture \/ \E d \in Dir : Copy(d)
        BY <2>2 DEF Relay, CopyEnds, WsNext, TunnelEnds, WsSend, WsEnds
    <2>3. ASSUME Bridge PROVE UNCHANGED capture
        BY <2>3 DEF Bridge, Pump, PumpEnds, ReceiveFails, TransmitFails, Idle
    <2>4. ASSUME WebSocketBridge PROVE UNCHANGED capture
        BY <2>4 DEF WebSocketBridge, Pump, PumpEnds, SendStops, AnswerStops, Idle
    <2>5. ASSUME Sides PROVE UNCHANGED capture
        BY <2>5 DEF Sides, Send, End, ResetBy, Take, Proxy
    <2>6. QED
        BY <2>1, <2>2, <2>3, <2>4, <2>5 DEF Next, vars
<1>5. QED
    BY <1>2, <1>3, <1>4

\* One mover has stopped.
LEMMA MoverStops ==
    ASSUME Types, NEW d \in Dir, NEW i \in 1..N,
           NEW m \in [Dir -> [1..N -> {"run", "done"}]]
    PROVE  LET q == [m EXCEPT ![d][i] = "done"]
           IN /\ q \in [Dir -> [1..N -> {"run", "done"}]]
              /\ q[d] = [m[d] EXCEPT ![i] = "done"]
              /\ \A o \in Dir : o # d => q[o] = m[o]
<1> HIDE DEF N
<1> DEFINE u == [m[d] EXCEPT ![i] = "done"]
<1>1. u \in [1..N -> {"run", "done"}]
    OBVIOUS
<1>2. [m EXCEPT ![d][i] = "done"] = [m EXCEPT ![d] = u]
    OBVIOUS
<1> HIDE DEF u
<1>3. QED
    BY <1>1, <1>2 DEF u

\* ... the relay,
LEMMA RelayTypes ==
    ASSUME Types, CaptureInv, Relay
    PROVE  Types'
<1>1. /\ setup \in Setup /\ pipe \in [Dir -> [1..N + 1 -> Pipe]]
      /\ mover \in [Dir -> [1..N -> {"run", "done"}]]
      /\ sent \in [Dir -> Nat] /\ got \in [Dir -> [n : Nat, end : {"open", "eof", "error"}]]
      /\ taken \in Dir \cup {"none"} /\ failed \in BOOLEAN /\ capture \in [Dir -> Capture]
    BY DEF Types
<1>2. capture' \in [Dir -> Capture]
    <2>1. [Next]_vars
        BY DEF Next
    <2>2. QED
        BY <2>1, CaptureStep
<1> HIDE DEF N
<1>3. ASSUME NEW d \in Dir, Copy(d) PROVE Types'
    <2> DEFINE i == Place(d, "relay")
    <2>1. i \in 1..N
        BY <1>1, RelayPlace
    <2>2. PICK k \in 1..pipe[d][i].n :
              /\ pipe[d][i + 1].n + k <= PipeCap
              /\ pipe' = [pipe EXCEPT ![d][i].n = @ - k, ![d][i + 1].n = @ + k]
        BY <1>3 DEF Copy
    <2> HIDE DEF i
    <2>3. k \in Nat /\ k <= pipe[d][i].n
        BY <2>1, PipesOf
    <2>4. pipe' \in [Dir -> [1..N + 1 -> Pipe]]
        BY <2>1, <2>2, <2>3, MoveRow
    <2>5. QED
        BY <1>1, <1>2, <1>3, <2>4, PipeTypes DEF Copy
<1>4. ASSUME NEW d \in Dir, CopyEnds(d) PROVE Types'
    <2> DEFINE i == Place(d, "relay")
    <2>1. i \in 1..N
        BY <1>1, RelayPlace
    <2>2. /\ \/ pipe' = [pipe EXCEPT ![d][i + 1] = Ended(@, "eof")]
             \/ UNCHANGED pipe
          /\ mover' = [mover EXCEPT ![d][i] = "done"]
        BY <1>4 DEF CopyEnds
    <2> HIDE DEF i
    <2>3. i + 1 \in 1..N + 1 /\ pipe[d][i + 1] \in Pipe
        BY <2>1, PipesOf
    <2>4. Ended(pipe[d][i + 1], "eof") \in Pipe
        BY <2>3, PipeFacts
    <2>5. [pipe EXCEPT ![d][i + 1] = Ended(@, "eof")] = [pipe EXCEPT ![d][i + 1] = Ended(pipe[d][i + 1], "eof")]
        BY <1>1, <2>3
    <2>6. pipe' \in [Dir -> [1..N + 1 -> Pipe]]
        <3>1. [pipe EXCEPT ![d][i + 1] = Ended(pipe[d][i + 1], "eof")] \in [Dir -> [1..N + 1 -> Pipe]]
            BY <1>1, <2>3, <2>4, PutRow
        <3>2. QED
            BY <1>1, <2>2, <2>5, <3>1
    <2>7. mover' \in [Dir -> [1..N -> {"run", "done"}]]
        BY <1>1, <2>1, <2>2, MoverStops
    <2>8. QED
        BY <1>1, <1>2, <1>4, <2>6, <2>7, PipeTypes DEF CopyEnds
<1>5. ASSUME NEW d \in Dir, WsNext(d) PROVE Types'
    <2> DEFINE i == Place(d, "relay")
               x == [pipe[d][i] EXCEPT !.n = pipe[d][i].n - 1]
    <2>1. i \in 1..N
        BY <1>1, RelayPlace
    <2>2. pipe[d][i].n > 0 /\ pipe' = [pipe EXCEPT ![d][i].n = @ - 1] /\ taken' \in {d, "none"}
        BY <1>5 DEF WsNext
    <2> HIDE DEF i
    <2>3. i \in 1..N + 1 /\ pipe[d][i] \in Pipe /\ pipe[d][i].n - 1 \in 0..PipeCap
        BY <2>1, <2>2, PipesOf, CapAssumption
    <2>4. x \in Pipe
        BY <2>3, PipeFacts
    <2>5. pipe' = [pipe EXCEPT ![d][i] = x]
        BY <1>1, <2>2, <2>3
    <2> HIDE DEF x
    <2>6. pipe' \in [Dir -> [1..N + 1 -> Pipe]]
        BY <1>1, <2>3, <2>4, <2>5, PutRow
    <2>7. QED
        BY <1>1, <1>2, <1>5, <2>2, <2>6, PipeTypes DEF WsNext
<1>6. CASE WsSend
    <2> DEFINE i == Place(taken, "relay")
               x == [pipe[taken][i + 1] EXCEPT !.n = pipe[taken][i + 1].n + 1]
    <2>1. taken \in Dir /\ i \in 1..N
        BY <1>1, <1>6, RelayPlace DEF WsSend
    <2>2. pipe[taken][i + 1].n < PipeCap /\ pipe' = [pipe EXCEPT ![taken][i + 1].n = @ + 1] /\ taken' = "none"
        BY <1>6 DEF WsSend
    <2> HIDE DEF i
    <2>3. i + 1 \in 1..N + 1 /\ pipe[taken][i + 1] \in Pipe /\ pipe[taken][i + 1].n + 1 \in 0..PipeCap
        BY <2>1, <2>2, PipesOf, CapAssumption
    <2>4. x \in Pipe
        BY <2>3, PipeFacts
    <2>5. pipe' = [pipe EXCEPT ![taken][i + 1] = x]
        BY <1>1, <2>1, <2>2, <2>3
    <2> HIDE DEF x
    <2>6. pipe' \in [Dir -> [1..N + 1 -> Pipe]]
        BY <1>1, <2>1, <2>3, <2>4, <2>5, PutRow
    <2>7. QED
        BY <1>1, <1>2, <1>6, <2>2, <2>6, PipeTypes DEF WsSend
<1>7. CASE TunnelEnds \/ WsEnds
    BY <1>7, OverTypes DEF TunnelEnds, WsEnds, Types
<1>8. QED
    BY <1>3, <1>4, <1>5, <1>6, <1>7 DEF Relay

\* A bridge that runs is at one end of its direction.
LEMMA BridgedAt ==
    ASSUME Types, NEW d \in Dir, NEW m, Bridged(d, m),
           \/ setup.client = "h2" /\ <<d, m>> \in {<<"up", "receive">>, <<"down", "transmit">>}
           \/ setup.server = "h2" /\ <<d, m>> \in {<<"up", "send">>, <<"down", "answer">>}
    PROVE  /\ Place(d, m) \in 1..N /\ mover[d][Place(d, m)] = "run"
           /\ m = "receive" => d = "up" /\ Place(d, m) = 1
           /\ m = "answer" => d = "down" /\ Place(d, m) = 1
           /\ m = "send" => d = "up" /\ Place(d, m) = N
           /\ m = "transmit" => d = "down" /\ Place(d, m) = N
<1>1. setup \in Setup /\ N \in 1..3
    BY SetupFacts DEF Types
<1>2. 1 \in 1..N /\ N \in 1..N
    BY <1>1
<1>3. mover[d][Place(d, m)] = "run"
    BY DEF Bridged
<1> HIDE DEF N
<1>4. QED
    BY <1>1, <1>2, <1>3, Places

\* ... what a bridge moves on, or ends,
LEMMA PumpTypes ==
    ASSUME Types, NEW d \in Dir, NEW m, Pump(d, m) \/ PumpEnds(d, m), Place(d, m) \in 1..N
    PROVE  Types'
<1> DEFINE i == Place(d, m)
<1>1. /\ pipe \in [Dir -> [1..N + 1 -> Pipe]] /\ capture \in [Dir -> Capture]
      /\ mover \in [Dir -> [1..N -> {"run", "done"}]]
      /\ sent \in [Dir -> Nat] /\ got \in [Dir -> [n : Nat, end : {"open", "eof", "error"}]]
      /\ taken \in Dir \cup {"none"} /\ failed \in BOOLEAN
    BY DEF Types
<1> HIDE DEF N
<1>2. i \in 1..N /\ pipe[d][i + 1] \in Pipe /\ i + 1 \in 1..N + 1 /\ pipe[d][i].n \in Nat /\ pipe[d][i + 1].n \in Nat
    BY PipesOf
<1>3. CASE Pump(d, m)
    <2>1. /\ pipe[d][i].n > 0 /\ pipe[d][i + 1].n < PipeCap /\ UNCHANGED mover
          /\ pipe' = [pipe EXCEPT ![d][i].n = @ - 1, ![d][i + 1].n = @ + 1]
        BY <1>3 DEF Pump
    <2> HIDE DEF i
    <2>2. 1 <= pipe[d][i].n /\ pipe[d][i + 1].n + 1 <= PipeCap /\ 1 \in Nat
        BY <1>2, <2>1, CapAssumption
    <2>3. pipe' \in [Dir -> [1..N + 1 -> Pipe]]
        BY <1>2, <2>1, <2>2, MoveRow
    <2>4. QED
        BY <1>1, <1>3, <2>1, <2>3, PipeTypes DEF Pump, Idle
<1>4. CASE PumpEnds(d, m)
    <2>1. /\ pipe' = [pipe EXCEPT ![d][i + 1] = Ended(@, "eof")]
          /\ mover' = [mover EXCEPT ![d][i] = "done"]
        BY <1>4 DEF PumpEnds
    <2> HIDE DEF i
    <2>2. Ended(pipe[d][i + 1], "eof") \in Pipe
        BY <1>2, PipeFacts
    <2>3. pipe' = [pipe EXCEPT ![d][i + 1] = Ended(pipe[d][i + 1], "eof")]
        BY <1>1, <1>2, <2>1
    <2>4. pipe' \in [Dir -> [1..N + 1 -> Pipe]]
        BY <1>1, <1>2, <2>2, <2>3, PutRow
    <2>5. mover' \in [Dir -> [1..N -> {"run", "done"}]]
        BY <1>1, <1>2, <2>1, MoverStops
    <2>6. QED
        BY <1>1, <1>4, <2>4, <2>5, PipeTypes DEF PumpEnds, Idle
<1>5. QED
    BY <1>3, <1>4

\* ... a bridge that breaks,
LEMMA BrokenTypes ==
    ASSUME Types, NEW e \in {"eof", "error"}, Broken(e), Idle
    PROVE  Types'
<1>1. /\ pipe \in [Dir -> [1..N + 1 -> Pipe]] /\ capture \in [Dir -> Capture]
      /\ mover \in [Dir -> [1..N -> {"run", "done"}]]
      /\ sent \in [Dir -> Nat] /\ got \in [Dir -> [n : Nat, end : {"open", "eof", "error"}]]
      /\ taken \in Dir \cup {"none"} /\ failed \in BOOLEAN
    BY DEF Types
<1>2. "up" \in Dir /\ "down" \in Dir
    BY DEF Dir
<1>3. Last("down") = N + 1 /\ Last("down") - 1 = N /\ N \in 1..3
    BY <1>2, LastIs
<1> HIDE DEF N
<1>4. /\ 1 \in 1..N /\ N \in 1..N /\ 1 \in 1..N + 1 /\ 2 \in 1..N + 1 /\ N \in 1..N + 1
      /\ N + 1 \in 1..N + 1 /\ 1 # 2 /\ N # N + 1
    BY <1>3
<1> DEFINE a == Unread(pipe["up"][1])
           b == Ended(pipe["up"][2], "eof")
           c == Unread(pipe["down"][N])
           f == Ended(pipe["down"][N + 1], e)
           p1 == [pipe EXCEPT !["up"][1] = a]
           p2 == [p1 EXCEPT !["up"][2] = b]
           p3 == [p2 EXCEPT !["down"][N] = c]
           p4 == [p3 EXCEPT !["down"][N + 1] = f]
<1>5. a \in Pipe /\ b \in Pipe /\ c \in Pipe /\ f \in Pipe
    <2>1. /\ pipe["up"][1] \in Pipe /\ pipe["up"][2] \in Pipe
          /\ pipe["down"][N] \in Pipe /\ pipe["down"][N + 1] \in Pipe
        <3>1. pipe["up"] \in [1..N + 1 -> Pipe]
            BY <1>1, <1>2
        <3>2. pipe["down"] \in [1..N + 1 -> Pipe]
            BY <1>1, <1>2
        <3>3. pipe["up"][1] \in Pipe /\ pipe["up"][2] \in Pipe
            BY <1>4, <3>1
        <3>4. pipe["down"][N] \in Pipe /\ pipe["down"][N + 1] \in Pipe
            BY <1>4, <3>2
        <3>5. QED
            BY <3>3, <3>4
    <2>2. QED
        BY <2>1, PipeFacts
<1>6. pipe' = p4
    BY <1>1, <1>2, <1>3, <1>4 DEF Broken
<1> HIDE DEF a, b, c, f
<1>7. p1 \in [Dir -> [1..N + 1 -> Pipe]]
    BY <1>1, <1>2, <1>4, <1>5, PutRow
<1> HIDE DEF p1
<1>8. p2 \in [Dir -> [1..N + 1 -> Pipe]]
    BY <1>2, <1>4, <1>5, <1>7, PutRow
<1> HIDE DEF p2
<1>9. p3 \in [Dir -> [1..N + 1 -> Pipe]]
    BY <1>2, <1>4, <1>5, <1>8, PutRow
<1> HIDE DEF p3
<1>10. p4 \in [Dir -> [1..N + 1 -> Pipe]]
    BY <1>2, <1>4, <1>5, <1>9, PutRow
<1>11. mover' \in [Dir -> [1..N -> {"run", "done"}]]
    <2> DEFINE m == [mover EXCEPT !["up"][1] = "done"]
    <2>1. mover' = [m EXCEPT !["down"][N] = "done"]
        BY <1>1, <1>2, <1>3, <1>4 DEF Broken
    <2>2. m \in [Dir -> [1..N -> {"run", "done"}]]
        BY <1>1, <1>2, <1>4, MoverStops
    <2> HIDE DEF m
    <2>3. QED
        BY <1>2, <1>4, <2>1, <2>2, MoverStops
<1>12. QED
    BY <1>1, <1>6, <1>10, <1>11, PipeTypes DEF Idle

\* ... the bridge of the client,
LEMMA BridgeTypes ==
    ASSUME Types, Bridge
    PROVE  Types'
<1>1. setup.client = "h2" /\ "up" \in Dir /\ "down" \in Dir
    BY DEF Bridge, Dir
<1>2. ASSUME Pump("up", "receive") \/ PumpEnds("up", "receive") PROVE Types'
    <2>1. Place("up", "receive") \in 1..N
        BY <1>1, <1>2, BridgedAt DEF Pump, PumpEnds
    <2>2. QED
        BY <1>1, <1>2, <2>1, PumpTypes
<1>3. ASSUME Pump("down", "transmit") \/ PumpEnds("down", "transmit") PROVE Types'
    <2>1. Place("down", "transmit") \in 1..N
        BY <1>1, <1>3, BridgedAt DEF Pump, PumpEnds
    <2>2. QED
        BY <1>1, <1>3, <2>1, PumpTypes
<1>4. ASSUME ReceiveFails \/ TransmitFails PROVE Types'
    BY <1>4, BrokenTypes DEF ReceiveFails, TransmitFails
<1>5. QED
    BY <1>2, <1>3, <1>4 DEF Bridge

\* ... and that of the server.
LEMMA WebSocketBridgeTypes ==
    ASSUME Types, WebSocketBridge
    PROVE  Types'
<1>1. setup.server = "h2" /\ "up" \in Dir /\ "down" \in Dir
    BY DEF WebSocketBridge, Dir
<1>2. ASSUME Pump("up", "send") \/ PumpEnds("up", "send") PROVE Types'
    <2>1. Place("up", "send") \in 1..N
        BY <1>1, <1>2, BridgedAt DEF Pump, PumpEnds
    <2>2. QED
        BY <1>1, <1>2, <2>1, PumpTypes
<1>3. ASSUME Pump("down", "answer") PROVE Types'
    <2>1. Place("down", "answer") \in 1..N
        BY <1>1, <1>3, BridgedAt DEF Pump
    <2>2. QED
        BY <1>1, <1>3, <2>1, PumpTypes
<1>4. /\ pipe \in [Dir -> [1..N + 1 -> Pipe]] /\ capture \in [Dir -> Capture]
      /\ mover \in [Dir -> [1..N -> {"run", "done"}]]
      /\ sent \in [Dir -> Nat] /\ got \in [Dir -> [n : Nat, end : {"open", "eof", "error"}]]
      /\ taken \in Dir \cup {"none"} /\ failed \in BOOLEAN
    BY DEF Types
<1>5. Place("up", "send") = N /\ 1 \in 1..N /\ N \in 1..N /\ N \in 1..N + 1 /\ 1 \in 1..N + 1 /\ 2 \in 1..N + 1
    <2>1. N \in 1..3 /\ setup \in Setup
        BY SetupFacts DEF Types
    <2> HIDE DEF N
    <2>2. QED
        BY <1>1, <2>1, Places
<1> HIDE DEF N
<1>6. Unread(pipe["up"][N]) \in Pipe /\ Unread(pipe["down"][1]) \in Pipe /\ Ended(pipe["down"][2], "eof") \in Pipe
    <2>1. pipe["up"][N] \in Pipe /\ pipe["down"][1] \in Pipe /\ pipe["down"][2] \in Pipe
        BY <1>1, <1>4, <1>5
    <2>2. QED
        BY <2>1, PipeFacts
<1>7. CASE SendStops
    <2>1. mover' = [mover EXCEPT !["up"][N] = "done"]
        BY <1>5, <1>7 DEF SendStops
    <2>2. pipe' = [pipe EXCEPT !["up"][N] = Unread(pipe["up"][N])] \/ pipe' = pipe
        BY <1>1, <1>4, <1>5, <1>7 DEF SendStops
    <2>3. pipe' \in [Dir -> [1..N + 1 -> Pipe]]
        <3>1. [pipe EXCEPT !["up"][N] = Unread(pipe["up"][N])] \in [Dir -> [1..N + 1 -> Pipe]]
            BY SMTT(30), <1>1, <1>4, <1>5, <1>6, PutRow
        <3>2. QED
            BY <1>4, <2>2, <3>1
    <2>4. mover' \in [Dir -> [1..N -> {"run", "done"}]]
        BY <1>1, <1>4, <1>5, <2>1, MoverStops
    <2>5. QED
        BY <1>4, <1>7, <2>3, <2>4, PipeTypes DEF SendStops, Idle
<1>8. CASE AnswerStops
    <2> DEFINE a == Unread(pipe["down"][1])
               b == Ended(pipe["down"][2], "eof")
               c == IF mover["up"][N] = "done" THEN Unread(pipe["up"][N]) ELSE pipe["up"][N]
               p1 == [pipe EXCEPT !["down"][1] = a]
               p2 == [p1 EXCEPT !["down"][2] = b]
               p3 == [p2 EXCEPT !["up"][N] = c]
    <2>1. a \in Pipe /\ b \in Pipe /\ c \in Pipe
        BY <1>1, <1>4, <1>5, <1>6
    <2>2. pipe' = p3
        BY <1>1, <1>4, <1>5, <1>8 DEF AnswerStops
    <2> HIDE DEF a, b, c
    <2>3. p1 \in [Dir -> [1..N + 1 -> Pipe]]
        BY <1>1, <1>4, <1>5, <2>1, PutRow
    <2> HIDE DEF p1
    <2>4. p2 \in [Dir -> [1..N + 1 -> Pipe]]
        BY <1>1, <1>5, <2>1, <2>3, PutRow
    <2> HIDE DEF p2
    <2>5. p3 \in [Dir -> [1..N + 1 -> Pipe]]
        BY <1>1, <1>5, <2>1, <2>4, PutRow
    <2>6. mover' \in [Dir -> [1..N -> {"run", "done"}]]
        BY SMTT(30), <1>1, <1>4, <1>5, <1>8, MoverStops DEF AnswerStops
    <2>7. QED
        BY <1>4, <1>8, <2>2, <2>5, <2>6, PipeTypes DEF AnswerStops, Idle
<1>9. QED
    BY <1>2, <1>3, <1>7, <1>8 DEF WebSocketBridge

\* Every step keeps the types.
LEMMA TypesStep ==
    ASSUME Types, CaptureInv, [Next]_vars
    PROVE  Types'
<1>1. CASE UNCHANGED vars
    BY <1>1 DEF Types, vars, N
<1>2. QED
    BY <1>1, OpeningTypes, RelayTypes, BridgeTypes, WebSocketBridgeTypes, SidesTypes DEF Next

-----------------------------------------------------------------------------
(* A row that is whole stays so.                                           *)

\* q is the row p but for pipe i, which is x.
PutIn(q, p, i, x) ==
    /\ q \in [1..N + 1 -> Pipe] /\ q[i] = x
    /\ \A j \in 1..N + 1 : j # i => q[j] = p[j]

\* What is known of a row of pipes, its movers and what it has taken in and given.
Row(p, m, s, g) ==
    /\ N \in 1..3
    /\ p \in [1..N + 1 -> Pipe] /\ m \in [1..N -> {"run", "done"}]
    /\ s \in Nat /\ g.n \in Nat

\* What a row of pipes holds is counted.
LEMMA RowFacts ==
    ASSUME NEW p, NEW m, NEW s, NEW g, Row(p, m, s, g)
    PROVE  /\ N \in 1..3 /\ s \in Nat /\ g.n \in Nat
           /\ \A i \in 1..N + 1 : p[i] \in Pipe /\ p[i].n \in Nat
           /\ p[1].n \in Nat /\ p[2].n \in Nat
           /\ N >= 2 => p[3].n \in Nat
           /\ N >= 3 => p[4].n \in Nat
<1>1. N \in 1..3 /\ s \in Nat /\ g.n \in Nat /\ p \in [1..N + 1 -> Pipe]
    BY DEF Row
<1> HIDE DEF N
<1>2. \A i \in 1..N + 1 : p[i] \in Pipe /\ p[i].n \in Nat
    BY <1>1, PipeFacts
<1>3. /\ 1 \in 1..N + 1 /\ 2 \in 1..N + 1
      /\ N >= 2 => 3 \in 1..N + 1
      /\ N >= 3 => 4 \in 1..N + 1
    BY <1>1
<1>4. QED
    BY <1>1, <1>2, <1>3

\* Units that move on are neither lost nor left behind by a mover that has stopped.
LEMMA RowMoved ==
    ASSUME NEW p, NEW m, NEW s, NEW g, Row(p, m, s, g), Whole(p, m, s, g),
           NEW i \in 1..N, NEW k \in Nat, k <= p[i].n, m[i] = "run",
           NEW q, MovedOn(q, p, i, k)
    PROVE  Whole(q, m, s, g)
<1>1. /\ N \in 1..3 /\ s \in Nat /\ g.n \in Nat /\ i \in 1..N + 1 /\ i + 1 \in 1..N + 1
      /\ \A j \in 1..N + 1 : p[j] \in Pipe /\ p[j].n \in Nat
    BY RowFacts
<1>2. /\ q[i].n = p[i].n - k /\ q[i + 1].n = p[i + 1].n + k
      /\ \A j \in 1..N + 1 : j \notin {i, i + 1} => q[j].n = p[j].n
    BY <1>1 DEF MovedOn, Pipe
<1>3. \A j \in 1..N + 1 : q[j].end = p[j].end /\ q[j].read = p[j].read
    <2>1. q[i].end = p[i].end /\ q[i].read = p[i].read
        BY <1>1 DEF MovedOn, Pipe
    <2>2. q[i + 1].end = p[i + 1].end /\ q[i + 1].read = p[i + 1].read
        BY <1>1 DEF MovedOn, Pipe
    <2>3. QED
        BY <2>1, <2>2 DEF MovedOn
<1>4. p[i + 1].end # "eof"
    BY DEF Whole
<1>5. Amount(q) = Amount(p)
    <2>1. CASE i = 1
        BY <1>1, <1>2, <2>1, RowFacts DEF Amount
    <2>2. CASE i = 2
        BY <1>1, <1>2, <2>2, RowFacts DEF Amount
    <2>3. CASE i = 3
        BY <1>1, <1>2, <2>3, RowFacts DEF Amount
    <2>4. QED
        BY <1>1, <2>1, <2>2, <2>3
<1>6. \A j \in 1..N : m[j] = "done" => q[j].n = 0 /\ q[j].end = "eof"
    <2> TAKE j \in 1..N
    <2>1. j \in 1..N + 1
        BY <1>1
    <2>2. CASE m[j] = "done"
        <3>1. p[j].n = 0 /\ p[j].end = "eof"
            BY <2>2 DEF Whole
        <3>2. j # i /\ j # i + 1
            BY <1>4, <2>2, <3>1
        <3>3. QED
            BY <1>2, <1>3, <2>1, <3>1, <3>2
    <2>3. QED
        BY <2>2
<1>7. g.end = "eof" => q[N + 1].n = 0 /\ q[N + 1].end = "eof"
    <2>1. CASE g.end = "eof"
        <3>1. p[N + 1].n = 0 /\ p[N + 1].end = "eof" /\ N + 1 \in 1..N + 1
            BY <1>1, <2>1 DEF Whole
        <3>2. N + 1 # i /\ N + 1 # i + 1
            BY <1>1, <1>4, <3>1
        <3>3. QED
            BY <1>2, <1>3, <3>1, <3>2
    <2>2. QED
        BY <2>1
<1>8. /\ \A j \in 1..N + 1 : q[j].end # "error"
      /\ \A j \in 1..N : q[j + 1].end = "eof" => m[j] = "done"
      /\ \A j \in 1..N : ~q[j].read => m[j] = "done"
      /\ q[N + 1].read /\ g.end # "error"
    <2>1. \A j \in 1..N : j \in 1..N + 1 /\ j + 1 \in 1..N + 1
        BY <1>1
    <2>2. N + 1 \in 1..N + 1
        BY <1>1
    <2>3. QED
        BY <1>3, <2>1, <2>2 DEF Whole
<1>9. Amount(q) + g.n = s
    BY <1>5 DEF Whole
<1>10. QED
    BY <1>6, <1>7, <1>8, <1>9 DEF Whole

\* What a row holds is the sum of what its pipes hold.
LEMMA SameAmount ==
    ASSUME NEW p, NEW q, \A j \in 1..N + 1 : q[j].n = p[j].n, N \in 1..3
    PROVE  Amount(q) = Amount(p)
<1>1. /\ 1 \in 1..N + 1 /\ 2 \in 1..N + 1
      /\ N >= 2 => 3 \in 1..N + 1
      /\ N >= 3 => 4 \in 1..N + 1
    OBVIOUS
<1>2. QED
    BY <1>1 DEF Amount

\* A mover that has come to the end passes it on and stops.
LEMMA RowEnds ==
    ASSUME NEW p, NEW m, NEW s, NEW g, Row(p, m, s, g), Whole(p, m, s, g),
           NEW i \in 1..N, p[i].n = 0, p[i].end = "eof",
           NEW q, PutIn(q, p, i + 1, Ended(p[i + 1], "eof"))
    PROVE  LET l == [m EXCEPT ![i] = "done"]
           IN Row(q, l, s, g) /\ Whole(q, l, s, g)
<1> DEFINE l == [m EXCEPT ![i] = "done"]
<1>1. /\ N \in 1..3 /\ i \in 1..N + 1 /\ i + 1 \in 1..N + 1 /\ i # i + 1
      /\ \A j \in 1..N + 1 : p[j] \in Pipe /\ p[j].n \in Nat
    BY RowFacts
<1>2. /\ \A j \in 1..N + 1 : q[j].n = p[j].n /\ q[j].read = p[j].read
      /\ q[i + 1].end = IF p[i + 1].end = "open" THEN "eof" ELSE p[i + 1].end
      /\ \A j \in 1..N + 1 : j # i + 1 => q[j].end = p[j].end
    BY <1>1, PipeFacts DEF PutIn
<1>3. p[i + 1].end # "error" /\ p[i + 1].end \in {"open", "eof", "error"}
    BY <1>1 DEF Whole, Pipe
<1>4. q[i + 1].end = "eof"
    BY <1>2, <1>3
<1>5. /\ l \in [1..N -> {"run", "done"}]
      /\ l[i] = "done" /\ \A j \in 1..N : j # i => l[j] = m[j]
    BY DEF Row
<1> HIDE DEF l
<1>6. Amount(q) = Amount(p)
    BY <1>1, <1>2, SameAmount
<1>7. \A j \in 1..N : l[j] = "done" => q[j].n = 0 /\ q[j].end = "eof"
    <2> TAKE j \in 1..N
    <2>1. j \in 1..N + 1
        BY <1>1
    <2>2. CASE j = i
        BY <1>1, <1>2, <2>2
    <2>3. CASE j # i /\ l[j] = "done"
        <3>1. p[j].n = 0 /\ p[j].end = "eof"
            BY <1>5, <2>3 DEF Whole
        <3>2. QED
            BY <1>2, <1>4, <2>1, <3>1
    <2>4. QED
        BY <2>2, <2>3
<1>8. \A j \in 1..N : /\ q[j + 1].end = "eof" => l[j] = "done"
                      /\ ~q[j].read => l[j] = "done"
    <2> TAKE j \in 1..N
    <2>1. j \in 1..N + 1 /\ j + 1 \in 1..N + 1 /\ (j # i => j + 1 # i + 1)
        BY <1>1
    <2>2. QED
        BY <1>2, <1>5, <2>1 DEF Whole
<1>9. \A j \in 1..N + 1 : q[j].end # "error"
    BY <1>2, <1>4 DEF Whole
<1>10. /\ q[N + 1].read
       /\ g.end = "eof" => q[N + 1].n = 0 /\ q[N + 1].end = "eof"
    <2>1. N + 1 \in 1..N + 1
        BY <1>1
    <2>2. QED
        BY <1>2, <1>4, <2>1 DEF Whole
<1>11. Whole(q, l, s, g)
    <2>1. g.end # "error" /\ Amount(q) + g.n = s
        BY <1>6 DEF Whole
    <2>2. QED
        BY <1>7, <1>8, <1>9, <1>10, <2>1 DEF Whole
<1>12. QED
    BY <1>5, <1>11 DEF Row, PutIn, l

\* What a stopped mover no longer reads is empty.
LEMMA RowLeft ==
    ASSUME NEW p, NEW m, NEW s, NEW g, Row(p, m, s, g), Whole(p, m, s, g),
           NEW i \in 1..N, m[i] = "done", NEW q, PutIn(q, p, i, Unread(p[i]))
    PROVE  Row(q, m, s, g) /\ Whole(q, m, s, g)
<1>1. /\ N \in 1..3 /\ i \in 1..N + 1 /\ N + 1 \in 1..N + 1 /\ N + 1 # i
      /\ \A j \in 1..N : j \in 1..N + 1 /\ j + 1 \in 1..N + 1
      /\ \A j \in 1..N + 1 : p[j] \in Pipe /\ p[j].n \in Nat
    BY RowFacts
<1>2. p[i].n = 0
    BY DEF Whole
<1>3. /\ \A j \in 1..N + 1 : q[j].n = p[j].n /\ q[j].end = p[j].end
      /\ \A j \in 1..N + 1 : j # i => q[j].read = p[j].read
    BY <1>1, <1>2, PipeFacts DEF PutIn
<1>4. Amount(q) = Amount(p)
    BY <1>1, <1>3, SameAmount
<1>5. /\ \A j \in 1..N + 1 : q[j].end # "error"
      /\ \A j \in 1..N : m[j] = "done" => q[j].n = 0 /\ q[j].end = "eof"
      /\ \A j \in 1..N : q[j + 1].end = "eof" => m[j] = "done"
      /\ \A j \in 1..N : ~q[j].read => m[j] = "done"
      /\ q[N + 1].read
      /\ g.end = "eof" => q[N + 1].n = 0 /\ q[N + 1].end = "eof"
    BY <1>1, <1>3 DEF Whole
<1>6. g.end # "error" /\ Amount(q) + g.n = s
    BY <1>4 DEF Whole
<1>7. QED
    BY <1>5, <1>6 DEF Row, Whole, PutIn

\* What its sender puts into the first pipe is read and counted.
LEMMA RowSent ==
    ASSUME NEW p, NEW m, NEW s, NEW g, Row(p, m, s, g), Whole(p, m, s, g),
           p[1].end = "open",
           NEW q, PutIn(q, p, 1, [p[1] EXCEPT !.n = p[1].n + 1])
    PROVE  p[1].read /\ Row(q, m, s + 1, g) /\ Whole(q, m, s + 1, g)
<1>1. /\ N \in 1..3 /\ s \in Nat /\ g.n \in Nat /\ 1 \in 1..N /\ 1 \in 1..N + 1 /\ N + 1 \in 1..N + 1 /\ N + 1 # 1
      /\ \A j \in 1..N : j \in 1..N + 1 /\ j + 1 \in 1..N + 1 /\ j + 1 # 1
      /\ \A j \in 1..N + 1 : p[j] \in Pipe /\ p[j].n \in Nat
    BY RowFacts
<1>2. m[1] # "done"
    BY <1>1 DEF Whole
<1>3. /\ q[1].n = p[1].n + 1 /\ q[1].end = p[1].end /\ q[1].read = p[1].read
      /\ \A j \in 1..N + 1 : j # 1 => q[j] = p[j]
    BY <1>1 DEF PutIn, Pipe
<1>4. Amount(q) = Amount(p) + 1
    <2>1. /\ q[2] = p[2]
          /\ N >= 2 => q[3] = p[3]
          /\ N >= 3 => q[4] = p[4]
        BY <1>1, <1>3
    <2>2. QED
        BY <1>1, <1>3, <2>1, RowFacts DEF Amount
<1>5. Amount(p) \in Nat
    BY RowFacts DEF Amount
<1>6. /\ \A j \in 1..N + 1 : q[j].end # "error"
      /\ \A j \in 1..N : m[j] = "done" => q[j].n = 0 /\ q[j].end = "eof"
      /\ \A j \in 1..N : q[j + 1].end = "eof" => m[j] = "done"
      /\ \A j \in 1..N : ~q[j].read => m[j] = "done"
      /\ q[N + 1].read
      /\ g.end = "eof" => q[N + 1].n = 0 /\ q[N + 1].end = "eof"
    BY <1>1, <1>2, <1>3 DEF Whole
<1>7. g.end # "error" /\ Amount(q) + g.n = s + 1
    BY <1>1, <1>4, <1>5 DEF Whole
<1>8. p[1].read /\ s + 1 \in Nat
    BY <1>1, <1>2 DEF Whole
<1>9. QED
    BY <1>6, <1>7, <1>8 DEF Row, Whole, PutIn

\* The sender ends what no mover has stopped reading.
LEMMA RowClosed ==
    ASSUME NEW p, NEW m, NEW s, NEW g, Row(p, m, s, g), Whole(p, m, s, g),
           p[1].end = "open", NEW q, PutIn(q, p, 1, Ended(p[1], "eof"))
    PROVE  Whole(q, m, s, g)
<1>1. /\ N \in 1..3 /\ 1 \in 1..N /\ 1 \in 1..N + 1 /\ N + 1 \in 1..N + 1 /\ N + 1 # 1
      /\ \A j \in 1..N : j \in 1..N + 1 /\ j + 1 \in 1..N + 1 /\ j + 1 # 1
      /\ \A j \in 1..N + 1 : p[j] \in Pipe /\ p[j].n \in Nat
    BY RowFacts
<1>2. m[1] # "done"
    BY <1>1 DEF Whole
<1>3. /\ q[1].end = "eof" /\ q[1].n = p[1].n /\ q[1].read = p[1].read
      /\ \A j \in 1..N + 1 : j # 1 => q[j] = p[j]
    BY <1>1, PipeFacts DEF PutIn
<1>4. Amount(q) = Amount(p)
    BY <1>1, <1>3, SameAmount
<1>5. /\ \A j \in 1..N + 1 : q[j].end # "error"
      /\ \A j \in 1..N : m[j] = "done" => q[j].n = 0 /\ q[j].end = "eof"
      /\ \A j \in 1..N : q[j + 1].end = "eof" => m[j] = "done"
      /\ \A j \in 1..N : ~q[j].read => m[j] = "done"
      /\ q[N + 1].read
      /\ g.end = "eof" => q[N + 1].n = 0 /\ q[N + 1].end = "eof"
    BY <1>1, <1>2, <1>3 DEF Whole
<1>6. g.end # "error" /\ Amount(q) + g.n = s
    BY <1>4 DEF Whole
<1>7. QED
    BY <1>5, <1>6 DEF Whole

\* What its receiver takes out of the last pipe is counted.
LEMMA RowTaken ==
    ASSUME NEW p, NEW m, NEW s, NEW g, Row(p, m, s, g), Whole(p, m, s, g),
           g.end = "open", p[N + 1].n > 0,
           NEW q, PutIn(q, p, N + 1, [p[N + 1] EXCEPT !.n = p[N + 1].n - 1]),
           NEW h, h.n = g.n + 1, h.end = g.end
    PROVE  Whole(q, m, s, h)
<1>1. /\ N \in 1..3 /\ s \in Nat /\ g.n \in Nat /\ N + 1 \in 1..N + 1
      /\ \A j \in 1..N : j \in 1..N + 1 /\ j + 1 \in 1..N + 1 /\ j # N + 1
      /\ \A j \in 1..N + 1 : p[j] \in Pipe /\ p[j].n \in Nat
    BY RowFacts
<1>2. /\ q[N + 1].n = p[N + 1].n - 1 /\ q[N + 1].end = p[N + 1].end /\ q[N + 1].read = p[N + 1].read
      /\ \A j \in 1..N + 1 : j # N + 1 => q[j] = p[j]
    BY <1>1 DEF PutIn, Pipe
<1>3. Amount(q) = Amount(p) - 1
    <2>1. CASE N = 1
        BY <1>1, <1>2, <2>1, RowFacts DEF Amount
    <2>2. CASE N = 2
        BY <1>1, <1>2, <2>2, RowFacts DEF Amount
    <2>3. CASE N = 3
        BY <1>1, <1>2, <2>3, RowFacts DEF Amount
    <2>4. QED
        BY <1>1, <2>1, <2>2, <2>3
<1>4. Amount(p) \in Nat
    BY RowFacts DEF Amount
<1>5. /\ \A j \in 1..N + 1 : q[j].end # "error"
      /\ \A j \in 1..N : m[j] = "done" => q[j].n = 0 /\ q[j].end = "eof"
      /\ \A j \in 1..N : q[j + 1].end = "eof" => m[j] = "done"
      /\ \A j \in 1..N : ~q[j].read => m[j] = "done"
      /\ q[N + 1].read
    BY <1>1, <1>2 DEF Whole
<1>6. h.end = "open" /\ Amount(q) + h.n = s
    BY <1>1, <1>3, <1>4 DEF Whole
<1>7. QED
    BY <1>5, <1>6 DEF Whole

\* The end it sees there is one that was passed on.
LEMMA RowSeen ==
    ASSUME NEW p, NEW m, NEW s, NEW g, Row(p, m, s, g), Whole(p, m, s, g),
           p[N + 1].n = 0, p[N + 1].end # "open",
           NEW h, h.n = g.n, h.end = p[N + 1].end
    PROVE  Whole(p, m, s, h)
<1>1. N \in 1..3 /\ N + 1 \in 1..N + 1 /\ p[N + 1] \in Pipe
    BY RowFacts
<1>2. p[N + 1].end = "eof"
    BY <1>1 DEF Pipe, Whole
<1>3. QED
    BY <1>2 DEF Whole

\* While a mover runs, what it moves into is read.
LEMMA SinkIsRead ==
    ASSUME NEW p, NEW m, NEW s, NEW g, Row(p, m, s, g), Whole(p, m, s, g),
           NEW i \in 1..N, m[i] = "run"
    PROVE  p[i + 1].read /\ p[i].end # "error" /\ p[i].n \in Nat /\ p[i] \in Pipe
<1>1. N \in 1..3 /\ i \in 1..N + 1 /\ p[i].n \in Nat /\ p[i] \in Pipe
    BY RowFacts
<1>2. i + 1 \in 1..N \/ i = N
    BY <1>1
<1>3. QED
    BY <1>1, <1>2 DEF Whole

-----------------------------------------------------------------------------
(* Every step leaves the rows of an unreset byte stream whole.             *)

AllRows == \A d \in Dir : Row(pipe[d], mover[d], sent[d], got[d]) /\ Whole(pipe[d], mover[d], sent[d], got[d])

\* The rows of the next state, by the connections of this one.
RowsNext ==
    /\ UNCHANGED setup
    /\ \A d \in Dir : Whole(pipe'[d], mover'[d], sent'[d], got'[d])

\* The rows of an unreset byte stream.
LEMMA RowsOf ==
    ASSUME Types, WholeInv, setup.speaks = "raw", ~failed
    PROVE  AllRows
<1>1. \A d \in Dir : Whole(pipe[d], mover[d], sent[d], got[d])
    BY DEF WholeInv
<1>2. N \in 1..3
    BY SetupFacts DEF Types
<1> HIDE DEF N
<1>3. \A d \in Dir : Row(pipe[d], mover[d], sent[d], got[d])
    BY <1>2 DEF Row, Types
<1>4. QED
    BY <1>1, <1>3 DEF AllRows

\* A step that leaves the rows alone.
LEMMA RowsKept ==
    ASSUME AllRows, UNCHANGED <<setup, pipe, mover, sent, got>>
    PROVE  RowsNext
BY DEF AllRows, RowsNext

\* Units move from pipe i of one direction to the next.
LEMMA RowsMoved ==
    ASSUME Types, AllRows, NEW d \in Dir, NEW i \in 1..N, NEW k \in Nat,
           k <= pipe[d][i].n, pipe[d][i + 1].n + k <= PipeCap, mover[d][i] = "run",
           pipe' = [pipe EXCEPT ![d][i].n = @ - k, ![d][i + 1].n = @ + k],
           UNCHANGED <<setup, mover, sent, got>>
    PROVE  RowsNext
<1>1. MovedOn(pipe'[d], pipe[d], i, k) /\ \A o \in Dir : o # d => pipe'[o] = pipe[o]
    BY MoveRow
<1>2. Whole(pipe'[d], mover[d], sent[d], got[d])
    BY <1>1, RowMoved DEF AllRows
<1>3. QED
    BY <1>1, <1>2 DEF AllRows, RowsNext

\* The mover of pipe i passes its end on.
LEMMA RowsEnd ==
    ASSUME Types, AllRows, NEW d \in Dir, NEW i \in 1..N,
           pipe[d][i].n = 0, pipe[d][i].end = "eof",
           pipe' = [pipe EXCEPT ![d][i + 1] = Ended(@, "eof")],
           mover' = [mover EXCEPT ![d][i] = "done"],
           UNCHANGED <<setup, sent, got>>
    PROVE  RowsNext
<1> DEFINE x == Ended(pipe[d][i + 1], "eof")
<1>1. /\ i + 1 \in 1..N + 1 /\ x \in Pipe
    BY PipesOf, PipeFacts
<1>2. pipe \in [Dir -> [1..N + 1 -> Pipe]] /\ mover \in [Dir -> [1..N -> {"run", "done"}]]
    BY DEF Types
<1> HIDE DEF N
<1>3. pipe' = [pipe EXCEPT ![d][i + 1] = x]
    BY <1>1, <1>2
<1> HIDE DEF x
<1>4. PutIn(pipe'[d], pipe[d], i + 1, x) /\ \A o \in Dir : o # d => pipe'[o] = pipe[o]
    <2> DEFINE r == [pipe EXCEPT ![d][i + 1] = x]
    <2>1. /\ r \in [Dir -> [1..N + 1 -> Pipe]] /\ r[d][i + 1] = x
          /\ \A j \in 1..N + 1 : j # i + 1 => r[d][j] = pipe[d][j]
          /\ \A o \in Dir : o # d => r[o] = pipe[o]
        BY <1>1, <1>2, PutRow
    <2> HIDE DEF r
    <2>2. pipe' = r
        BY <1>3 DEF r
    <2>3. QED
        BY <2>1, <2>2 DEF PutIn
<1>5. mover'[d] = [mover[d] EXCEPT ![i] = "done"] /\ \A o \in Dir : o # d => mover'[o] = mover[o]
    BY <1>2, MoverStops
<1>6. Whole(pipe'[d], mover'[d], sent[d], got[d])
    <2>1. PutIn(pipe'[d], pipe[d], i + 1, Ended(pipe[d][i + 1], "eof"))
        BY <1>4 DEF x
    <2>2. Row(pipe[d], mover[d], sent[d], got[d]) /\ Whole(pipe[d], mover[d], sent[d], got[d])
        BY DEF AllRows
    <2>3. Whole(pipe'[d], [mover[d] EXCEPT ![i] = "done"], sent[d], got[d])
        BY <2>1, <2>2, RowEnds
    <2>4. QED
        BY <1>5, <2>3
<1>7. QED
    BY <1>4, <1>5, <1>6 DEF AllRows, RowsNext

\* No stream is opened, or refused without a failure, at their expense.
LEMMA OpeningRows ==
    ASSUME AllRows, setup.speaks = "raw", ~failed', Opening
    PROVE  RowsNext
<1>1. UNCHANGED <<setup, pipe, mover, sent, got>>
    BY DEF Opening, Accept, Refuse, AcceptWebSocket, Upgraded, UpgradeFails, Connect, ConnectFails
<1>2. QED
    BY <1>1, RowsKept

\* The two sides send, end and take without harm, unless one resets.
LEMMA SidesRows ==
    ASSUME Types, AllRows, ~failed', Sides
    PROVE  RowsNext
<1>1. PICK d \in Dir : Send(d) \/ End(d) \/ ResetBy(d) \/ Take(d)
    BY DEF Sides
<1> DEFINE p == pipe[d]
<1>2. /\ Last(d) = N + 1 /\ 1 \in 1..N + 1 /\ N + 1 \in 1..N + 1
      /\ pipe \in [Dir -> [1..N + 1 -> Pipe]]
      /\ sent \in [Dir -> Nat] /\ got \in [Dir -> [n : Nat, end : {"open", "eof", "error"}]]
    BY LastIs DEF Types
<1>3. /\ Row(p, mover[d], sent[d], got[d]) /\ Whole(p, mover[d], sent[d], got[d])
      /\ \A o \in Dir : o # d => Whole(pipe[o], mover[o], sent[o], got[o])
    BY DEF AllRows
<1> HIDE DEF N
<1>4. /\ p[1] \in Pipe /\ p[N + 1] \in Pipe /\ p[1].n \in Nat /\ p[N + 1].n \in Nat
      /\ p[N + 1].n <= PipeCap /\ PipeCap \in Nat
    BY <1>2, <1>3, RowFacts, PipeFacts, CapAssumption
<1>5. ASSUME NEW x \in Pipe, NEW j \in 1..N + 1, pipe' = [pipe EXCEPT ![d][j] = x]
      PROVE  PutIn(pipe'[d], p, j, x) /\ \A o \in Dir : o # d => pipe'[o] = pipe[o]
    BY <1>2, <1>5, PutRow DEF PutIn
<1>6. CASE Send(d)
    <2> DEFINE x == [p[1] EXCEPT !.n = p[1].n + 1]
               q == [pipe EXCEPT ![d][1] = x]
    <2>1. p[1].end = "open" /\ p[1].n + 1 \in 0..PipeCap
        BY <1>4, <1>6 DEF Send
    <2>2. x \in Pipe
        BY <1>4, <2>1, PipeFacts
    <2>3. [pipe EXCEPT ![d][1].n = @ + 1] = q
        BY <1>2
    <2>4. \A y \in Pipe : LET r == [pipe EXCEPT ![d][1] = y]
                          IN PutIn(r[d], p, 1, y) /\ \A o \in Dir : o # d => r[o] = pipe[o]
        BY <1>2, PutRow DEF PutIn
    <2> HIDE DEF x
    <2>5. PutIn(q[d], p, 1, x) /\ \A o \in Dir : o # d => q[o] = pipe[o]
        BY <2>2, <2>4
    <2> HIDE DEF q
    <2>6. p[1].read /\ Whole(q[d], mover[d], sent[d] + 1, got[d])
        BY <1>3, <2>1, <2>5, RowSent DEF x
    <2>7. pipe' = q /\ sent' = [sent EXCEPT ![d] = @ + 1] /\ UNCHANGED <<setup, mover, got>>
        BY <1>6, <2>3, <2>6 DEF Send, Proxy
    <2>8. sent'[d] = sent[d] + 1 /\ \A o \in Dir : o # d => sent'[o] = sent[o]
        BY <1>2, <2>7
    <2>9. QED
        BY <1>3, <2>5, <2>6, <2>7, <2>8 DEF RowsNext
<1>7. CASE End(d)
    <2> DEFINE x == Ended(p[1], "eof")
    <2>1. x \in Pipe
        BY <1>4, PipeFacts
    <2>2. pipe' = [pipe EXCEPT ![d][1] = x] /\ p[1].end = "open" /\ UNCHANGED <<setup, mover, sent, got>>
        BY <1>2, <1>7 DEF End, Proxy
    <2> HIDE DEF x
    <2>3. PutIn(pipe'[d], p, 1, x) /\ \A o \in Dir : o # d => pipe'[o] = pipe[o]
        BY <1>2, <1>5, <2>1, <2>2
    <2>4. Whole(pipe'[d], mover[d], sent[d], got[d])
        BY <1>3, <2>2, <2>3, RowClosed DEF x
    <2>5. QED
        BY <1>3, <2>2, <2>3, <2>4 DEF RowsNext
<1>8. CASE ResetBy(d)
    BY <1>8 DEF ResetBy
<1>9. CASE Take(d)
    <2>1. UNCHANGED <<setup, mover, sent>> /\ got[d].end = "open"
        BY <1>9 DEF Take, Proxy
    <2>2. CASE p[N + 1].n = 0 /\ p[N + 1].end # "open" /\ UNCHANGED pipe
               /\ got' = [got EXCEPT ![d].end = p[N + 1].end]
        <3>1. got'[d].n = got[d].n /\ got'[d].end = p[N + 1].end /\ \A o \in Dir : o # d => got'[o] = got[o]
            BY <1>2, <2>2
        <3>2. Whole(p, mover[d], sent[d], got'[d])
            BY <1>3, <2>2, <3>1, RowSeen
        <3>3. QED
            BY <1>3, <2>1, <2>2, <3>1, <3>2 DEF RowsNext
    <2>3. CASE /\ p[N + 1].n > 0 /\ pipe' = [pipe EXCEPT ![d][N + 1].n = @ - 1]
               /\ got' = [got EXCEPT ![d].n = @ + 1]
        <3> DEFINE x == [p[N + 1] EXCEPT !.n = p[N + 1].n - 1]
        <3>1. p[N + 1].n - 1 \in 0..PipeCap
            BY <1>4, <2>3
        <3>2. x \in Pipe
            BY <1>4, <3>1, PipeFacts
        <3>3. pipe' = [pipe EXCEPT ![d][N + 1] = x]
            BY <1>2, <2>3
        <3> HIDE DEF x
        <3>4. PutIn(pipe'[d], p, N + 1, x) /\ \A o \in Dir : o # d => pipe'[o] = pipe[o]
            BY <1>2, <1>5, <3>2, <3>3
        <3>5. got'[d].n = got[d].n + 1 /\ got'[d].end = got[d].end /\ \A o \in Dir : o # d => got'[o] = got[o]
            BY <1>2, <2>3
        <3>6. Whole(pipe'[d], mover[d], sent[d], got'[d])
            BY <1>3, <2>1, <2>3, <3>4, <3>5, RowTaken DEF x
        <3>7. QED
            BY <1>3, <2>1, <3>4, <3>5, <3>6 DEF RowsNext
    <2>4. QED
        BY <1>2, <1>9, <2>2, <2>3 DEF Take
<1>10. QED
    BY <1>1, <1>6, <1>7, <1>8, <1>9

\* A copy that runs meets neither an error nor a closed sink.
LEMMA CopyRows ==
    ASSUME Types, AllRows, NEW d \in Dir, Copy(d) \/ CopyEnds(d)
    PROVE  RowsNext
<1> DEFINE i == Place(d, "relay")
<1>1. i \in 1..N
    BY RelayPlace DEF Types
<1>2. mover[d][i] = "run" /\ UNCHANGED <<setup, sent, got>>
    BY DEF Copy, CopyEnds, RawRelay
<1>3. CASE Copy(d)
    <2>1. PICK k \in 1..pipe[d][i].n :
              /\ pipe[d][i + 1].n + k <= PipeCap
              /\ pipe' = [pipe EXCEPT ![d][i].n = @ - k, ![d][i + 1].n = @ + k]
        BY <1>3 DEF Copy
    <2> HIDE DEF i
    <2>2. k \in Nat /\ k <= pipe[d][i].n
        BY <1>1, PipesOf
    <2>3. QED
        BY <1>1, <1>2, <1>3, <2>1, <2>2, RowsMoved DEF Copy
<1>4. CASE CopyEnds(d)
    <2>1. /\ mover' = [mover EXCEPT ![d][i] = "done"]
          /\ \/ /\ pipe[d][i].n = 0 /\ pipe[d][i].end = "eof"
                /\ pipe' = [pipe EXCEPT ![d][i + 1] = Ended(@, "eof")]
             \/ pipe[d][i].end = "error" \/ ~pipe[d][i + 1].read
        BY <1>4 DEF CopyEnds
    <2> HIDE DEF i
    <2>2. pipe[d][i + 1].read /\ pipe[d][i].end # "error"
        BY <1>1, <1>2, SinkIsRead DEF AllRows
    <2>3. QED
        BY <1>1, <1>2, <2>1, <2>2, RowsEnd
<1>5. QED
    BY <1>3, <1>4

\* Both copies have ended, so that nothing is left in what the relay drops.
LEMMA TunnelEndsRows ==
    ASSUME Types, AllRows, TunnelEnds
    PROVE  RowsNext
<1>1. /\ pipe' = Dropped(pipe) /\ mover' = RelayStopped(mover)
      /\ \A d \in Dir : mover[d][Place(d, "relay")] = "done"
      /\ UNCHANGED <<setup, sent, got>>
    BY DEF TunnelEnds, Over
<1>2. /\ pipe \in [Dir -> [1..N + 1 -> Pipe]] /\ mover \in [Dir -> [1..N -> {"run", "done"}]]
      /\ setup \in Setup /\ N \in 1..3
    BY SetupFacts DEF Types
<1>3. ASSUME NEW d \in Dir PROVE Whole(pipe'[d], mover'[d], sent'[d], got'[d])
    <2> DEFINE i == Place(d, "relay")
               p == pipe[d]
               m == mover[d]
               x == Unread(p[i])
               q == [p EXCEPT ![i] = x]
    <2>1. i \in 1..N
        BY <1>2, RelayPlace
    <2>2. /\ pipe'[d] \in [1..N + 1 -> Pipe]
          /\ pipe'[d][i] = Unread(p[i]) /\ pipe'[d][i + 1] = Ended(p[i + 1], "eof")
          /\ \A j \in 1..N + 1 : j \notin {i, i + 1} => pipe'[d][j] = p[j]
          /\ mover'[d] = [m EXCEPT ![i] = "done"]
        BY <1>1, DroppedRows
    <2>3. m[i] = "done"
        BY <1>1
    <2>4. sent'[d] = sent[d] /\ got'[d] = got[d]
        BY <1>1
    <2> HIDE DEF i, N
    <2>5. /\ p \in [1..N + 1 -> Pipe] /\ m \in [1..N -> {"run", "done"}]
          /\ i \in 1..N + 1 /\ i + 1 \in 1..N + 1 /\ i # i + 1
        BY <1>2, <2>1
    <2>6. x \in Pipe
        <3>1. p[i] \in Pipe
            BY <2>5
        <3>2. \A z \in Pipe : Unread(z) \in Pipe
            BY PipeFacts
        <3>3. QED
            BY <3>1, <3>2
    <2> HIDE DEF x
    <2>7. /\ q \in [1..N + 1 -> Pipe] /\ q[i] = x
          /\ \A j \in 1..N + 1 : j # i => q[j] = p[j]
        BY <2>5, <2>6
    <2> HIDE DEF q
    <2>8. PutIn(q, p, i, Unread(p[i]))
        BY <2>7 DEF PutIn, x
    <2>9. Row(p, m, sent[d], got[d]) /\ Whole(p, m, sent[d], got[d])
        BY DEF AllRows
    <2> HIDE DEF p, m
    <2>10. Row(q, m, sent[d], got[d]) /\ Whole(q, m, sent[d], got[d])
        BY <2>1, <2>3, <2>8, <2>9, RowLeft
    <2>11. q[i].n = 0 /\ q[i].end = "eof"
        BY <2>1, <2>3, <2>10 DEF Whole
    <2>12. PutIn(pipe'[d], q, i + 1, Ended(q[i + 1], "eof"))
        <3>1. q[i + 1] = p[i + 1]
            BY <2>5, <2>7
        <3>2. \A j \in 1..N + 1 : j # i + 1 => pipe'[d][j] = q[j]
            BY <2>2, <2>7 DEF x
        <3>3. QED
            BY <2>2, <3>1, <3>2 DEF PutIn
    <2>13. Whole(pipe'[d], [m EXCEPT ![i] = "done"], sent[d], got[d])
        BY <2>1, <2>10, <2>11, <2>12, RowEnds
    <2>14. QED
        BY <2>2, <2>4, <2>13
<1>4. QED
    BY <1>1, <1>3 DEF RowsNext

\* What a bridge moves on, or the end it passes on.
LEMMA PumpRows ==
    ASSUME Types, AllRows, NEW d \in Dir, NEW m, Pump(d, m) \/ PumpEnds(d, m), Place(d, m) \in 1..N
    PROVE  RowsNext
<1> DEFINE i == Place(d, m)
<1>1. i \in 1..N /\ mover[d][i] = "run" /\ UNCHANGED <<setup, sent, got>>
    BY DEF Pump, PumpEnds, Bridged, Idle
<1>2. CASE Pump(d, m)
    <2>1. /\ pipe[d][i].n > 0 /\ pipe[d][i + 1].n < PipeCap /\ UNCHANGED mover
          /\ pipe' = [pipe EXCEPT ![d][i].n = @ - 1, ![d][i + 1].n = @ + 1]
        BY <1>2 DEF Pump
    <2> HIDE DEF i
    <2>2. 1 <= pipe[d][i].n /\ pipe[d][i + 1].n + 1 <= PipeCap /\ 1 \in Nat
        BY <1>1, <2>1, PipesOf, CapAssumption
    <2>3. QED
        BY <1>1, <2>1, <2>2, RowsMoved
<1>3. CASE PumpEnds(d, m)
    <2>1. /\ pipe[d][i].n = 0 /\ pipe[d][i].end = "eof"
          /\ pipe' = [pipe EXCEPT ![d][i + 1] = Ended(@, "eof")]
          /\ mover' = [mover EXCEPT ![d][i] = "done"]
        BY <1>3 DEF PumpEnds, SourceIs
    <2> HIDE DEF i
    <2>2. QED
        BY <1>1, <2>1, RowsEnd
<1>4. QED
    BY <1>2, <1>3

\* Nothing of an unreset stream breaks the bridge of the client's side.
LEMMA BridgeRows ==
    ASSUME Types, AllRows, Bridge
    PROVE  RowsNext
<1>1. setup.client = "h2" /\ "up" \in Dir /\ "down" \in Dir
    BY DEF Bridge, Dir
<1>2. ASSUME NEW d \in Dir, NEW m, <<d, m>> \in {<<"up", "receive">>, <<"down", "transmit">>}, Bridged(d, m)
      PROVE  /\ Place(d, m) \in 1..N
             /\ ~SinkGone(d, m) /\ ~SourceIs(d, m, "error")
    <2>1. Place(d, m) \in 1..N /\ mover[d][Place(d, m)] = "run"
        BY <1>1, <1>2, BridgedAt
    <2>2. pipe[d][Place(d, m) + 1].read /\ pipe[d][Place(d, m)].end # "error"
        BY <2>1, SinkIsRead DEF AllRows
    <2>3. QED
        BY <2>1, <2>2 DEF SinkGone, SourceIs
<1>3. ASSUME Pump("up", "receive") \/ PumpEnds("up", "receive") PROVE RowsNext
    <2>1. Place("up", "receive") \in 1..N
        BY <1>1, <1>2, <1>3 DEF Pump, PumpEnds
    <2>2. QED
        BY <1>1, <1>3, <2>1, PumpRows
<1>4. ASSUME Pump("down", "transmit") \/ PumpEnds("down", "transmit") PROVE RowsNext
    <2>1. Place("down", "transmit") \in 1..N
        BY <1>1, <1>2, <1>4 DEF Pump, PumpEnds
    <2>2. QED
        BY <1>1, <1>4, <2>1, PumpRows
<1>5. ~ReceiveFails
    BY <1>1, <1>2 DEF ReceiveFails
<1>6. ~TransmitFails
    BY <1>1, <1>2 DEF TransmitFails
<1>7. QED
    BY <1>3, <1>4, <1>5, <1>6 DEF Bridge

\* A pipe put back as it was.
LEMMA SameRow ==
    ASSUME NEW p, NEW q, NEW i \in 1..N + 1, p \in [1..N + 1 -> Pipe], PutIn(q, p, i, p[i])
    PROVE  q = p
<1> DEFINE S == 1..N + 1
<1>1. q \in [S -> Pipe]
    BY DEF PutIn
<1>2. q = [j \in S |-> q[j]]
    BY <1>1
<1>3. p = [j \in S |-> p[j]]
    OBVIOUS
<1>4. \A j \in S : q[j] = p[j]
    BY DEF PutIn
<1> HIDE DEF S
<1>5. QED
    BY <1>2, <1>3, <1>4

\* Another pipe in its place.
LEMMA RowPut ==
    ASSUME NEW p \in [Dir -> [1..N + 1 -> Pipe]], NEW d \in Dir, NEW i \in 1..N + 1, NEW x \in Pipe, Types
    PROVE  LET r == [p EXCEPT ![d][i] = x]
           IN /\ r \in [Dir -> [1..N + 1 -> Pipe]]
              /\ PutIn(r[d], p[d], i, x)
              /\ \A o \in Dir : o # d => r[o] = p[o]
<1> DEFINE r == [p EXCEPT ![d][i] = x]
<1>1. /\ r \in [Dir -> [1..N + 1 -> Pipe]] /\ r[d][i] = x
      /\ \A j \in 1..N + 1 : j # i => r[d][j] = p[d][j]
      /\ \A o \in Dir : o # d => r[o] = p[o]
    BY PutRow
<1> HIDE DEF r, N
<1>2. QED
    BY <1>1 DEF PutIn, r

\* The bridge of the server's side: what its reading task drops when it stops is
\* empty, and the pipe it shares with the other is dropped only when both are done.
LEMMA WebSocketBridgeRows ==
    ASSUME Types, AllRows, WebSocketBridge
    PROVE  RowsNext
<1>1. setup.server = "h2" /\ "up" \in Dir /\ "down" \in Dir /\ "up" # "down"
    BY DEF WebSocketBridge, Dir
<1>2. ASSUME NEW d \in Dir, NEW m, <<d, m>> \in {<<"up", "send">>, <<"down", "answer">>}, Bridged(d, m)
      PROVE  /\ Place(d, m) \in 1..N
             /\ ~SinkGone(d, m) /\ ~SourceIs(d, m, "error")
    <2>1. Place(d, m) \in 1..N /\ mover[d][Place(d, m)] = "run"
        BY <1>1, <1>2, BridgedAt
    <2>2. pipe[d][Place(d, m) + 1].read /\ pipe[d][Place(d, m)].end # "error"
        BY <2>1, SinkIsRead DEF AllRows
    <2>3. QED
        BY <2>1, <2>2 DEF SinkGone, SourceIs
<1>3. ASSUME Pump("up", "send") \/ PumpEnds("up", "send") PROVE RowsNext
    <2>1. Place("up", "send") \in 1..N
        BY <1>1, <1>2, <1>3 DEF Pump, PumpEnds
    <2>2. QED
        BY <1>1, <1>3, <2>1, PumpRows
<1>4. ASSUME Pump("down", "answer") PROVE RowsNext
    <2>1. Place("down", "answer") \in 1..N
        BY <1>1, <1>2, <1>4 DEF Pump
    <2>2. QED
        BY <1>1, <1>4, <2>1, PumpRows
<1>5. ~SendStops
    BY <1>1, <1>2 DEF SendStops
<1>6. CASE AnswerStops
    <2>1. /\ pipe \in [Dir -> [1..N + 1 -> Pipe]] /\ mover \in [Dir -> [1..N -> {"run", "done"}]]
          /\ N \in 1..3 /\ setup \in Setup
        BY SetupFacts DEF Types
    <2> DEFINE p == pipe["down"]
               u == pipe["up"]
               b == Ended(p[2], "eof")
               a == Unread(p[1])
               c == IF mover["up"][N] = "done" THEN Unread(u[N]) ELSE u[N]
               p1 == [pipe EXCEPT !["down"][2] = b]
               p2 == [p1 EXCEPT !["down"][1] = a]
               p3 == [p2 EXCEPT !["up"][N] = c]
               l == [mover["down"] EXCEPT ![1] = "done"]
    <2>2. Bridged("down", "answer")
        BY <1>6 DEF AnswerStops
    <2>3. SourceIs("down", "answer", "eof")
        BY <1>1, <1>2, <1>6, <2>2 DEF AnswerStops
    <2>4. Place("down", "answer") = 1 /\ Place("up", "send") = N /\ mover["down"][1] = "run"
        BY <1>1, <2>2, Places, BridgedAt DEF Types, Bridged
    <2> HIDE DEF N
    <2>5. /\ 1 \in 1..N /\ N \in 1..N /\ 1 \in 1..N + 1 /\ 2 \in 1..N + 1 /\ N \in 1..N + 1 /\ 1 # 2 /\ 2 = 1 + 1
        BY <2>1
    <2>6. p[1].n = 0 /\ p[1].end = "eof"
        BY <2>3, <2>4 DEF SourceIs
    <2>7. a \in Pipe /\ b \in Pipe /\ c \in Pipe
        <3>1. p[1] \in Pipe /\ p[2] \in Pipe /\ u[N] \in Pipe
            BY <1>1, <2>1, <2>5
        <3>2. QED
            BY <3>1, PipeFacts
    <2>8. /\ pipe' = p3 /\ mover' = [mover EXCEPT !["down"][1] = "done"]
          /\ UNCHANGED <<setup, sent, got>>
        <3>1. /\ pipe' = [pipe EXCEPT !["down"][1] = Unread(@), !["down"][2] = Ended(@, "eof"),
                                      !["up"][N] = IF mover["up"][N] = "done" THEN Unread(@) ELSE @]
              /\ mover' = [mover EXCEPT !["down"][1] = "done"]
              /\ UNCHANGED <<setup, sent, got>>
            BY <1>6, <2>4 DEF AnswerStops, Idle
        <3>2. pipe' = [pipe EXCEPT !["down"][1] = a, !["down"][2] = b, !["up"][N] = c]
            BY <1>1, <2>1, <2>5, <3>1
        <3> HIDE DEF a, b, c
        <3>3. [pipe EXCEPT !["down"][1] = a, !["down"][2] = b, !["up"][N] = c] = p3
            <4> DEFINE u1 == [[p EXCEPT ![1] = a] EXCEPT ![2] = b]
                       u2 == [[p EXCEPT ![2] = b] EXCEPT ![1] = a]
            <4>1. p \in [1..N + 1 -> Pipe] /\ u \in [1..N + 1 -> Pipe]
                BY <1>1, <2>1
            <4>2. u1 = u2
                BY <2>5, <4>1
            <4>3. [pipe EXCEPT !["down"][1] = a, !["down"][2] = b, !["up"][N] = c]
                      = [pipe EXCEPT !["down"] = u1, !["up"] = [u EXCEPT ![N] = c]]
                BY <1>1, <2>1
            <4>4. p3 = [pipe EXCEPT !["down"] = u2, !["up"] = [u EXCEPT ![N] = c]]
                BY <1>1, <2>1
            <4>5. QED
                BY <4>2, <4>3, <4>4
        <3>4. QED
            BY <3>1, <3>2, <3>3
    <2>9. /\ mover'["down"] = l /\ mover'["up"] = mover["up"]
        BY <1>1, <2>1, <2>5, <2>8, MoverStops
    <2> HIDE DEF a, b, c, l
    <2>10. /\ p1 \in [Dir -> [1..N + 1 -> Pipe]]
           /\ PutIn(p1["down"], p, 2, b) /\ p1["up"] = u
        BY <1>1, <2>1, <2>5, <2>7, RowPut
    <2> HIDE DEF p1
    <2>11. /\ p2 \in [Dir -> [1..N + 1 -> Pipe]]
           /\ PutIn(p2["down"], p1["down"], 1, a) /\ p2["up"] = u
        BY <1>1, <2>5, <2>7, <2>10, RowPut
    <2> HIDE DEF p2
    <2>12. PutIn(p3["up"], u, N, c) /\ p3["down"] = p2["down"]
        BY <1>1, <2>5, <2>7, <2>11, RowPut
    <2> HIDE DEF p3
    <2>13. Whole(p2["down"], l, sent["down"], got["down"])
        <3>1. Row(p, mover["down"], sent["down"], got["down"]) /\ Whole(p, mover["down"], sent["down"], got["down"])
            BY <1>1 DEF AllRows
        <3> HIDE DEF p
        <3>2. Row(p1["down"], l, sent["down"], got["down"]) /\ Whole(p1["down"], l, sent["down"], got["down"])
            BY <2>5, <2>6, <2>10, <3>1, RowEnds DEF b, l
        <3>3. p1["down"][1] = p[1]
            BY <2>5, <2>10 DEF PutIn
        <3>4. l[1] = "done"
            BY <1>1, <2>1, <2>5 DEF l
        <3>5. QED
            BY <2>5, <2>11, <3>2, <3>3, <3>4, RowLeft DEF a
    <2>14. Whole(p3["up"], mover["up"], sent["up"], got["up"])
        <3>1. Row(u, mover["up"], sent["up"], got["up"]) /\ Whole(u, mover["up"], sent["up"], got["up"])
            BY <1>1 DEF AllRows
        <3>2. CASE mover["up"][N] = "done"
            BY <2>5, <2>12, <3>1, <3>2, RowLeft DEF c
        <3>3. CASE mover["up"][N] # "done"
            <4>1. p3["up"] = u
                BY <1>1, <2>1, <2>5, <2>12, <3>3, SameRow DEF c
            <4>2. QED
                BY <3>1, <4>1
        <3>4. QED
            BY <3>2, <3>3
    <2>15. QED
        BY <2>8, <2>9, <2>12, <2>13, <2>14 DEF RowsNext, Dir
<1>7. QED
    BY <1>3, <1>4, <1>5, <1>6 DEF WebSocketBridge

\* Every step keeps the rows whole, or is a failure.
LEMMA WholeStep ==
    ASSUME Types, WholeInv, [Next]_vars
    PROVE  WholeInv'
<1>1. CASE setup'.speaks = "raw" /\ ~failed'
    <2>1. UNCHANGED setup /\ (failed => failed')
        <3>1. ASSUME Opening PROVE UNCHANGED setup /\ (failed => failed')
            BY <3>1 DEF Opening, Accept, Refuse, AcceptWebSocket, Upgraded, UpgradeFails, Connect, ConnectFails
        <3>2. ASSUME Relay PROVE UNCHANGED setup /\ (failed => failed')
            BY <3>2 DEF Relay, Copy, CopyEnds, WsNext, TunnelEnds, WsSend, WsEnds
        <3>3. ASSUME Bridge PROVE UNCHANGED setup /\ (failed => failed')
            BY <3>3 DEF Bridge, Pump, PumpEnds, ReceiveFails, TransmitFails, Idle
        <3>4. ASSUME WebSocketBridge PROVE UNCHANGED setup /\ (failed => failed')
            BY <3>4 DEF WebSocketBridge, Pump, PumpEnds, SendStops, AnswerStops, Idle
        <3>5. ASSUME Sides PROVE UNCHANGED setup /\ (failed => failed')
            BY <3>5 DEF Sides, Send, End, ResetBy, Take, Proxy
        <3>6. ASSUME UNCHANGED vars PROVE UNCHANGED setup /\ (failed => failed')
            BY <3>6 DEF vars
        <3>7. QED
            BY <3>1, <3>2, <3>3, <3>4, <3>5, <3>6 DEF Next
    <2>2. setup.speaks = "raw" /\ ~failed /\ AllRows
        BY <1>1, <2>1, RowsOf
    <2>3. ASSUME UNCHANGED vars PROVE RowsNext
        <3>1. UNCHANGED <<setup, pipe, mover, sent, got>>
            BY <2>3 DEF vars
        <3>2. QED
            BY <2>2, <3>1, RowsKept
    <2>4. ASSUME Relay PROVE RowsNext
        <3>1. (\E d \in Dir : Copy(d) \/ CopyEnds(d)) \/ TunnelEnds
            BY <2>2, <2>4 DEF Relay, WsNext, WsSend, WsEnds, WsRelay
        <3>2. QED
            BY <2>2, <3>1, CopyRows, TunnelEndsRows
    <2>5. RowsNext
        <3>1. ASSUME Opening PROVE RowsNext
            BY <1>1, <2>2, <3>1, OpeningRows
        <3>2. ASSUME Sides PROVE RowsNext
            BY <1>1, <2>2, <3>2, SidesRows
        <3>3. ASSUME Bridge PROVE RowsNext
            BY <2>2, <3>3, BridgeRows
        <3>4. ASSUME WebSocketBridge PROVE RowsNext
            BY <2>2, <3>4, WebSocketBridgeRows
        <3>5. QED
            BY <2>3, <2>4, <3>1, <3>2, <3>3, <3>4 DEF Next
    <2>6. QED
        BY <2>1, <2>5 DEF RowsNext, WholeInv, Whole, Amount, N
<1>2. QED
    BY <1>1 DEF WholeInv

-----------------------------------------------------------------------------
(* The invariant, and what follows from it.                                *)

\* Empty pipes are whole, empty recordings honest.
LEMMA InitIInv == Init => IInv
<1> SUFFICES ASSUME Init PROVE IInv
    OBVIOUS
<1> DEFINE x == [n |-> 0, end |-> "open", read |-> TRUE]
           g == [n |-> 0, end |-> "open"]
           c == [total |-> 0, kept |-> 0, truncated |-> FALSE]
<1>1. setup \in Setup /\ N \in 1..3 /\ PipeCap \in Nat /\ MaxCapture \in Nat \ {0}
    BY SetupFacts DEF Init
<1>2. x \in Pipe
    BY <1>1 DEF Pipe
<1>3. \A d \in Dir : Len(Movers(setup, d)) = N
    BY <1>1, Places
<1> HIDE DEF N
<1>4. pipe = [d \in Dir |-> [i \in 1..N + 1 |-> x]] /\ mover = [d \in Dir |-> [i \in 1..N |-> "run"]]
    BY <1>3 DEF Init
<1> HIDE DEF x
<1>5. Types
    <2>1. got \in [Dir -> [n : Nat, end : {"open", "eof", "error"}]] /\ sent \in [Dir -> Nat]
        BY DEF Init
    <2>2. capture \in [Dir -> Capture]
        BY DEF Init, Capture, Chunks, NoChunks
    <2>3. /\ pipe \in [Dir -> [1..N + 1 -> Pipe]] /\ mover \in [Dir -> [1..N -> {"run", "done"}]]
        BY <1>2, <1>4
    <2>4. /\ phase \in {"asked", "upgrade", "open", "over"}
          /\ answer \in {"none", "accepted", "refused"}
          /\ taken \in Dir \cup {"none"}
          /\ reported \in {"none", "connected", "closed"} /\ failed \in BOOLEAN
        BY DEF Init
    <2>5. QED
        BY <1>1, <2>1, <2>2, <2>3, <2>4 DEF Types
<1>6. WholeInv
    <2>1. ASSUME NEW d \in Dir PROVE Whole(pipe[d], mover[d], sent[d], got[d])
        <3>1. /\ \A i \in 1..N + 1 : pipe[d][i] = x
              /\ \A i \in 1..N : mover[d][i] = "run"
              /\ sent[d] = 0 /\ got[d].n = 0 /\ got[d].end = "open"
            <4>1. (\A i \in 1..N + 1 : pipe[d][i] = x) /\ (\A i \in 1..N : mover[d][i] = "run")
                BY <1>4
            <4>2. sent[d] = 0 /\ got[d].n = 0 /\ got[d].end = "open"
                BY DEF Init
            <4>3. QED
                BY <4>1, <4>2
        <3>2. /\ 1 \in 1..N + 1 /\ 2 \in 1..N + 1 /\ N + 1 \in 1..N + 1
              /\ N >= 2 => 3 \in 1..N + 1
              /\ N >= 3 => 4 \in 1..N + 1
              /\ \A i \in 1..N : i \in 1..N + 1 /\ i + 1 \in 1..N + 1
            BY <1>1
        <3>3. x.n = 0 /\ x.end = "open" /\ x.read
            BY DEF x
        <3>4. Amount(pipe[d]) = 0
            BY <1>1, <3>1, <3>2, <3>3 DEF Amount
        <3>5. QED
            BY <1>1, <3>1, <3>2, <3>3, <3>4 DEF Whole
    <2>2. QED
        BY <2>1 DEF WholeInv
<1>7. CaptureInv
    <2>1. ASSUME NEW d \in Dir PROVE Accounted(capture[d])
        <3>1. capture[d] = [total |-> 0, captured |-> 0, emitted |-> FALSE,
                            seen |-> NoChunks, lost |-> NoChunks]
            BY DEF Init
        <3>2. Kept(0) = 0 /\ 1..0 = {} /\ ~(0 > MaxCapture)
            BY <1>1 DEF Kept
        <3>3. QED
            BY <3>1, <3>2 DEF Accounted, NoChunks
    <2>2. QED
        BY <2>1 DEF CaptureInv
<1>8. QED
    BY <1>5, <1>6, <1>7 DEF IInv

\* In any connection, at any time: rows without a reset are whole, and every
\* chunk of a recording accounted for.
THEOREM Invariance == Spec => []IInv
<1>1. IInv /\ [Next]_vars => IInv'
    BY TypesStep, WholeStep, CaptureStep DEF IInv
<1>2. QED
    BY <1>1, InitIInv, PTL DEF Spec

\* When the receiver has seen the end, every mover before it has stopped with
\* nothing left, back to the sender.
LEMMA WholeIsKept ==
    ASSUME NEW p, NEW m, NEW s, NEW g, Row(p, m, s, g), Whole(p, m, s, g), g.end # "open",
           g.end \in {"open", "eof", "error"}
    PROVE  g.end = "eof" /\ p[1].end = "eof" /\ g.n = s
<1>1. N \in 1..3 /\ g.n \in Nat /\ s \in Nat
    BY DEF Row
<1>2. g.end = "eof" /\ p[N + 1].n = 0 /\ p[N + 1].end = "eof" /\ Amount(p) + g.n = s
    BY DEF Whole
<1> HIDE DEF N
<1>3. \A i \in 1..N : p[i + 1].end = "eof" => p[i].n = 0 /\ p[i].end = "eof"
    BY DEF Whole
<1>4. CASE N = 1
    BY <1>1, <1>2, <1>3, <1>4 DEF Amount
<1>5. CASE N = 2
    <2>1. p[2].n = 0 /\ p[2].end = "eof"
        BY <1>2, <1>3, <1>5
    <2>2. p[1].n = 0 /\ p[1].end = "eof"
        BY <1>3, <1>5, <2>1
    <2>3. QED
        BY <1>1, <1>2, <1>5, <2>1, <2>2 DEF Amount
<1>6. CASE N = 3
    <2>1. p[3].n = 0 /\ p[3].end = "eof"
        BY <1>2, <1>3, <1>6
    <2>2. p[2].n = 0 /\ p[2].end = "eof"
        BY <1>3, <1>6, <2>1
    <2>3. p[1].n = 0 /\ p[1].end = "eof"
        BY <1>3, <1>6, <2>2
    <2>4. QED
        BY <1>1, <1>2, <1>6, <2>1, <2>2, <2>3 DEF Amount
<1>7. QED
    BY <1>1, <1>4, <1>5, <1>6

\* Unless a side resets, what the receiver has got when it sees the end is all that
\* was sent, through every bridge and copy in between.
THEOREM RelayIsWholeHolds == Spec => []RelayIsWhole
<1>1. IInv => RelayIsWhole
    <2> SUFFICES ASSUME IInv PROVE RelayIsWhole
        OBVIOUS
    <2>1. TypeOK
        <3>1. ASSUME NEW d \in Dir, NEW i \in DOMAIN pipe[d] PROVE pipe[d][i] \in Pipe
            <4>1. pipe[d] \in [1..N + 1 -> Pipe]
                BY DEF IInv, Types
            <4> HIDE DEF N
            <4>2. QED
                BY <3>1, <4>1
        <3>2. QED
            BY <3>1 DEF IInv, Types, TypeOK, Pipe
    <2>2. HalfCloseIsWhole
        <3>1. CASE setup.speaks = "raw" /\ ~failed
            <4>1. AllRows
                BY <3>1, RowsOf DEF IInv
            <4>2. \A d \in Dir : got[d].end \in {"open", "eof", "error"}
                BY DEF IInv, Types
            <4>3. QED
                BY <4>1, <4>2, WholeIsKept DEF AllRows, HalfCloseIsWhole
        <3>2. QED
            BY <3>1 DEF HalfCloseIsWhole
    <2>3. QED
        BY <2>1, <2>2 DEF RelayIsWhole
<1>2. QED
    BY <1>1, Invariance, PTL

\* The recording of a raw stream is its beginning up to the limit and says when
\* something is missing.
THEOREM CaptureIsHonestHolds == Spec => []CaptureIsHonest
<1>1. IInv => CaptureIsHonest
    <2>1. ASSUME CaptureInv, NEW d \in Dir
          PROVE  LET c == capture[d]
                     beginning == 1..(IF c.total < MaxCapture THEN c.total ELSE MaxCapture)
                 IN /\ c.lost.units \subseteq beginning
                    /\ c.seen.units = beginning \ c.lost.units
                    /\ c.seen.marks + c.lost.marks = IF c.total > MaxCapture THEN 1 ELSE 0
        BY <2>1 DEF CaptureInv, Accounted, Kept
    <2>2. QED
        BY <2>1 DEF IInv, CaptureIsHonest
<1>2. QED
    BY <1>1, Invariance, PTL
=============================================================================
