---------------------------- MODULE ServerProofs ----------------------------
(* Proofs about an accepted connection: about Front, for every set of       *)
(* connections, rules and limits of the sniffer, and about Http1Server, for  *)
(* every number of requests on a connection and every capacity of the        *)
(* pipeline.                                                                *)
EXTENDS Front, Http1Server, SequenceTheorems, FiniteSetTheorems, WellFoundedInduction, TLAPS

-----------------------------------------------------------------------------
(* Induction.  The library states it for an operator, these for a set.      *)

\* A set of naturals that is not empty has a least element.
LEMMA LeastNatural ==
    ASSUME NEW T, T \subseteq Nat, T # {}
    PROVE  \E x \in T : \A y \in T : x <= y
<1>1. IsWellFoundedOn(OpToRel(<, Nat), Nat)
    BY NatLessThanWellFounded
<1>2. PICK x \in T : \A y \in T : ~(<<y, x>> \in OpToRel(<, Nat))
    BY <1>1, WFMin
<1>3. x \in Nat /\ \A y \in T : y \in Nat
    OBVIOUS
<1>4. \A y \in T : ~(y < x)
    BY <1>2, <1>3 DEF OpToRel
<1>5. \A y \in T : x <= y
    BY <1>3, <1>4
<1>6. QED
    BY <1>5

\* A set that holds 0 and with each natural the next one holds them all.
LEMMA Induction ==
    ASSUME NEW S, 0 \in S, \A i \in Nat : i \in S => i + 1 \in S
    PROVE  Nat \subseteq S
<1> DEFINE T == {i \in Nat : i \notin S}
<1>1. SUFFICES ASSUME T # {} PROVE FALSE
    OBVIOUS
<1>2. PICK x \in T : \A y \in T : x <= y
    BY <1>1, LeastNatural
<1>3. x # 0 /\ x - 1 \in Nat /\ x - 1 \notin T
    BY <1>2
<1>4. QED
    BY <1>2, <1>3

-----------------------------------------------------------------------------
(* Sequences.                                                              *)

\* What Take and Skip cut out of a sequence, and that together they are the sequence.
LEMMA TakeSkip ==
    ASSUME NEW S, NEW s \in Seq(S), NEW k \in 0 .. Len(s)
    PROVE  /\ Take(k, s) \in Seq(S) /\ Len(Take(k, s)) = k
           /\ Skip(k, s) \in Seq(S) /\ Len(Skip(k, s)) = Len(s) - k
           /\ Take(k, s) \o Skip(k, s) = s
           /\ \A i \in 1 .. k : Take(k, s)[i] = s[i]
           /\ \A i \in 1 .. Len(s) - k : Skip(k, s)[i] = s[k + i]
<1>1. Len(s) \in Nat /\ \A i \in 1 .. Len(s) : s[i] \in S
    BY LenProperties, ElementOfSeq
<1>2. /\ Take(k, s) \in Seq(S) /\ Len(Take(k, s)) = k
      /\ \A i \in 1 .. k : Take(k, s)[i] = s[i]
    BY <1>1, SubSeqProperties DEF Take
<1>3. /\ Skip(k, s) \in Seq(S) /\ Len(Skip(k, s)) = Len(s) - k
      /\ \A i \in 1 .. Len(s) - k : Skip(k, s)[i] = s[k + i]
    BY <1>1, SubSeqProperties DEF Skip
<1>4. /\ Take(k, s) \o Skip(k, s) \in Seq(S) /\ Len(Take(k, s) \o Skip(k, s)) = Len(s)
      /\ \A i \in 1 .. Len(s) : (Take(k, s) \o Skip(k, s))[i] = s[i]
    <2>1. /\ Take(k, s) \o Skip(k, s) \in Seq(S) /\ Len(Take(k, s) \o Skip(k, s)) = Len(s)
          /\ \A i \in 1 .. Len(s) : (Take(k, s) \o Skip(k, s))[i] =
                IF i <= k THEN Take(k, s)[i] ELSE Skip(k, s)[i - k]
        BY <1>1, <1>2, <1>3, ConcatProperties
    <2>2. ASSUME NEW i \in 1 .. Len(s) PROVE (Take(k, s) \o Skip(k, s))[i] = s[i]
        <3>1. CASE i <= k
            <4>1. i \in 1 .. k
                BY <3>1
            <4>2. QED
                BY <1>2, <2>1, <3>1, <4>1
        <3>2. CASE ~(i <= k)
            <4>1. i - k \in 1 .. Len(s) - k /\ k + (i - k) = i
                BY <1>1, <3>2
            <4>2. Skip(k, s)[i - k] = s[i]
                BY <1>3, <4>1
            <4>3. QED
                BY <2>1, <3>2, <4>2
        <3>3. QED
            BY <3>1, <3>2
    <2>3. QED
        BY <2>1, <2>2
<1>5. QED
    BY <1>2, <1>3, <1>4, SeqEqual

\* The sequence after one more element.
LEMMA SkipOne ==
    ASSUME NEW S, NEW s \in Seq(S), NEW k \in Nat, k < Len(s)
    PROVE  /\ Skip(k, s) = << s[k + 1] >> \o Skip(k + 1, s)
           /\ s[k + 1] \in S /\ Skip(k + 1, s) \in Seq(S)
<1>1. Len(s) \in Nat /\ k + 1 \in 1 .. Len(s) /\ Len(s) \in k + 1 .. Len(s)
    BY LenProperties
<1>2. SubSeq(s, k + 1, Len(s)) = << s[k + 1] >> \o SubSeq(s, k + 1 + 1, Len(s))
    BY <1>1, SubSeqRecursiveFirst
<1>3. s[k + 1] \in S
    BY <1>1, ElementOfSeq
<1>4. k + 1 \in 0 .. Len(s)
    BY <1>1
<1>5. Skip(k + 1, s) \in Seq(S)
    BY <1>4, TakeSkip
<1>6. QED
    BY <1>2, <1>3, <1>5 DEF Skip

\* A concatenation, as an operator the provers leave alone.
Cat(s, t) == s \o t

\* A concatenation of three, however it is bracketed.
LEMMA Assoc ==
    \A S : \A s, t, u \in Seq(S) :
      Cat(Cat(s, t), u) = Cat(s, Cat(t, u)) /\ Cat(s, t) \in Seq(S) /\ Cat(s, Cat(t, u)) \in Seq(S)
<1>1. SUFFICES ASSUME NEW S, NEW s \in Seq(S), NEW t \in Seq(S), NEW u \in Seq(S)
               PROVE  (s \o t) \o u = s \o (t \o u) /\ s \o t \in Seq(S) /\ s \o (t \o u) \in Seq(S)
    BY DEF Cat
<1>2. QED
    BY ConcatAssociative, ConcatProperties

-----------------------------------------------------------------------------
(* FlattenSeq: the function it is defined by exists, and what it computes.  *)

\* The prefixes one after the other: what has been put together after each.
LEMMA Flattening ==
    ASSUME NEW S, NEW s \in Seq(Seq(S)), s # <<>>
    PROVE  \E f \in [1 .. Len(s) -> Seq(S)] :
             /\ f[1] = s[1] /\ \A i \in 1 .. Len(s) - 1 : f[i + 1] = f[i] \o s[i + 1]
             /\ FlattenSeq(s) = f[Len(s)]
<1> DEFINE Eq(f) == f = [i \in 1 .. Len(s) |-> IF i = 1 THEN s[i] ELSE f[i - 1] \o s[i]]
           Partial(j) == {f \in [1 .. j + 1 -> Seq(S)] :
              f[1] = s[1] /\ \A i \in 1 .. j : f[i + 1] = f[i] \o s[i + 1]}
           Good == {j \in Nat : j + 1 <= Len(s) => Partial(j) # {}}
<1>1. Len(s) \in Nat /\ Len(s) >= 1 /\ \A i \in 1 .. Len(s) : s[i] \in Seq(S)
    BY EmptySeq, LenProperties, ElementOfSeq
<1>2. 0 \in Good
    <2>1. [i \in 1 .. 0 + 1 |-> s[1]] \in Partial(0)
        BY <1>1
    <2>2. QED
        BY <2>1
<1>3. ASSUME NEW j \in Nat, j \in Good
      PROVE  j + 1 \in Good
    <2> HIDE DEF Partial
    <2>1. SUFFICES ASSUME j + 1 + 1 <= Len(s) PROVE Partial(j + 1) # {}
        OBVIOUS
    <2>2. PICK f : f \in Partial(j)
        BY <1>1, <1>3, <2>1
    <2> USE DEF Partial
    <2> DEFINE g == [i \in 1 .. j + 1 + 1 |-> IF i <= j + 1 THEN f[i] ELSE f[j + 1] \o s[j + 1 + 1]]
    <2>g. \A i \in 1 .. j + 1 + 1 : g[i] = IF i <= j + 1 THEN f[i] ELSE f[j + 1] \o s[j + 1 + 1]
        OBVIOUS
    <2>3. f[j + 1] \in Seq(S) /\ s[j + 1 + 1] \in Seq(S)
        BY <1>1, <2>1, <2>2
    <2>4. f[j + 1] \o s[j + 1 + 1] \in Seq(S)
        BY <2>3, ConcatProperties
    <2>5. g \in [1 .. j + 1 + 1 -> Seq(S)]
        BY <2>2, <2>4
    <2> HIDE DEF g
    <2>6. g[1] = s[1]
        BY <2>2, <2>g
    <2>7. ASSUME NEW i \in 1 .. j + 1 PROVE g[i + 1] = g[i] \o s[i + 1]
        <3>1. CASE i = j + 1
            <4>1. g[i + 1] = f[j + 1] \o s[j + 1 + 1] /\ g[i] = f[j + 1] /\ i + 1 = j + 1 + 1
                <5>1. j + 1 \in 1 .. j + 1 + 1 /\ j + 1 + 1 \in 1 .. j + 1 + 1 /\ ~(j + 1 + 1 <= j + 1)
                    OBVIOUS
                <5>2. g[j + 1 + 1] = f[j + 1] \o s[j + 1 + 1]
                    BY <2>g, <5>1, Zenon
                <5>3. g[j + 1] = f[j + 1]
                    BY <2>g, <5>1, j + 1 <= j + 1, Zenon
                <5>4. QED
                    BY <3>1, <5>2, <5>3
            <4>2. QED
                BY <4>1
        <3>2. CASE i # j + 1
            <4>1. i \in 1 .. j /\ i + 1 \in 1 .. j + 1 + 1 /\ i \in 1 .. j + 1 + 1 /\ i + 1 <= j + 1 /\ i <= j + 1
                BY <3>2
            <4>2. g[i + 1] = f[i + 1] /\ g[i] = f[i]
                BY <2>g, <4>1, Zenon
            <4>3. QED
                BY <2>2, <4>1, <4>2
        <3>3. QED
            BY <3>1, <3>2
    <2>8. g \in Partial(j + 1)
        BY <2>5, <2>6, <2>7
    <2>9. QED
        BY <2>8
<1>4. Partial(Len(s) - 1) # {}
    <2> HIDE DEF Good, Partial
    <2>1. Nat \subseteq Good
        BY <1>2, <1>3, Induction
    <2>2. Len(s) - 1 \in Good /\ (Len(s) - 1) + 1 <= Len(s)
        BY <1>1, <2>1
    <2>3. QED
        BY <2>2 DEF Good
<1>5. PICK f : f \in Partial(Len(s) - 1)
    BY <1>4
<1>6. f \in [1 .. Len(s) -> Seq(S)] /\ f[1] = s[1] /\ \A i \in 1 .. Len(s) - 1 : f[i + 1] = f[i] \o s[i + 1]
    BY <1>1, <1>5, (Len(s) - 1) + 1 = Len(s)
<1>7. Eq(f)
    <2>1. ASSUME NEW i \in 1 .. Len(s), i # 1 PROVE f[i] = f[i - 1] \o s[i]
        <3>1. i - 1 \in 1 .. Len(s) - 1 /\ (i - 1) + 1 = i
            BY <1>1, <2>1
        <3>2. QED
            BY <1>6, <3>1
    <2>2. \A i \in 1 .. Len(s) : f[i] = IF i = 1 THEN s[i] ELSE f[i - 1] \o s[i]
        BY <1>6, <2>1
    <2>3. QED
        BY <1>6, <2>2
<1> DEFINE F == CHOOSE h : Eq(h)
<1>8. Eq(F)
    BY <1>7
<1>9. FlattenSeq(s) = F[Len(s)]
    BY <1>1 DEF FlattenSeq
<1>10. F = f
    <2>1. DOMAIN F = 1 .. Len(s) /\ DOMAIN f = 1 .. Len(s)
        BY <1>7, <1>8
    <2> DEFINE Same == {j \in Nat : j + 1 <= Len(s) => F[j + 1] = f[j + 1]}
    <2>2. \A i \in 1 .. Len(s) : F[i] = IF i = 1 THEN s[i] ELSE F[i - 1] \o s[i]
        BY <1>8
    <2>3. \A i \in 1 .. Len(s) : f[i] = IF i = 1 THEN s[i] ELSE f[i - 1] \o s[i]
        BY <1>7
    <2> HIDE DEF F
    <2>4. 0 \in Same
        BY <1>1, <2>2, <2>3
    <2>5. ASSUME NEW j \in Nat, j \in Same PROVE j + 1 \in Same
        <3>1. SUFFICES ASSUME j + 1 + 1 <= Len(s) PROVE F[j + 1 + 1] = f[j + 1 + 1]
            OBVIOUS
        <3>2. F[j + 1] = f[j + 1] /\ j + 1 + 1 \in 1 .. Len(s) /\ j + 1 + 1 # 1 /\ (j + 1 + 1) - 1 = j + 1
            BY <1>1, <2>5, <3>1
        <3>3. F[j + 1 + 1] = F[j + 1] \o s[j + 1 + 1] /\ f[j + 1 + 1] = f[j + 1] \o s[j + 1 + 1]
            BY <2>2, <2>3, <3>2
        <3>4. QED
            BY <3>2, <3>3
    <2>6. Nat \subseteq Same
        <3> HIDE DEF Same
        <3>1. QED
            BY <2>4, <2>5, Induction
    <2>7. ASSUME NEW i \in 1 .. Len(s) PROVE F[i] = f[i]
        <3>1. i - 1 \in Nat /\ (i - 1) + 1 = i
            BY <1>1
        <3>2. i - 1 \in Same
            BY <2>6, <3>1
        <3>3. QED
            BY <1>1, <3>1, <3>2
    <2>8. F = [i \in 1 .. Len(s) |-> F[i]] /\ f = [i \in 1 .. Len(s) |-> f[i]]
        <3>1. F = [i \in 1 .. Len(s) |-> IF i = 1 THEN s[i] ELSE F[i - 1] \o s[i]]
            BY <1>8
        <3>2. f = [i \in 1 .. Len(s) |-> f[i]]
            BY <1>6
        <3>3. QED
            BY <3>1, <3>2
    <2>9. QED
        BY <2>7, <2>8
<1>11. QED
    BY <1>6, <1>9, <1>10

\* The prefixes of a wrapper around others come after its own.
LEMMA FlattenCons ==
    ASSUME NEW S, NEW b \in Seq(S), NEW p \in Seq(Seq(S))
    PROVE  /\ FlattenSeq(<<>>) = <<>> /\ FlattenSeq(p) \in Seq(S)
           /\ << b >> \o p \in Seq(Seq(S)) /\ FlattenSeq(<< b >> \o p) = b \o FlattenSeq(p)
<1>1. FlattenSeq(<<>>) = <<>>
    BY DEF FlattenSeq
<1>2. FlattenSeq(p) \in Seq(S)
    <2>1. CASE p = <<>>
        BY <1>1, <2>1, EmptySeq
    <2>2. CASE p # <<>>
        <3>1. Len(p) \in 1 .. Len(p)
            BY <2>2, EmptySeq, LenProperties
        <3>2. PICK f \in [1 .. Len(p) -> Seq(S)] : FlattenSeq(p) = f[Len(p)]
            BY <2>2, Flattening
        <3>3. QED
            BY <3>1, <3>2
    <2>3. QED
        BY <2>1, <2>2
<1> DEFINE q == << b >> \o p
<1>3. << b >> \in Seq(Seq(S)) /\ Len(<< b >>) = 1
    OBVIOUS
<1>4. /\ q \in Seq(Seq(S)) /\ Len(q) = Len(p) + 1 /\ Len(p) \in Nat
      /\ q[1] = b /\ \A i \in 1 .. Len(p) : q[i + 1] = p[i]
    <2>1. /\ q \in Seq(Seq(S)) /\ Len(q) = 1 + Len(p) /\ Len(p) \in Nat
          /\ \A i \in 1 .. 1 + Len(p) : q[i] = IF i <= 1 THEN << b >>[i] ELSE p[i - 1]
        BY <1>3, ConcatProperties, LenProperties
    <2>2. ASSUME NEW i \in 1 .. Len(p) PROVE q[i + 1] = p[i]
        <3>1. i + 1 \in 1 .. 1 + Len(p) /\ ~(i + 1 <= 1) /\ (i + 1) - 1 = i
            BY <2>1
        <3>2. QED
            BY <2>1, <3>1
    <2>3. QED
        BY <2>1, <2>2
<1> HIDE DEF q
<1>5. q # <<>>
    BY <1>4, EmptySeq
<1>6. PICK g \in [1 .. Len(q) -> Seq(S)] :
        /\ g[1] = q[1] /\ \A i \in 1 .. Len(q) - 1 : g[i + 1] = g[i] \o q[i + 1]
        /\ FlattenSeq(q) = g[Len(q)]
    BY <1>4, <1>5, Flattening
<1>7. FlattenSeq(q) = b \o FlattenSeq(p)
    <2>1. CASE p = <<>>
        <3>1. Len(q) = 1 /\ FlattenSeq(p) = <<>>
            BY <1>1, <1>4, <2>1
        <3>2. QED
            BY <1>4, <1>6, <3>1, ConcatEmptySeq
    <2>2. CASE p # <<>>
        <3>1. PICK f \in [1 .. Len(p) -> Seq(S)] :
                /\ f[1] = p[1] /\ \A i \in 1 .. Len(p) - 1 : f[i + 1] = f[i] \o p[i + 1]
                /\ FlattenSeq(p) = f[Len(p)]
            BY <2>2, Flattening
        <3> DEFINE Same == {j \in Nat : j + 1 <= Len(p) => g[j + 1 + 1] = b \o f[j + 1]}
        <3>2. Len(p) >= 1
            BY <1>4, <2>2, EmptySeq
        <3>3. 0 \in Same
            <4>1. 1 \in 1 .. Len(q) - 1 /\ 1 \in 1 .. Len(p)
                BY <1>4, <3>2
            <4>2. g[1 + 1] = b \o p[1]
                BY <1>4, <1>6, <4>1
            <4>3. g[0 + 1 + 1] = b \o f[0 + 1]
                BY <3>1, <4>2, 0 + 1 = 1, 0 + 1 + 1 = 1 + 1
            <4>4. QED
                BY <4>3
        <3>4. ASSUME NEW j \in Nat, j \in Same PROVE j + 1 \in Same
            <4>1. SUFFICES ASSUME j + 1 + 1 <= Len(p) PROVE g[j + 1 + 1 + 1] = b \o f[j + 1 + 1]
                OBVIOUS
            <4>2. /\ j + 1 + 1 \in 1 .. Len(q) - 1 /\ j + 1 + 1 \in 1 .. Len(p)
                  /\ j + 1 \in 1 .. Len(p) - 1 /\ j + 1 \in 1 .. Len(p)
                BY <1>4, <4>1
            <4>3. g[j + 1 + 1 + 1] = g[j + 1 + 1] \o p[j + 1 + 1]
                BY <1>4, <1>6, <4>2
            <4>4. g[j + 1 + 1] = b \o f[j + 1]
                BY <3>4, <4>1
            <4>5. f[j + 1] \in Seq(S) /\ p[j + 1 + 1] \in Seq(S) /\ f[j + 1 + 1] = f[j + 1] \o p[j + 1 + 1]
                BY <3>1, <4>2, ElementOfSeq
            <4>6. Cat(Cat(b, f[j + 1]), p[j + 1 + 1]) = Cat(b, Cat(f[j + 1], p[j + 1 + 1]))
                BY SMTT(30), <4>5, Assoc
            <4>7. QED
                BY <4>3, <4>4, <4>5, <4>6 DEF Cat
        <3>5. Nat \subseteq Same
            <4> HIDE DEF Same
            <4>1. QED
                BY <3>3, <3>4, Induction
        <3> HIDE DEF Same
        <3>6. Len(p) - 1 \in Same /\ (Len(p) - 1) + 1 = Len(p) /\ Len(p) <= Len(p)
            BY <1>4, <3>2, <3>5
        <3>7. g[Len(p) + 1] = b \o f[Len(p)]
            BY <3>6 DEF Same
        <3>8. QED
            BY <1>4, <1>6, <3>1, <3>7
    <2>3. QED
        BY <2>1, <2>2
<1>8. QED
    BY <1>1, <1>2, <1>4, <1>7 DEF q

\* Prefixes that are empty do not count.
LEMMA FlattenSkip ==
    ASSUME NEW S, NEW p \in Seq(Seq(S)), NEW k \in 0 .. Len(p), \A i \in 1 .. k : p[i] = <<>>
    PROVE  FlattenSeq(p) = FlattenSeq(Skip(k, p))
<1> DEFINE Good == {j \in Nat : j <= k => FlattenSeq(p) = FlattenSeq(Skip(j, p))}
<1>1. Len(p) \in Nat
    BY LenProperties
<1>2. 0 \in Good
    <2>1. Skip(0, p) = p
        BY <1>1, SubSeqFull DEF Skip
    <2>2. QED
        BY <2>1
<1>3. ASSUME NEW j \in Nat, j \in Good PROVE j + 1 \in Good
    <2>1. SUFFICES ASSUME j + 1 <= k PROVE FlattenSeq(p) = FlattenSeq(Skip(j + 1, p))
        OBVIOUS
    <2>2. FlattenSeq(p) = FlattenSeq(Skip(j, p)) /\ j < Len(p) /\ p[j + 1] = <<>>
        BY <1>1, <1>3, <2>1
    <2>3. Skip(j, p) = << p[j + 1] >> \o Skip(j + 1, p) /\ p[j + 1] \in Seq(S) /\ Skip(j + 1, p) \in Seq(Seq(S))
        BY <2>2, SkipOne
    <2>4. /\ FlattenSeq(Skip(j, p)) = p[j + 1] \o FlattenSeq(Skip(j + 1, p))
          /\ FlattenSeq(Skip(j + 1, p)) \in Seq(S)
        BY <2>3, FlattenCons
    <2>5. p[j + 1] \o FlattenSeq(Skip(j + 1, p)) = FlattenSeq(Skip(j + 1, p))
        BY <2>2, <2>4, ConcatEmptySeq
    <2>6. QED
        BY <2>2, <2>4, <2>5
<1>4. Nat \subseteq Good
    <2> HIDE DEF Good
    <2>1. QED
        BY <1>2, <1>3, Induction
<1>5. k \in Good
    BY <1>1, <1>4
<1>6. QED
    BY <1>5

-----------------------------------------------------------------------------
(* Reading.                                                                *)

\* What is left to read, and that a wrapper puts its bytes in front of it.
LEMMA Unreads ==
    ASSUME NEW S, NEW b \in Seq(S), NEW p \in Seq(Seq(S)), NEW t \in Seq(S)
    PROVE  /\ Unread(p, t) \in Seq(S) /\ Unread(<<>>, t) = t
           /\ Rewind(p, b) \in Seq(Seq(S)) /\ Unread(Rewind(p, b), t) = b \o Unread(p, t)
<1>1. /\ FlattenSeq(<<>>) = <<>> /\ FlattenSeq(p) \in Seq(S)
      /\ << b >> \o p \in Seq(Seq(S)) /\ FlattenSeq(<< b >> \o p) = b \o FlattenSeq(p)
    BY FlattenCons
<1>2. Unread(p, t) \in Seq(S) /\ (b \o FlattenSeq(p)) \o t = b \o (FlattenSeq(p) \o t)
    BY SMTT(30), <1>1, ConcatAssociative, ConcatProperties DEF Unread
<1>3. Unread(<<>>, t) = t
    BY <1>1, ConcatEmptySeq DEF Unread
<1>4. QED
    BY <1>1, <1>2, <1>3 DEF Unread, Rewind

\* What a read is: bytes of the front, and what is left.
IsRead(r, S, p, t, room) ==
    /\ r.got \in Seq(S) /\ r.p \in Seq(Seq(S)) /\ r.t \in Seq(S)
    /\ Len(r.got) <= room /\ r.got \o Unread(r.p, r.t) = Unread(p, t)

\* A read takes its bytes from the front of what is left, and no more than it has room for.
LEMMA ReadsKeep ==
    ASSUME NEW S, NEW p \in Seq(Seq(S)), NEW t \in Seq(S), NEW room \in Nat,
           NEW r \in Reads(p, t, room)
    PROVE  IsRead(r, S, p, t, room)
<1> DEFINE full == {i \in DOMAIN p : p[i] # <<>>}
<1>1. DOMAIN p = 1 .. Len(p) /\ Len(p) \in Nat /\ \A i \in 1 .. Len(p) : p[i] \in Seq(S)
    BY LenProperties, ElementOfSeq
<1>2. CASE full # {}
    <2> DEFINE i == CHOOSE i \in full : \A j \in full : i <= j
               k == IF Len(p[i]) < room THEN Len(p[i]) ELSE room
    <2>1. i \in full /\ \A j \in full : i <= j
        <3>1. full \subseteq Nat
            BY <1>1
        <3>2. \E x \in full : \A j \in full : x <= j
            BY <1>2, <3>1, LeastNatural
        <3>3. QED
            BY <3>2
    <2>2. r = [got |-> Take(k, p[i]), p |-> << Skip(k, p[i]) >> \o Skip(i, p), t |-> t]
        BY <1>2 DEF Reads
    <2> HIDE DEF i
    <2>3. i \in 1 .. Len(p) /\ p[i] \in Seq(S) /\ Len(p[i]) \in Nat
        BY <1>1, <2>1, LenProperties
    <2>4. k \in 0 .. Len(p[i]) /\ k <= room
        BY <2>3
    <2> HIDE DEF k
    <2>5. /\ Take(k, p[i]) \in Seq(S) /\ Len(Take(k, p[i])) = k /\ Skip(k, p[i]) \in Seq(S)
          /\ Take(k, p[i]) \o Skip(k, p[i]) = p[i]
        BY <2>3, <2>4, TakeSkip
    <2>6. i \in Nat /\ i - 1 \in 0 .. Len(p) /\ i - 1 < Len(p) /\ (i - 1) + 1 = i
        BY <1>1, <2>3
    <2>7. ASSUME NEW j \in 1 .. i - 1 PROVE p[j] = <<>>
        <3>1. j \in DOMAIN p /\ ~(i <= j)
            BY <1>1, <2>3, <2>6
        <3>2. QED
            BY <2>1, <3>1
    <2>8. FlattenSeq(p) = FlattenSeq(Skip(i - 1, p))
        BY <2>6, <2>7, FlattenSkip
    <2>9. Skip(i - 1, p) = << p[i] >> \o Skip(i, p) /\ Skip(i, p) \in Seq(Seq(S))
        <3>1. i - 1 \in Nat
            BY <2>6
        <3>2. QED
            BY <2>6, <3>1, SkipOne
    <2>10. FlattenSeq(p) = p[i] \o FlattenSeq(Skip(i, p)) /\ FlattenSeq(Skip(i, p)) \in Seq(S)
        BY <2>3, <2>8, <2>9, FlattenCons
    <2>11. /\ r.p \in Seq(Seq(S)) /\ FlattenSeq(r.p) = Skip(k, p[i]) \o FlattenSeq(Skip(i, p))
        BY <2>2, <2>5, <2>9, FlattenCons
    <2>12. Take(k, p[i]) \o (Skip(k, p[i]) \o FlattenSeq(Skip(i, p))) = FlattenSeq(p)
        <3>1. /\ Cat(Cat(Take(k, p[i]), Skip(k, p[i])), FlattenSeq(Skip(i, p)))
                = Cat(Take(k, p[i]), Cat(Skip(k, p[i]), FlattenSeq(Skip(i, p))))
            BY <2>5, <2>10, Assoc
        <3>2. QED
            BY <2>5, <2>10, <3>1 DEF Cat
    <2>13. r.got \o FlattenSeq(r.p) = FlattenSeq(p) /\ r.got \in Seq(S) /\ FlattenSeq(r.p) \in Seq(S) /\ r.t = t
        BY <2>2, <2>5, <2>10, <2>11, <2>12, ConcatProperties
    <2>14. r.got \o (FlattenSeq(r.p) \o t) = FlattenSeq(p) \o t
        <3>1. Cat(Cat(r.got, FlattenSeq(r.p)), t) = Cat(r.got, Cat(FlattenSeq(r.p), t))
            BY <2>13, Assoc
        <3>2. QED
            BY <2>13, <3>1 DEF Cat
    <2>15. QED
        BY <2>2, <2>4, <2>5, <2>11, <2>13, <2>14 DEF Unread, IsRead
<1>3. CASE full = {}
    <2>1. PICK k \in 1 .. Len(t) : k <= room /\ r = [got |-> Take(k, t), p |-> <<>>, t |-> Skip(k, t)]
        BY <1>3 DEF Reads
    <2>2. k \in 0 .. Len(t)
        OBVIOUS
    <2>3. /\ Take(k, t) \in Seq(S) /\ Len(Take(k, t)) = k /\ Skip(k, t) \in Seq(S)
          /\ Take(k, t) \o Skip(k, t) = t
        BY <2>2, TakeSkip
    <2>4. FlattenSeq(p) = <<>>
        <3>1. \A j \in 1 .. Len(p) : p[j] = <<>>
            BY <1>1, <1>3
        <3>2. Len(p) \in 0 .. Len(p)
            BY <1>1
        <3>3. FlattenSeq(p) = FlattenSeq(Skip(Len(p), p))
            BY <3>1, <3>2, FlattenSkip
        <3>4. Skip(Len(p), p) = <<>>
            BY <1>1, SubSeqEmpty DEF Skip
        <3>5. QED
            BY <3>3, <3>4, FlattenCons
    <2>5. Unread(p, t) = t /\ Unread(<<>>, Skip(k, t)) = Skip(k, t)
        BY <2>3, <2>4, ConcatEmptySeq, FlattenCons DEF Unread
    <2>6. <<>> \in Seq(Seq(S))
        BY EmptySeq
    <2>7. QED
        BY <2>1, <2>3, <2>5, <2>6 DEF IsRead
<1>4. QED
    BY <1>2, <1>3

-----------------------------------------------------------------------------
(* The rules.                                                              *)

\* f is the function over 0 .. n that starts with a and goes on with the steps F.
Follows(f, a, n, F) == f[0] = a /\ \A i \in 1 .. n : f[i] = F[i][f[i - 1]]
Followed(T, a, n, F) == \E f \in [0 .. n -> T] : Follows(f, a, n, F)

\* A recursive function over 0 .. n exists, when each of its steps is one from T to T.
LEMMA Recursion ==
    ASSUME NEW T, NEW a \in T, NEW n \in Nat, NEW F \in [1 .. n -> [T -> T]]
    PROVE  Followed(T, a, n, F)
<1> DEFINE Partial(j) == {f \in [0 .. j -> T] : f[0] = a /\ \A i \in 1 .. j : f[i] = F[i][f[i - 1]]}
           Good == {j \in Nat : j <= n => Partial(j) # {}}
<1>1. 0 \in Good
    <2>1. [i \in 0 .. 0 |-> a] \in Partial(0)
        OBVIOUS
    <2>2. QED
        BY <2>1
<1>2. ASSUME NEW j \in Nat, j \in Good PROVE j + 1 \in Good
    <2> HIDE DEF Partial
    <2>1. SUFFICES ASSUME j + 1 <= n PROVE Partial(j + 1) # {}
        OBVIOUS
    <2>2. PICK f : f \in Partial(j)
        BY <1>2, <2>1
    <2> USE DEF Partial
    <2> DEFINE g == [i \in 0 .. j + 1 |-> IF i <= j THEN f[i] ELSE F[j + 1][f[j]]]
    <2>3. \A i \in 0 .. j + 1 : g[i] = IF i <= j THEN f[i] ELSE F[j + 1][f[j]]
        OBVIOUS
    <2>4. f[j] \in T /\ F[j + 1] \in [T -> T] /\ F[j + 1][f[j]] \in T
        BY <2>1, <2>2
    <2>5. g \in [0 .. j + 1 -> T]
        BY <2>2, <2>4
    <2> HIDE DEF g
    <2>6. g[0] = a
        BY <2>2, <2>3
    <2>7. ASSUME NEW i \in 1 .. j + 1 PROVE g[i] = F[i][g[i - 1]]
        <3>1. CASE i = j + 1
            <4>1. i \in 0 .. j + 1 /\ ~(i <= j) /\ i - 1 \in 0 .. j + 1 /\ i - 1 <= j /\ i - 1 = j
                BY <3>1
            <4>2. g[i] = F[j + 1][f[j]] /\ g[i - 1] = f[j]
                BY <2>3, <4>1
            <4>3. QED
                BY <3>1, <4>2
        <3>2. CASE i # j + 1
            <4>1. /\ i \in 1 .. j /\ i \in 0 .. j + 1 /\ i <= j
                  /\ i - 1 \in 0 .. j + 1 /\ i - 1 <= j
                BY <3>2
            <4>2. g[i] = f[i] /\ g[i - 1] = f[i - 1]
                BY <2>3, <4>1
            <4>3. QED
                BY <2>2, <4>1, <4>2
        <3>3. QED
            BY <3>1, <3>2
    <2>8. g \in Partial(j + 1)
        BY <2>5, <2>6, <2>7
    <2>9. QED
        BY <2>8
<1>3. Partial(n) # {}
    <2> HIDE DEF Good, Partial
    <2>1. Nat \subseteq Good
        BY <1>1, <1>2, Induction
    <2>2. n \in Good /\ n <= n
        BY <2>1
    <2>3. QED
        BY <2>2 DEF Good
<1>4. QED
    BY <1>3 DEF Followed, Follows

\* What a URL is put together from.
Token == STRING \union Schemes

\* A sequence over some elements is one over more.
LEMMA MoreSeq ==
    ASSUME NEW S, NEW T, S \subseteq T, NEW s \in Seq(S)
    PROVE  s \in Seq(T)
<1>1. Len(s) \in Nat /\ s \in [1 .. Len(s) -> S]
    BY LenProperties
<1>2. s \in [1 .. Len(s) -> T]
    BY <1>1
<1>3. QED
    BY <1>1, <1>2, SeqDef

\* What is known of the rules of a connection.
LEMMA RuleFacts ==
    ASSUME NEW c \in Setups
    PROVE  /\ Len(c.rules) \in Nat
           /\ \A i \in 1 .. Len(c.rules) :
                /\ c.rules[i].action \in Actions /\ c.rules[i].prefix \in Seq(Token)
                /\ c.rules[i].action = "map_remote" => c.rules[i].target \in Seq(Token)
<1>1. /\ Len(c.rules) \in Nat
      /\ \A i \in 1 .. Len(c.rules) :
           /\ c.rules[i].action \in Actions /\ c.rules[i].prefix \in Seq(STRING)
           /\ c.rules[i].action = "map_remote" => c.rules[i].target \in Seq(STRING)
    BY SetupAssumption DEF AreRules
<1>2. \A s \in Seq(STRING) : s \in Seq(Token)
    <2>1. STRING \subseteq Token
        BY DEF Token
    <2>2. QED
        BY <2>1, MoreSeq
<1>3. QED
    BY <1>1, <1>2

\* The part of a URL behind a rule's prefix, and the URL with another one in front.
LEMMA MappedUrl ==
    ASSUME NEW rule, rule.prefix \in Seq(Token), NEW url \in Seq(Token), IsPrefix(rule.prefix, url)
    PROVE  /\ Suffix(rule, url) \in Seq(Token)
           /\ rule.target \in Seq(Token) => rule.target \o Suffix(rule, url) \in Seq(Token)
<1>1. Len(rule.prefix) \in 0 .. Len(url)
    BY LenProperties DEF IsPrefix
<1>2. Suffix(rule, url) = Skip(Len(rule.prefix), url)
    BY DEF Suffix, Skip
<1>3. Suffix(rule, url) \in Seq(Token)
    BY <1>1, <1>2, TakeSkip
<1>4. ASSUME rule.target \in Seq(Token) PROVE rule.target \o Suffix(rule, url) \in Seq(Token)
    <2> DEFINE x == rule.target
               y == Suffix(rule, url)
    <2>1. x \in Seq(Token) /\ y \in Seq(Token)
        BY <1>3, <1>4
    <2> HIDE DEF x, y
    <2>2. x \o y \in Seq(Token)
        BY <2>1, ConcatProperties
    <2>3. QED
        BY <2>2 DEF x, y
<1>5. QED
    BY <1>3, <1>4

\* The URLs a connection's rules make of a head are defined one by the other.
LEMMA MappedIs ==
    ASSUME conn \in Setups, NEW h, NEW inside, Named(h, inside) \in Seq(Token)
    PROVE  LET u == Mapped(h, inside)
           IN /\ u[0] = Named(h, inside)
              /\ \A i \in 0 .. Len(conn.rules) : u[i] \in Seq(Token)
              /\ \A i \in 1 .. Len(conn.rules) :
                   u[i] = IF conn.rules[i].action = "map_remote" /\ IsPrefix(conn.rules[i].prefix, u[i - 1])
                          THEN conn.rules[i].target \o Suffix(conn.rules[i], u[i - 1]) ELSE u[i - 1]
<1> DEFINE rules == conn.rules
           n == Len(rules)
           T == Seq(Token)
           a == Named(h, inside)
           Go(i, url) == IF rules[i].action = "map_remote" /\ IsPrefix(rules[i].prefix, url)
                         THEN rules[i].target \o Suffix(rules[i], url) ELSE url
           Eq(f) == f = [i \in 0 .. n |-> IF i = 0 THEN a ELSE Go(i, f[i - 1])]
           u == CHOOSE f : Eq(f)
           F == [i \in 1 .. n |-> [url \in T |-> Go(i, url)]]
<1>1. n \in Nat /\ \A i \in 1 .. n : \A url \in T : Go(i, url) \in T
    <2>1. n \in Nat
        BY RuleFacts
    <2>2. ASSUME NEW i \in 1 .. n, NEW url \in T PROVE Go(i, url) \in T
        BY RuleFacts, MappedUrl
    <2>3. QED
        BY <2>1, <2>2
<1>2. Mapped(h, inside) = u
    BY DEF Mapped
<1> HIDE DEF Go, n, T, a, u
<1>3. F \in [1 .. n -> [T -> T]] /\ \A i \in 1 .. n : \A url \in T : F[i][url] = Go(i, url)
    BY <1>1
<1>4. a \in T
    BY DEF a, T
<1> HIDE DEF F
<1>5. PICK f \in [0 .. n -> T] : f[0] = a /\ \A i \in 1 .. n : f[i] = F[i][f[i - 1]]
    <2>1. n \in Nat /\ F \in [1 .. n -> [T -> T]]
        BY <1>1, <1>3
    <2>2. Followed(T, a, n, F)
        BY <1>4, <2>1, Recursion
    <2>3. QED
        BY <2>2 DEF Followed, Follows
<1>6. \A i \in 1 .. n : f[i] = Go(i, f[i - 1])
    <2>1. ASSUME NEW i \in 1 .. n PROVE f[i] = Go(i, f[i - 1])
        <3>1. i - 1 \in 0 .. n
            BY <1>1
        <3>2. QED
            BY <1>3, <1>5, <3>1
    <2>2. QED
        BY <2>1
<1>7. Eq(f)
    BY <1>5, <1>6
<1>8. Eq(u)
    BY <1>7 DEF u
<1>9. u[0] = a /\ \A i \in 1 .. n : u[i] = Go(i, u[i - 1])
    BY <1>1, <1>8
<1> DEFINE Good == {i \in Nat : i <= n => u[i] \in T}
<1>10. Nat \subseteq Good
    <2>1. 0 \in Good
        BY <1>4, <1>9
    <2>2. ASSUME NEW i \in Nat, i \in Good PROVE i + 1 \in Good
        <3>1. SUFFICES ASSUME i + 1 <= n PROVE u[i + 1] \in T
            OBVIOUS
        <3>2. i + 1 \in 1 .. n /\ (i + 1) - 1 = i /\ u[i] \in T
            BY <1>1, <2>2, <3>1
        <3>3. QED
            BY <1>1, <1>9, <3>2
    <2> HIDE DEF Good
    <2>3. QED
        BY <2>1, <2>2, Induction
<1>11. \A i \in 0 .. n : u[i] \in T
    BY <1>1, <1>10
<1>12. QED
    BY <1>2, <1>9, <1>11 DEF Go, n, T, a

\* What a rule may leave a request as.
Outcomes == {"forward", "error", "405", "file", "404", "redirect", "mock"}

\* One rule does to a request what the URLs and the answers of Mapped say.
LEMMA OneRule ==
    ASSUME conn \in Setups, NEW i \in 1 .. Len(conn.rules), NEW h, NEW r,
           r = [method |-> r.method, url |-> r.url, headers |-> r.headers, outcome |-> r.outcome],
           r.method = h.method, r.url \in Seq(Token), r.outcome = "forward",
           Matches(conn.rules[i], r), NEW s \in RuleOutcome(conn.rules[i], r)
    PROVE  LET rule == conn.rules[i]
           IN /\ s.method = r.method /\ s.outcome \in Outcomes /\ s.url \in Seq(Token)
              /\ s = [method |-> s.method, url |-> s.url, headers |-> s.headers, outcome |-> s.outcome]
              /\ s.outcome = "forward" =>
                   /\ ~Answers(rule, h, r.url)
                   /\ s.url = IF rule.action = "map_remote" /\ IsPrefix(rule.prefix, r.url)
                              THEN rule.target \o Suffix(rule, r.url) ELSE r.url
              /\ s.outcome = "error" => MayFail(rule, h, r.url) /\ s.url = r.url
<1> DEFINE rule == conn.rules[i]
<1>1. /\ rule.action \in Actions /\ rule.prefix \in Seq(Token)
      /\ rule.action = "map_remote" => rule.target \in Seq(Token)
    BY RuleFacts
<1>2. IsPrefix(rule.prefix, r.url) /\ (rule.action = "mock" => rule.method \in {"any", r.method})
    BY DEF Matches
<1> HIDE DEF rule
<1>3. s \in RuleOutcome(rule, r)
    BY DEF rule
<1>4. CASE rule.action = "set_request_header"
    <2>1. s = [r EXCEPT !.headers = @ \union {rule.name}]
        BY <1>3, <1>4 DEF RuleOutcome
    <2>2. QED
        BY <1>4, <2>1 DEF Answers, Outcomes, rule
<1>5. CASE rule.action = "remove_request_header"
    <2>1. s = [r EXCEPT !.headers = @ \ {rule.name}]
        BY <1>3, <1>5 DEF RuleOutcome
    <2>2. QED
        BY <1>5, <2>1 DEF Answers, Outcomes, rule
<1>6. CASE rule.action = "map_remote"
    <2> DEFINE mapped == rule.target \o Suffix(rule, r.url)
    <2>1. s = MapRemote(rule, r)
        BY <1>3, <1>6 DEF RuleOutcome
    <2>2. mapped \in Seq(Token)
        BY <1>1, <1>2, <1>6, MappedUrl
    <2>3. s = IF IsUri(mapped) THEN [r EXCEPT !.url = mapped] ELSE [r EXCEPT !.outcome = "error"]
        BY <2>1 DEF MapRemote
    <2>4. ~IsUri(mapped) => MayFail(rule, h, r.url)
        BY <1>2, <1>6 DEF MayFail
    <2>5. ~Answers(rule, h, r.url)
        BY <1>6 DEF Answers
    <2> HIDE DEF mapped
    <2>6. CASE IsUri(mapped)
        <3>1. s = [r EXCEPT !.url = mapped]
            BY <2>3, <2>6
        <3>2. QED
            BY <1>2, <1>6, <2>2, <2>5, <3>1 DEF Outcomes, rule, mapped
    <2>7. CASE ~IsUri(mapped)
        <3>1. s = [r EXCEPT !.outcome = "error"]
            BY <2>3, <2>7
        <3>2. QED
            BY <2>4, <2>7, <3>1 DEF Outcomes, rule
    <2>8. QED
        BY <2>6, <2>7
<1>7. CASE rule.action = "map_local"
    <2>1. PICK o \in LocalOutcomes(rule, r) : s = [r EXCEPT !.outcome = o]
        BY <1>3, <1>7 DEF RuleOutcome
    <2>2. /\ o \in {"405", "error", "file", "404"}
          /\ o = "error" => h.method \in {"GET", "HEAD"}
        BY DEF LocalOutcomes
    <2>3. o = "error" => MayFail(rule, h, r.url)
        BY <1>2, <1>7, <2>2 DEF MayFail
    <2>4. QED
        BY <2>1, <2>2, <2>3 DEF Outcomes, rule
<1>8. CASE rule.action \in {"redirect", "mock"}
    <2>1. s = [r EXCEPT !.outcome = rule.action]
        BY <1>3, <1>8 DEF RuleOutcome
    <2>2. QED
        BY <1>8, <2>1 DEF Outcomes, rule
<1>9. QED
    BY <1>1, <1>4, <1>5, <1>6, <1>7, <1>8 DEF Actions

\* Why a request with URL `url' is where it is after the first i rules.
Passed(h, u, i, r) ==
    r.outcome = "forward" =>
      r.url = u[i] /\ \A j \in 1 .. i : ~Answers(conn.rules[j], h, u[j - 1])
FailedAt(h, u, k, r) ==
    /\ r.url = u[k] /\ MayFail(conn.rules[k + 1], h, u[k])
    /\ \A j \in 1 .. k : ~Answers(conn.rules[j], h, u[j - 1])

IsARequest(h, r) ==
    /\ r = [method |-> r.method, url |-> r.url, headers |-> r.headers, outcome |-> r.outcome]
    /\ r.method = h.method /\ r.url \in Seq(Token) /\ r.outcome \in Outcomes

After(h, u, i, r) ==
    /\ IsARequest(h, r) /\ Passed(h, u, i, r)
    /\ r.outcome = "error" => \E k \in 0 .. i - 1 : FailedAt(h, u, k, r)

\* One rule adds or takes away its own header at most, and keeps the request a request.
LEMMA OneRuleType ==
    ASSUME conn \in Setups, NEW i \in 1 .. Len(conn.rules), NEW h, NEW H, conn.rules[i].name \in H,
           NEW r \in [method : {h.method}, url : Seq(Token), headers : SUBSET H, outcome : Outcomes],
           r.outcome = "forward", Matches(conn.rules[i], r), NEW s \in RuleOutcome(conn.rules[i], r)
    PROVE  s \in [method : {h.method}, url : Seq(Token), headers : SUBSET H, outcome : Outcomes]
<1> DEFINE rule == conn.rules[i]
<1>1. /\ s.method = r.method /\ s.outcome \in Outcomes /\ s.url \in Seq(Token)
      /\ s = [method |-> s.method, url |-> s.url, headers |-> s.headers, outcome |-> s.outcome]
    <2>1. /\ r = [method |-> r.method, url |-> r.url, headers |-> r.headers, outcome |-> r.outcome]
          /\ r.method = h.method /\ r.url \in Seq(Token)
        OBVIOUS
    <2>2. QED
        BY <2>1, OneRule
<1>2. s.headers \subseteq H
    <2>1. rule.action \in Actions
        BY RuleFacts
    <2>2. rule.name \in H /\ s \in RuleOutcome(rule, r)
        OBVIOUS
    <2> HIDE DEF rule
    <2>3. CASE rule.action \in {"set_request_header", "remove_request_header"}
        BY <2>2, <2>3 DEF RuleOutcome
    <2>4. CASE rule.action = "map_remote"
        <3>1. s = MapRemote(rule, r)
            BY <2>2, <2>4 DEF RuleOutcome
        <3>2. s.headers = r.headers
            BY <3>1 DEF MapRemote
        <3>3. QED
            BY <3>2
    <2>5. CASE rule.action = "map_local"
        <3>1. PICK o \in LocalOutcomes(rule, r) : s = [r EXCEPT !.outcome = o]
            BY <2>2, <2>5 DEF RuleOutcome
        <3>2. QED
            BY <3>1
    <2>6. CASE rule.action \in {"redirect", "mock"}
        <3>1. s = [r EXCEPT !.outcome = rule.action]
            BY <2>2, <2>6 DEF RuleOutcome
        <3>2. QED
            BY <3>1
    <2>7. QED
        BY <2>1, <2>3, <2>4, <2>5, <2>6 DEF Actions
<1>3. s.method \in {h.method}
    BY <1>1
<1>4. QED
    BY <1>1, <1>2, <1>3

\* What the rules make of a head's request: its URL is the one the rules that let it pass
\* map it to, up to one that failed or to the end.
LEMMA AllRules ==
    ASSUME conn \in Setups, NEW h, NEW inside, Named(h, inside) \in Seq(Token), NEW headers,
           NEW r \in apply(conn.rules, [method |-> h.method, url |-> Named(h, inside),
                                        headers |-> headers, outcome |-> "forward"])
    PROVE  After(h, Mapped(h, inside), Len(conn.rules), r)
<1> DEFINE rules == conn.rules
           n == Len(rules)
           q == [method |-> h.method, url |-> Named(h, inside), headers |-> headers, outcome |-> "forward"]
           H == headers \union {rules[i].name : i \in 1 .. n}
           R == [method : {h.method}, url : Seq(Token), headers : SUBSET H, outcome : Outcomes]
           T == SUBSET R
           One(i, x) == IF x.outcome = "forward" /\ Matches(rules[i], x) THEN RuleOutcome(rules[i], x) ELSE {x}
           Go(i, X) == UNION {One(i, x) : x \in X}
           a == {q}
           Eq(f) == f = [i \in 0 .. n |-> IF i = 0 THEN a ELSE Go(i, f[i - 1])]
           after == CHOOSE f : Eq(f)
           F == [i \in 1 .. n |-> [X \in T |-> Go(i, X)]]
           u == Mapped(h, inside)
<1>1. n \in Nat
    BY RuleFacts
<1>2. apply(rules, q) = after[n]
    BY DEF apply
<1>3. q \in R
    BY DEF Outcomes
<1>4. ASSUME NEW i \in 1 .. n, NEW x \in R PROVE One(i, x) \subseteq R
    <2>1. CASE x.outcome = "forward" /\ Matches(rules[i], x)
        <3>1. rules[i].name \in H
            OBVIOUS
        <3>2. ASSUME NEW s \in RuleOutcome(rules[i], x) PROVE s \in R
            <4> HIDE DEF H
            <4>1. QED
                BY <2>1, <3>1, <3>2, OneRuleType
        <3>3. QED
            BY <2>1, <3>2
    <2>2. CASE ~(x.outcome = "forward" /\ Matches(rules[i], x))
        BY <2>2
    <2>3. QED
        BY <2>1, <2>2
<1>5. ASSUME NEW i \in 1 .. n, NEW X \in T PROVE Go(i, X) \in T
    <2> HIDE DEF One, R
    <2>1. QED
        BY <1>4
<1> HIDE DEF n, q, R, One, Go, after
<1>6. F \in [1 .. n -> [T -> T]] /\ \A i \in 1 .. n : \A X \in T : F[i][X] = Go(i, X)
    BY <1>5
<1>7. a \in T
    BY <1>3
<1> HIDE DEF F, T, a
<1>8. PICK f \in [0 .. n -> T] : f[0] = a /\ \A i \in 1 .. n : f[i] = F[i][f[i - 1]]
    <2>1. F \in [1 .. n -> [T -> T]]
        BY <1>6
    <2>2. Followed(T, a, n, F)
        BY <1>1, <1>7, <2>1, Recursion
    <2>3. QED
        BY <2>2 DEF Followed, Follows
<1>9. Eq(f)
    <2>1. ASSUME NEW i \in 1 .. n PROVE f[i] = Go(i, f[i - 1])
        <3>1. i - 1 \in 0 .. n
            BY <1>1
        <3>2. QED
            BY <1>6, <1>8, <3>1
    <2>2. QED
        BY <1>8, <2>1
<1>10. Eq(after)
    BY <1>9 DEF after
<1>11. after[0] = a /\ \A i \in 1 .. n : after[i] = Go(i, after[i - 1])
    BY <1>1, <1>10
<1> HIDE DEF Eq
<1>12. /\ u[0] = Named(h, inside)
       /\ \A i \in 0 .. n : u[i] \in Seq(Token)
       /\ \A i \in 1 .. n :
            u[i] = IF rules[i].action = "map_remote" /\ IsPrefix(rules[i].prefix, u[i - 1])
                   THEN rules[i].target \o Suffix(rules[i], u[i - 1]) ELSE u[i - 1]
    BY MappedIs DEF n
<1> HIDE DEF u
<1> DEFINE Good == {i \in Nat : i <= n => \A x \in after[i] : After(h, u, i, x)}
<1>13. 0 \in Good
    <2>1. After(h, u, 0, q)
        BY <1>12 DEF After, IsARequest, Passed, Outcomes, q
    <2>2. QED
        BY <1>11, <2>1 DEF a
<1>14. ASSUME NEW j \in Nat, j \in Good PROVE j + 1 \in Good
    <2>1. SUFFICES ASSUME j + 1 <= n, NEW s \in after[j + 1] PROVE After(h, u, j + 1, s)
        OBVIOUS
    <2>2. j + 1 \in 1 .. n /\ (j + 1) - 1 = j /\ j \in 0 .. n
        BY <1>1, <2>1
    <2>3. \A x \in after[j] : After(h, u, j, x)
        BY <1>14, <2>2
    <2>4. after[j + 1] = Go(j + 1, after[j])
        BY <1>11, <2>2
    <2>5. PICK x \in after[j] : s \in One(j + 1, x)
        BY <2>4 DEF Go
    <2>6. After(h, u, j, x)
        BY <2>3
    <2>7. /\ x = [method |-> x.method, url |-> x.url, headers |-> x.headers, outcome |-> x.outcome]
          /\ x.method = h.method /\ x.url \in Seq(Token) /\ x.outcome \in Outcomes
        BY <2>6 DEF After, IsARequest
    <2>8. CASE x.outcome = "forward" /\ Matches(rules[j + 1], x)
        <3> DEFINE rule == rules[j + 1]
        <3>1. s \in RuleOutcome(rule, x)
            BY <2>5, <2>8 DEF One
        <3>2. /\ s.method = x.method /\ s.outcome \in Outcomes /\ s.url \in Seq(Token)
              /\ s = [method |-> s.method, url |-> s.url, headers |-> s.headers, outcome |-> s.outcome]
              /\ s.outcome = "forward" =>
                   /\ ~Answers(rule, h, x.url)
                   /\ s.url = IF rule.action = "map_remote" /\ IsPrefix(rule.prefix, x.url)
                              THEN rule.target \o Suffix(rule, x.url) ELSE x.url
              /\ s.outcome = "error" => MayFail(rule, h, x.url) /\ s.url = x.url
            <4>1. j + 1 \in 1 .. Len(conn.rules) /\ Matches(conn.rules[j + 1], x) /\ x.outcome = "forward"
                BY <2>2, <2>8 DEF n
            <4>2. QED
                BY <2>7, <3>1, <4>1, OneRule
        <3>3. x.url = u[j] /\ \A i \in 1 .. j : ~Answers(rules[i], h, u[i - 1])
            BY <2>6, <2>8 DEF After, Passed
        <3>4. IsARequest(h, s)
            BY <2>7, <3>2 DEF IsARequest
        <3>5. Passed(h, u, j + 1, s)
            <4>1. SUFFICES ASSUME s.outcome = "forward"
                           PROVE  s.url = u[j + 1] /\ \A i \in 1 .. j + 1 : ~Answers(rules[i], h, u[i - 1])
                BY DEF Passed
            <4>2. s.url = u[j + 1]
                BY <1>12, <2>2, <3>2, <3>3, <4>1
            <4>3. ASSUME NEW i \in 1 .. j + 1 PROVE ~Answers(rules[i], h, u[i - 1])
                <5>1. CASE i = j + 1
                    BY <2>2, <3>2, <3>3, <4>1, <5>1
                <5>2. CASE i # j + 1
                    <6>1. i \in 1 .. j
                        BY <5>2
                    <6>2. QED
                        BY <3>3, <6>1
                <5>3. QED
                    BY <5>1, <5>2
            <4>4. QED
                BY <4>2, <4>3
        <3>6. s.outcome = "error" => \E k \in 0 .. (j + 1) - 1 : FailedAt(h, u, k, s)
            <4>1. ASSUME s.outcome = "error" PROVE FailedAt(h, u, j, s)
                BY <3>2, <3>3, <4>1 DEF FailedAt
            <4>2. j \in 0 .. (j + 1) - 1
                OBVIOUS
            <4>3. QED
                BY <4>1, <4>2
        <3>7. QED
            BY <3>4, <3>5, <3>6 DEF After
    <2>9. CASE ~(x.outcome = "forward" /\ Matches(rules[j + 1], x))
        <3>1. s = x
            BY <2>5, <2>9 DEF One
        <3>2. x.outcome = "error" => \E k \in 0 .. (j + 1) - 1 : FailedAt(h, u, k, x)
            <4>1. ASSUME x.outcome = "error" PROVE \E k \in 0 .. (j + 1) - 1 : FailedAt(h, u, k, x)
                <5>1. PICK k \in 0 .. j - 1 : FailedAt(h, u, k, x)
                    BY <2>6, <4>1 DEF After
                <5>2. k \in 0 .. (j + 1) - 1
                    OBVIOUS
                <5>3. QED
                    BY <5>1, <5>2
            <4>2. QED
                BY <4>1
        <3>3. Passed(h, u, j + 1, x)
            <4>1. SUFFICES ASSUME x.outcome = "forward"
                           PROVE  x.url = u[j + 1] /\ \A i \in 1 .. j + 1 : ~Answers(rules[i], h, u[i - 1])
                BY DEF Passed
            <4>2. x.url = u[j] /\ \A i \in 1 .. j : ~Answers(rules[i], h, u[i - 1])
                BY <2>6, <4>1 DEF After, Passed
            <4>3. ~Matches(rules[j + 1], x)
                BY <2>9, <4>1
            <4>4. ~IsPrefix(rules[j + 1].prefix, u[j]) \/
                    (rules[j + 1].action = "mock" /\ rules[j + 1].method \notin {"any", h.method})
                BY <2>7, <4>2, <4>3 DEF Matches
            <4>5. ~Answers(rules[j + 1], h, u[j])
                BY <4>4 DEF Answers
            <4>6. x.url = u[j + 1]
                BY <1>12, <2>2, <4>2, <4>4
            <4>7. ASSUME NEW i \in 1 .. j + 1 PROVE ~Answers(rules[i], h, u[i - 1])
                <5>1. CASE i = j + 1
                    BY <2>2, <4>5, <5>1
                <5>2. CASE i # j + 1
                    <6>1. i \in 1 .. j
                        BY <5>2
                    <6>2. QED
                        BY <4>2, <6>1
                <5>3. QED
                    BY <5>1, <5>2
            <4>8. QED
                BY <4>6, <4>7
        <3>4. QED
            BY <2>6, <3>1, <3>2, <3>3 DEF After
    <2>10. QED
        BY <2>8, <2>9
<1>15. Nat \subseteq Good
    <2> HIDE DEF Good
    <2>1. QED
        BY <1>13, <1>14, Induction
<1>16. n \in Good /\ n <= n
    BY <1>1, <1>15
<1>17. r \in after[n]
    BY <1>2 DEF q
<1>18. QED
    BY <1>16, <1>17 DEF n, u

\* A request that is let pass or fails: the rules before, and its URL.
WentThrough(h, inside, url) ==
    LET urls == Mapped(h, inside)
    IN \E k \in 0 .. Len(conn.rules) :
         /\ k < Len(conn.rules) => MayFail(conn.rules[k + 1], h, urls[k])
         /\ \A i \in 1 .. k : ~Answers(conn.rules[i], h, urls[i - 1])
         /\ url = urls[k]

\* What handle_request returns: a request, forwarded with the URL its rules left it.
LEMMA Handled ==
    ASSUME conn \in Setups, NEW h, NEW inside, Named(h, inside) \in Seq(Token),
           NEW r \in handle_request(h, Named(h, inside))
    PROVE  /\ r.url \in Seq(Token) /\ r.outcome \in Outcomes \union {"handler"}
           /\ r.outcome = "forward" => WentThrough(h, inside, r.url)
<1> DEFINE q == [method |-> h.method, url |-> Named(h, inside),
                 headers |-> h.headers \ {":protocol"}, outcome |-> "forward"]
           ruled == {IF x.outcome = "error" THEN [x EXCEPT !.outcome = "forward"] ELSE x :
                       x \in apply(conn.rules, q)}
           u == Mapped(h, inside)
           n == Len(conn.rules)
<1>1. handle_request(h, Named(h, inside)) = ruled \union {[x EXCEPT !.outcome = "handler"] : x \in ruled}
    BY DEF handle_request
<1>2. ASSUME NEW y \in ruled
      PROVE  /\ y = [method |-> y.method, url |-> y.url, headers |-> y.headers, outcome |-> y.outcome]
             /\ y.url \in Seq(Token) /\ y.outcome \in Outcomes
             /\ y.outcome = "forward" => WentThrough(h, inside, y.url)
    <2>1. PICK x \in apply(conn.rules, q) :
            y = IF x.outcome = "error" THEN [x EXCEPT !.outcome = "forward"] ELSE x
        OBVIOUS
    <2>2. After(h, u, n, x)
        BY AllRules
    <2>3. /\ x = [method |-> x.method, url |-> x.url, headers |-> x.headers, outcome |-> x.outcome]
          /\ x.url \in Seq(Token) /\ x.outcome \in Outcomes
        BY <2>2 DEF After, IsARequest
    <2>4. n \in Nat
        BY RuleFacts
    <2>5. CASE x.outcome = "error"
        <3>1. y = [x EXCEPT !.outcome = "forward"]
            BY <2>1, <2>5
        <3>2. PICK k \in 0 .. n - 1 : FailedAt(h, u, k, x)
            BY <2>2, <2>5 DEF After
        <3>3. k \in 0 .. n /\ k < n
            BY <2>4
        <3>4. WentThrough(h, inside, x.url)
            BY <3>2, <3>3 DEF FailedAt, WentThrough
        <3>5. y.url = x.url /\ y.outcome = "forward" /\ "forward" \in Outcomes
            BY <2>3, <3>1 DEF Outcomes
        <3>6. y = [method |-> y.method, url |-> y.url, headers |-> y.headers, outcome |-> y.outcome]
            BY <2>3, <3>1
        <3>7. QED
            BY <2>3, <3>4, <3>5, <3>6
    <2>6. CASE x.outcome # "error"
        <3>1. y = x
            BY <2>1, <2>6
        <3>2. ASSUME x.outcome = "forward" PROVE WentThrough(h, inside, x.url)
            <4>1. x.url = u[n] /\ \A i \in 1 .. n : ~Answers(conn.rules[i], h, u[i - 1])
                BY <2>2, <3>2 DEF After, Passed
            <4>2. n \in 0 .. n /\ ~(n < n)
                BY <2>4
            <4>3. QED
                BY <4>1, <4>2 DEF WentThrough
        <3>3. QED
            BY <2>3, <3>1, <3>2
    <2>7. QED
        BY <2>5, <2>6
<1> HIDE DEF ruled
<1>3. CASE r \in ruled
    BY <1>2, <1>3
<1>4. CASE r \notin ruled
    <2>1. PICK y \in ruled : r = [y EXCEPT !.outcome = "handler"]
        BY <1>1, <1>4
    <2>2. QED
        BY <1>2, <2>1
<1>5. QED
    BY <1>3, <1>4

(* What every connection's state is, beyond its mode.  *)
Consumers == {"socks", "tls", "h1", "h2", "relay", "websocket"}
Consumed == [by : Consumers, byte : STRING]

Told == Outcomes \union {"handler", "method", "connected", "refused", "unreachable", "200", "502", "page",
                          "response", "101", "400", "reset"}

Ups == [net : Seq(STRING), pre : Seq(Seq(STRING)), buf : Seq(STRING), read : Seq(STRING),
        step : Nat, state : {"none", "open", "http", "socks5", "failed"}, tls : BOOLEAN]

Logged == {log[i] : i \in DOMAIN log}

StateIs ==
    /\ net \in Seq(STRING) /\ pre \in Seq(Seq(STRING)) /\ buf \in Seq(STRING)
    /\ taken \in Seq(Consumed) /\ up \in Ups /\ told \in Seq(Told)

\* Where nothing is put back yet, or nothing is held.
Early == {"start", "listen", "greet", "dial"}

HeldBytes ==
    /\ pc \in Early => pre = <<>>
    /\ pc \in Early \union {"uptls", "tls", "raw", "h3"} => buf = <<>>
    /\ pc = "sniff" => Len(buf) < MaxPrefix

UpBytes ==
    /\ up.state \in {"none", "http", "socks5"} => up.pre = <<>>
    /\ up.state \in {"none", "http"} => up.read = <<>>
    /\ up.state \in {"none", "socks5"} => up.buf = <<>>

\* Bytes the sniff shows as one of the protocols that are inspected.
Known(b) == is_tls_handshake(b) \/ is_h2_preface(b)

TunnelFrom(k) == \A i \in DOMAIN taken : taken[i].by = "relay" <=> i > k

Recognised ==
    /\ pc \notin {"relay", "closed"} => TunnelFrom(Len(taken))
    /\ pc = "relay" => \E k \in 0 .. Len(taken) : TunnelFrom(k) /\ ~Known(Skip(k, conn.bytes))
    /\ pc = "raw" => ~Known(Unread(pre, net))
    /\ pc = "uptls" => is_tls_handshake(Unread(pre, net))
    /\ pc = "tls" /\ then # "plain" => is_tls_handshake(Unread(pre, net))
    /\ pc \in {"h1", "h2"} /\ then \in {"connect", "captured"} /\ scheme = "http"
         /\ (taken = <<>> \/ Last(taken).by # pc) =>
         is_h2_preface(buf \o Unread(pre, net)) \/ is_http1_request(buf \o Unread(pre, net))

NoConnect == \A i \in DOMAIN told : told[i] # "200"

Located ==
    /\ pc \in Early => NoConnect
    /\ pc = "h3" => InH3
    /\ NoConnect => dest = conn.dest
    /\ ~NoConnect /\ pc \in {"sniff", "uptls", "tls", "raw"} =>
         served >= 1 /\ dest = conn.heads[served].uri
    /\ InSocks /\ NoConnect =>
         /\ pc \notin {"start", "listen", "closed"} => then \in {"socks", "pinned"}
         /\ pc = "tls" => up.tls
         /\ scheme = "https" => up.tls

Logs == log \in Seq(Logged) /\ GoesWhereAsked

FrontInv ==
    /\ FrontTypeOK /\ StateIs /\ EveryByteOnce /\ HeldBytes /\ UpBytes /\ Recognised /\ Located
    /\ Logs

\* A concatenation's elements.
LEMMA CatIs ==
    \A S : \A s, t \in Seq(S) :
      /\ Cat(s, t) \in Seq(S) /\ Len(Cat(s, t)) = Len(s) + Len(t)
      /\ \A i \in 1 .. Len(s) + Len(t) : Cat(s, t)[i] = IF i <= Len(s) THEN s[i] ELSE t[i - Len(s)]
<1>1. SUFFICES ASSUME NEW S, NEW s \in Seq(S), NEW t \in Seq(S)
               PROVE  /\ s \o t \in Seq(S) /\ Len(s \o t) = Len(s) + Len(t)
                      /\ \A i \in 1 .. Len(s) + Len(t) : (s \o t)[i] = IF i <= Len(s) THEN s[i] ELSE t[i - Len(s)]
    BY DEF Cat
<1>2. QED
    BY ConcatProperties

\* A function on 1 .. n is a sequence of n elements.
LEMMA AsASeq ==
    ASSUME NEW S, NEW n \in Nat, NEW f \in [1 .. n -> S]
    PROVE  f \in Seq(S) /\ Len(f) = n
<1>1. f \in Seq(S) /\ DOMAIN f = 1 .. n
    BY SeqDef
<1>2. Len(f) \in Nat /\ 1 .. Len(f) = 1 .. n
    BY <1>1, LenProperties
<1>3. Len(f) = n
    <2>1. CASE Len(f) < n
        <3>1. n \in 1 .. n /\ n \notin 1 .. Len(f)
            BY <1>2, <2>1
        <3>2. QED
            BY <1>2, <3>1
    <2>2. CASE n < Len(f)
        <3>1. Len(f) \in 1 .. Len(f) /\ Len(f) \notin 1 .. n
            BY <1>2, <2>2
        <3>2. QED
            BY <1>2, <3>1
    <2>3. QED
        BY <1>2, <2>1, <2>2
<1>4. QED
    BY <1>1, <1>3

-----------------------------------------------------------------------------
(* The bytes taken.                                                        *)

\* Consumed bytes are what they were, with their consumer.
LEMMA ByBytes ==
    ASSUME NEW t \in Seq(Consumed), NEW w \in Consumers, NEW s \in Seq(STRING)
    PROVE  /\ By(w, s) \in Seq(Consumed) /\ Len(By(w, s)) = Len(s) /\ Bytes(By(w, s)) = s
           /\ \A i \in 1 .. Len(s) : By(w, s)[i].by = w
           /\ t \o By(w, s) \in Seq(Consumed) /\ Len(t \o By(w, s)) = Len(t) + Len(s)
           /\ Bytes(t) \in Seq(STRING) /\ Len(Bytes(t)) = Len(t)
           /\ Bytes(t \o By(w, s)) = Bytes(t) \o s
<1> DEFINE b == By(w, s)
           n == Len(s)
           m == Len(t)
<1>1. n \in Nat /\ s \in [1 .. n -> STRING] /\ m \in Nat /\ t \in [1 .. m -> Consumed]
    BY LenProperties
<1>2. b = [i \in 1 .. n |-> [by |-> w, byte |-> s[i]]]
    BY <1>1 DEF By
<1>3. b \in [1 .. n -> Consumed] /\ \A i \in 1 .. n : b[i].by = w /\ b[i].byte = s[i]
    BY <1>1, <1>2 DEF Consumed
<1>4. b \in Seq(Consumed) /\ Len(b) = n
    <2> HIDE DEF b, n
    <2>1. QED
        BY <1>1, <1>3, AsASeq
<1> HIDE DEF b
<1>5. Bytes(b) = s
    BY <1>1, <1>3 DEF Bytes
<1>6. /\ t \o b \in Seq(Consumed) /\ Len(t \o b) = m + n
      /\ \A i \in 1 .. m + n : (t \o b)[i] = IF i <= m THEN t[i] ELSE b[i - m]
    <2>1. /\ Cat(t, b) \in Seq(Consumed) /\ Len(Cat(t, b)) = Len(t) + Len(b)
          /\ \A i \in 1 .. Len(t) + Len(b) : Cat(t, b)[i] = IF i <= Len(t) THEN t[i] ELSE b[i - Len(t)]
        BY <1>4, CatIs
    <2>2. QED
        BY <1>4, <2>1 DEF Cat
<1>7. Bytes(t) \in [1 .. m -> STRING] /\ \A i \in 1 .. m : Bytes(t)[i] = t[i].byte
    BY <1>1 DEF Bytes, Consumed
<1>8. Bytes(t) \in Seq(STRING) /\ Len(Bytes(t)) = m
    BY <1>1, <1>7, AsASeq
<1>9. Bytes(t \o b) = Bytes(t) \o s
    <2>1. /\ Bytes(t) \o s \in Seq(STRING) /\ Len(Bytes(t) \o s) = m + n
          /\ \A i \in 1 .. m + n : (Bytes(t) \o s)[i] = IF i <= m THEN Bytes(t)[i] ELSE s[i - m]
        <3> DEFINE a == Bytes(t)
        <3>1. a \in Seq(STRING) /\ Len(a) = m
            BY <1>8
        <3> HIDE DEF a
        <3>2. /\ Cat(a, s) \in Seq(STRING) /\ Len(Cat(a, s)) = Len(a) + Len(s)
              /\ \A i \in 1 .. Len(a) + Len(s) : Cat(a, s)[i] = IF i <= Len(a) THEN a[i] ELSE s[i - Len(a)]
            BY <3>1, CatIs
        <3>3. QED
            BY <3>1, <3>2 DEF Cat, a
    <2>2. DOMAIN (t \o b) = 1 .. m + n
        BY <1>1, <1>6, LenProperties
    <2>3. Bytes(t \o b) = [i \in 1 .. m + n |-> (t \o b)[i].byte]
        BY <2>2 DEF Bytes
    <2>4. ASSUME NEW i \in 1 .. m + n PROVE (t \o b)[i].byte = (Bytes(t) \o s)[i]
        <3>1. CASE i <= m
            <4>1. i \in 1 .. m
                BY <3>1
            <4>2. QED
                BY <1>6, <1>7, <2>1, <3>1, <4>1
        <3>2. CASE ~(i <= m)
            <4>1. i - m \in 1 .. n
                BY <1>1, <3>2
            <4>2. QED
                BY <1>3, <1>6, <2>1, <3>2, <4>1
        <3>3. QED
            BY <3>1, <3>2
    <2>5. DOMAIN (Bytes(t) \o s) = 1 .. m + n
        BY <1>1, <2>1, LenProperties
    <2> DEFINE z == Bytes(t) \o s
    <2>6. z \in Seq(STRING) /\ DOMAIN z = 1 .. m + n /\ z = [i \in DOMAIN z |-> z[i]]
        <3>1. z \in Seq(STRING) /\ DOMAIN z = 1 .. m + n
            BY <2>1, <2>5
        <3> HIDE DEF z
        <3>2. QED
            BY <3>1, LenProperties
    <2>7. QED
        BY <2>3, <2>4, <2>6
<1>10. QED
    BY <1>3, <1>4, <1>5, <1>6, <1>8, <1>9 DEF b

\* The bytes behind the first k of some that more follow.
LEMMA SkipCat ==
    ASSUME NEW S, NEW a \in Seq(S), NEW b \in Seq(S), NEW k \in 0 .. Len(a)
    PROVE  Skip(k, a) \o b = Skip(k, a \o b)
<1> DEFINE x == Take(k, a)
           y == Skip(k, a)
<1>1. /\ x \in Seq(S) /\ y \in Seq(S) /\ Len(x) = k /\ Len(y) = Len(a) - k /\ x \o y = a
      /\ Len(a) \in Nat /\ Len(b) \in Nat /\ k \in Nat
    <2>1. k \in Nat /\ Len(a) \in Nat /\ Len(b) \in Nat
        BY LenProperties
    <2>2. QED
        BY <2>1, TakeSkip
<1> HIDE DEF x, y
<1>2. /\ y \o b \in Seq(S) /\ Len(y \o b) = Len(a) - k + Len(b)
      /\ \A i \in 1 .. Len(a) - k + Len(b) : (y \o b)[i] = IF i <= Len(a) - k THEN y[i] ELSE b[i - (Len(a) - k)]
    BY SMTT(30), <1>1, CatIs DEF Cat
<1>3. /\ a \o b \in Seq(S) /\ Len(a \o b) = Len(a) + Len(b)
      /\ \A i \in 1 .. Len(a) + Len(b) : (a \o b)[i] = IF i <= Len(a) THEN a[i] ELSE b[i - Len(a)]
    BY CatIs DEF Cat
<1>4. k \in 0 .. Len(a \o b)
    BY <1>1, <1>3
<1>5. /\ Skip(k, a \o b) \in Seq(S) /\ Len(Skip(k, a \o b)) = Len(a) + Len(b) - k
      /\ \A i \in 1 .. Len(a) + Len(b) - k : Skip(k, a \o b)[i] = (a \o b)[k + i]
    <2> DEFINE c == a \o b
    <2>1. c \in Seq(S) /\ Len(c) = Len(a) + Len(b) /\ k \in 0 .. Len(c)
        BY <1>3, <1>4
    <2> HIDE DEF c
    <2>2. /\ Skip(k, c) \in Seq(S) /\ Len(Skip(k, c)) = Len(a) + Len(b) - k
          /\ \A i \in 1 .. Len(a) + Len(b) - k : Skip(k, c)[i] = c[k + i]
        <3>1. /\ Skip(k, c) \in Seq(S) /\ Len(Skip(k, c)) = Len(c) - k
              /\ \A i \in 1 .. Len(c) - k : Skip(k, c)[i] = c[k + i]
            BY <2>1, TakeSkip
        <3>2. QED
            BY <2>1, <3>1
    <2>3. QED
        BY <2>2 DEF c
<1>6. \A i \in 1 .. Len(a) - k : y[i] = a[k + i]
    BY TakeSkip DEF y
<1>7. ASSUME NEW i \in 1 .. Len(a) - k + Len(b) PROVE (y \o b)[i] = Skip(k, a \o b)[i]
    <2>1. k + i \in 1 .. Len(a) + Len(b) /\ i \in 1 .. Len(a) + Len(b) - k
        BY <1>1
    <2>2. CASE i <= Len(a) - k
        <3>1. i \in 1 .. Len(a) - k /\ k + i <= Len(a)
            BY <1>1, <2>2
        <3>2. QED
            BY <1>2, <1>3, <1>5, <1>6, <2>1, <2>2, <3>1
    <2>3. CASE ~(i <= Len(a) - k)
        <3>1. ~(k + i <= Len(a)) /\ (k + i) - Len(a) = i - (Len(a) - k)
            BY <1>1, <2>3
        <3>2. QED
            BY <1>2, <1>3, <1>5, <2>1, <2>3, <3>1
    <2>4. QED
        BY <2>2, <2>3
<1>8. Len(y \o b) = Len(Skip(k, a \o b))
    BY <1>1, <1>2, <1>5
<1>9. QED
    BY <1>2, <1>5, <1>7, <1>8, SeqEqual DEF y

\* Consumed bytes come off the front of what is left.
LEMMA TakenFront ==
    ASSUME NEW t \in Seq(Consumed), NEW w \in Consumers, NEW got \in Seq(STRING), NEW rest \in Seq(STRING)
    PROVE  Bytes(t \o By(w, got)) \o rest = Bytes(t) \o (got \o rest)
<1>1. Bytes(t) \in Seq(STRING) /\ Bytes(t \o By(w, got)) = Bytes(t) \o got
    BY ByBytes
<1>2. Cat(Cat(Bytes(t), got), rest) = Cat(Bytes(t), Cat(got, rest))
    BY <1>1, Assoc
<1>3. QED
    BY <1>1, <1>2 DEF Cat

-----------------------------------------------------------------------------
(* What the bytes look like, as more of them come.                         *)

\* A prefix of a sequence is one of any that it starts, and the other way as far as it reaches.
LEMMA PrefixCat ==
    ASSUME NEW P, NEW p \in Seq(P), NEW S, NEW b \in Seq(S), NEW rest \in Seq(S)
    PROVE  /\ IsPrefix(p, b) => IsPrefix(p, b \o rest)
           /\ IsPrefix(p, b \o rest) => IsPrefix(p, b) \/ (IsPrefix(b, p) /\ Len(b) < Len(p))
<1>1. Len(p) \in Nat /\ Len(b) \in Nat /\ Len(rest) \in Nat
    BY LenProperties
<1>2. /\ b \o rest \in Seq(S) /\ Len(b \o rest) = Len(b) + Len(rest)
      /\ \A i \in 1 .. Len(b) + Len(rest) : (b \o rest)[i] = IF i <= Len(b) THEN b[i] ELSE rest[i - Len(b)]
    BY CatIs DEF Cat
<1>3. ASSUME NEW s, NEW t, Len(s) \in Nat, Len(t) \in Nat
      PROVE  IsPrefix(s, t) <=> Len(s) <= Len(t) /\ \A i \in 1 .. Len(s) : s[i] = t[i]
    <2>1. SubSeq(s, 1, Len(s)) = [i \in 1 .. Len(s) |-> s[i]]
        BY <1>3 DEF SubSeq
    <2>2. SubSeq(t, 1, Len(s)) = [i \in 1 .. Len(s) |-> t[i]]
        BY <1>3 DEF SubSeq
    <2>3. QED
        BY <2>1, <2>2 DEF IsPrefix
<1> DEFINE x == b \o rest
<1>4. Len(x) \in Nat
    BY <1>1, <1>2
<1> HIDE DEF x
<1>5. /\ IsPrefix(p, b) <=> Len(p) <= Len(b) /\ \A i \in 1 .. Len(p) : p[i] = b[i]
      /\ IsPrefix(b, p) <=> Len(b) <= Len(p) /\ \A i \in 1 .. Len(b) : b[i] = p[i]
      /\ IsPrefix(p, x) <=> Len(p) <= Len(x) /\ \A i \in 1 .. Len(p) : p[i] = x[i]
    BY <1>1, <1>3, <1>4
<1>6. \A i \in 1 .. Len(b) : x[i] = b[i]
    BY <1>1, <1>2 DEF x
<1>7. Len(b) <= Len(x)
    BY <1>1, <1>2 DEF x
<1>8. IsPrefix(p, b) => IsPrefix(p, x)
    BY <1>1, <1>4, <1>5, <1>6, <1>7
<1>9. IsPrefix(p, x) => IsPrefix(p, b) \/ (IsPrefix(b, p) /\ Len(b) < Len(p))
    BY <1>1, <1>4, <1>5, <1>6, <1>7
<1>10. QED
    BY <1>8, <1>9 DEF x

\* The sequences that are looked for.
LEMMA WellKnown ==
    /\ Preface \in Seq({"PRI", "sp", "*", "HTTP/2", "SM"}) /\ Len(Preface) = 6
    /\ << "16", "03" >> \in Seq({"16", "03"}) /\ Len(<< "16", "03" >>) = 2
    /\ << "HTTP/1", ".1" >> \in Seq({"HTTP/1", ".1"})
<1>1. Preface \in Seq({"PRI", "sp", "*", "HTTP/2", "SM"}) /\ Len(Preface) = 6
    BY DEF Preface
<1>2. << "16", "03" >> \in Seq({"16", "03"}) /\ Len(<< "16", "03" >>) = 2
    OBVIOUS
<1>3. << "HTTP/1", ".1" >> \in Seq({"HTTP/1", ".1"})
    OBVIOUS
<1>4. QED
    BY <1>1, <1>2, <1>3

\* What is known stays so, and what is neither known nor may become it never is.
LEMMA TlsStays ==
    ASSUME NEW b \in Seq(STRING), NEW rest \in Seq(STRING)
    PROVE  /\ is_tls_handshake(b) => is_tls_handshake(b \o rest)
           /\ is_h2_preface(b) => is_h2_preface(b \o rest)
<1> DEFINE p == << "16", "03" >>
<1>1. p \in Seq({"16", "03"}) /\ Preface \in Seq({"PRI", "sp", "*", "HTTP/2", "SM"})
    BY WellKnown
<1> HIDE DEF p
<1>2. /\ IsPrefix(p, b) => IsPrefix(p, b \o rest)
      /\ IsPrefix(Preface, b) => IsPrefix(Preface, b \o rest)
    BY <1>1, PrefixCat
<1>3. QED
    BY <1>2 DEF is_tls_handshake, is_h2_preface, p

\* Bytes the sniff gives up on are of no known protocol, whatever follows them.
LEMMA UnknownStays ==
    ASSUME NEW b \in Seq(STRING), NEW rest \in Seq(STRING), ~Known(b),
           Len(b) >= MaxPrefix \/ ~could_be_known_protocol(b)
    PROVE  ~Known(b \o rest)
<1>1. Len(b) \in Nat
    BY LenProperties
<1>2. ASSUME is_tls_handshake(b \o rest) PROVE FALSE
    <2> DEFINE p == << "16", "03" >>
    <2>1. p \in Seq({"16", "03"}) /\ Len(p) = 2 /\ p[1] = "16"
        BY WellKnown
    <2>2. IsPrefix(p, b \o rest) /\ ~IsPrefix(p, b)
        BY <1>2 DEF is_tls_handshake, Known
    <2> HIDE DEF p
    <2>3. IsPrefix(b, p) /\ Len(b) < 2
        BY <2>1, <2>2, PrefixCat
    <2>4. could_be_known_protocol(b)
        <3>1. CASE Len(b) = 0
            <4>1. b = <<>>
                BY <3>1, EmptySeq
            <4>2. IsPrefix(<<>>, Preface)
                BY WellKnown DEF IsPrefix
            <4>3. QED
                BY <4>1, <4>2 DEF could_be_known_protocol
        <3>2. CASE Len(b) = 1
            <4>1. SubSeq(b, 1, 1) = SubSeq(p, 1, 1)
                BY <2>3, <3>2 DEF IsPrefix
            <4>2. b[1] = "16"
                BY <2>1, <4>1 DEF SubSeq
            <4>3. b = << "16" >>
                BY <3>2, <4>2
            <4>4. QED
                BY <4>3 DEF could_be_known_protocol, is_partial_tls_handshake
        <3>3. Len(b) = 0 \/ Len(b) = 1
            <4> DEFINE n == Len(b)
            <4>1. n \in Nat /\ n < 2
                BY <1>1, <2>3
            <4> HIDE DEF n
            <4>2. n = 0 \/ n = 1
                BY <4>1
            <4>3. QED
                BY <4>2 DEF n
        <3>4. QED
            BY <3>1, <3>2, <3>3
    <2>5. QED
        BY <1>1, <2>3, <2>4, PrefixAssumption
<1>3. ASSUME is_h2_preface(b \o rest) PROVE FALSE
    <2>1. IsPrefix(Preface, b \o rest) /\ ~IsPrefix(Preface, b)
        BY <1>3 DEF is_h2_preface, Known
    <2>2. IsPrefix(b, Preface) /\ Len(b) < 6
        BY <2>1, WellKnown, PrefixCat
    <2>3. could_be_known_protocol(b)
        BY <2>2 DEF could_be_known_protocol
    <2>4. QED
        BY <1>1, <2>2, <2>3, PrefixAssumption
<1>4. QED
    BY <1>2, <1>3 DEF Known

\* An HTTP/1 request line is one whatever follows it.
LEMMA RequestStays ==
    ASSUME NEW b \in Seq(STRING), NEW rest \in Seq(STRING), is_http1_request(b)
    PROVE  is_http1_request(b \o rest)
<1> DEFINE x == b \o rest
<1>1. Len(b) \in Nat /\ Len(rest) \in Nat
    BY LenProperties
<1>2. /\ x \in Seq(STRING) /\ Len(x) = Len(b) + Len(rest)
      /\ \A i \in 1 .. Len(b) : i \in 1 .. Len(x) /\ x[i] = b[i]
    BY <1>1, ConcatProperties
<1> HIDE DEF x
<1>3. HasMethod(x)
    <2>1. PICK i \in 2 .. Len(b) : b[i] = "sp" /\ \A j \in 1 .. i - 1 : b[j] \in Letters
        BY DEF is_http1_request, HasMethod
    <2>2. i \in 2 .. Len(x) /\ x[i] = "sp"
        BY <1>1, <1>2, <2>1
    <2>3. \A j \in 1 .. i - 1 : x[j] \in Letters
        BY <1>1, <1>2, <2>1
    <2>4. QED
        BY <2>2, <2>3 DEF HasMethod
<1>4. PICK first \in Spaces(b), second \in Spaces(b) :
        /\ first < second /\ \A i \in Spaces(b) : i <= second => i \in {first, second}
        /\ IsPrefix(<< "HTTP/1", ".1" >>, SubSeq(b, second + 1, Len(b)))
    BY DEF is_http1_request
<1>5. /\ first \in 1 .. Len(b) /\ second \in 1 .. Len(b)
      /\ first \in Spaces(x) /\ second \in Spaces(x)
    BY <1>2, <1>4 DEF Spaces
<1>6. ASSUME NEW i \in Spaces(x), i <= second PROVE i \in {first, second}
    <2>1. i \in Spaces(b)
        BY <1>1, <1>2, <1>5, <1>6 DEF Spaces
    <2>2. QED
        BY <1>4, <1>6, <2>1
<1>7. IsPrefix(<< "HTTP/1", ".1" >>, SubSeq(x, second + 1, Len(x)))
    <2>1. second \in 0 .. Len(b)
        BY <1>5
    <2>2. Skip(second, b) \in Seq(STRING) /\ Skip(second, b) \o rest = Skip(second, x)
        BY <2>1, TakeSkip, SkipCat DEF x
    <2>3. IsPrefix(<< "HTTP/1", ".1" >>, Skip(second, b))
        BY <1>4 DEF Skip
    <2>4. IsPrefix(<< "HTTP/1", ".1" >>, Skip(second, b) \o rest)
        BY <2>2, <2>3, WellKnown, PrefixCat
    <2>5. QED
        BY <2>2, <2>4 DEF Skip
<1>8. QED
    BY <1>3, <1>4, <1>5, <1>6, <1>7 DEF is_http1_request, x

-----------------------------------------------------------------------------
(* The head at the start of the server's buffer, and the answers.          *)

\* A head that has arrived is some of the buffer.
LEMMA HeadFits ==
    ASSUME buf \in Seq(STRING), HeadArrived
    PROVE  HeadLength \in 1 .. Len(buf)
<1>1. Len(buf) \in Nat /\ DOMAIN buf = 1 .. Len(buf)
    BY LenProperties
<1>2. CASE pc = "h2"
    <2>1. CASE is_h2_preface(buf)
        <3>1. Len(Preface) = 6 /\ 6 <= Len(buf)
            BY <2>1, WellKnown DEF is_h2_preface, IsPrefix
        <3>2. QED
            BY <1>1, <1>2, <2>1, <3>1 DEF HeadLength
    <2>2. CASE ~is_h2_preface(buf)
        <3>1. buf # <<>>
            BY <1>2, <2>2 DEF HeadArrived
        <3>2. Len(buf) >= 1
            BY <1>1, <3>1, EmptySeq
        <3>3. QED
            BY <1>1, <1>2, <2>2, <3>2 DEF HeadLength
    <2>3. QED
        BY <2>1, <2>2
<1>3. CASE pc # "h2"
    <2> DEFINE E == {i \in 1 .. Len(buf) : buf[i] = "end"}
               IsEnd(i) == buf[i] = "end" /\ \A j \in 1 .. i - 1 : buf[j] # "end"
    <2>1. E # {} /\ E \subseteq Nat
        BY <1>3 DEF HeadArrived, Contains
    <2>2. PICK i \in E : \A j \in E : i <= j
        BY <2>1, LeastNatural
    <2>3. i \in DOMAIN buf /\ IsEnd(i)
        <3>1. ASSUME NEW j \in 1 .. i - 1, buf[j] = "end" PROVE FALSE
            <4>1. j \in E /\ ~(i <= j)
                BY <1>1, <3>1
            <4>2. QED
                BY <2>2, <4>1
        <3>2. QED
            BY <1>1, <3>1
    <2>4. HeadLength = CHOOSE j \in DOMAIN buf : IsEnd(j)
        BY <1>3 DEF HeadLength
    <2>5. HeadLength \in DOMAIN buf
        BY <2>3, <2>4
    <2>6. QED
        BY <1>1, <2>5
<1>4. QED
    BY <1>2, <1>3

\* The count of CONNECTs answered is 0 when there is none.
LEMMA ConnectCount ==
    ASSUME told \in Seq(Told)
    PROVE  Connects = 0 <=> NoConnect
<1> DEFINE C == {i \in DOMAIN told : IsConnect(told[i])}
<1>1. IsFiniteSet(C)
    <2>1. DOMAIN told = 1 .. Len(told) /\ Len(told) \in Nat
        BY LenProperties
    <2>2. IsFiniteSet(1 .. Len(told))
        BY <2>1, FS_Interval
    <2>3. QED
        BY <2>1, <2>2, FS_Subset
<1>2. Cardinality(C) = 0 <=> C = {}
    BY <1>1, FS_EmptySet
<1>3. C = {} <=> NoConnect
    BY DEF NoConnect, IsConnect
<1>4. QED
    BY <1>2, <1>3 DEF Connects

\* One more answer.
LEMMA OneMore ==
    ASSUME told \in Seq(Told), NEW what \in Told, told' = Append(told, what)
    PROVE  /\ told' \in Seq(Told) /\ NoConnect' => NoConnect
           /\ what # "200" => (NoConnect' <=> NoConnect)
           /\ what = "200" => ~NoConnect'
<1>1. Len(told) \in Nat /\ DOMAIN told = 1 .. Len(told)
    BY LenProperties
<1>2. /\ told' \in Seq(Told) /\ Len(told') = Len(told) + 1
      /\ \A i \in 1 .. Len(told) : told'[i] = told[i]
      /\ told'[Len(told) + 1] = what
    BY AppendProperties
<1>3. DOMAIN told' = 1 .. Len(told) + 1
    BY <1>2, LenProperties
<1>4. NoConnect' <=> \A i \in 1 .. Len(told) + 1 : told'[i] # "200"
    BY <1>3 DEF NoConnect
<1>5. NoConnect <=> \A i \in 1 .. Len(told) : told[i] # "200"
    BY <1>1 DEF NoConnect
<1>6. NoConnect' <=> NoConnect /\ what # "200"
    <2>1. \A i \in 1 .. Len(told) + 1 : i \in 1 .. Len(told) \/ i = Len(told) + 1
        BY <1>1
    <2>2. Len(told) + 1 \in 1 .. Len(told) + 1 /\ \A i \in 1 .. Len(told) : i \in 1 .. Len(told) + 1
        BY <1>1
    <2>3. QED
        BY <1>2, <1>4, <1>5, <2>1, <2>2
<1>7. QED
    BY <1>2, <1>6

-----------------------------------------------------------------------------
(* What a request's handler does.                                          *)

\* A head of a connection, and the URL it stands for.
LEMMA HeadFacts ==
    ASSUME conn \in Setups, NEW i \in 1 .. Len(conn.heads), NEW inside \in {"http", "https"}
    PROVE  /\ conn.heads[i] \in Heads /\ HasItsAuthority(conn, conn.heads[i])
           /\ Named(conn.heads[i], inside) \in Seq(Token)
<1> DEFINE h == conn.heads[i]
<1>1. h \in Heads /\ HasItsAuthority(conn, h)
    <2>1. conn.heads \in Seq(Heads) /\ \A j \in DOMAIN conn.heads : HasItsAuthority(conn, conn.heads[j])
        BY SetupAssumption
    <2>2. DOMAIN conn.heads = 1 .. Len(conn.heads)
        BY <2>1, LenProperties
    <2>3. QED
        BY <2>1, <2>2, ElementOfSeq
<1> HIDE DEF h
<1>2. h.uri \in Token /\ h.host \in Token /\ h.path \in Seq(Token) /\ inside \in Token /\ "connect" \in Token
    <2>1. h.uri \in STRING /\ h.host \in STRING /\ h.path \in Seq(STRING) /\ STRING \subseteq Token
        BY <1>1 DEF Heads, Token
    <2>2. h.path \in Seq(Token)
        BY <2>1, MoreSeq
    <2>3. QED
        BY <2>1, <2>2 DEF Token, Schemes
<1>3. << "connect", h.uri >> \in Seq(Token)
    BY <1>2
<1>4. ASSUME NEW a \in Token PROVE << inside, a >> \o h.path \in Seq(Token)
    <2> DEFINE p == << inside, a >>
    <2>1. p \in Seq(Token)
        BY <1>2
    <2> HIDE DEF p
    <2>2. p \o h.path \in Seq(Token)
        BY <1>2, <2>1, ConcatProperties
    <2>3. QED
        BY <2>2 DEF p
<1>5. <<>> \o h.path \in Seq(Token)
    BY <1>2, ConcatEmptySeq
<1>6. Named(h, inside) \in Seq(Token)
    BY <1>2, <1>3, <1>4, <1>5 DEF Named
<1>7. QED
    BY <1>1, <1>6 DEF h

\* A reverse proxy's URLs have its target's authority.
LEMMA Rewritten ==
    ASSUME conn \in Setups, NEW url \in Seq(Token)
    PROVE  /\ rewrite_uri(url)[1] = IF conn.mode = "reverse" THEN "http" ELSE "https"
           /\ rewrite_uri(url)[2] = conn.target
<1> DEFINE p == << IF conn.mode = "reverse" THEN "http" ELSE "https", conn.target >>
           S == Token \union {"http", "https"}
<1>1. PathOf(url) \in Seq(Token)
    <2>1. Len(url) \in Nat
        BY LenProperties
    <2>2. CASE Len(url) < 3
        <3>1. SubSeq(url, 3, Len(url)) = <<>>
            BY <2>1, <2>2, SubSeqEmpty
        <3>2. QED
            BY <3>1, EmptySeq DEF PathOf
    <2>3. CASE Len(url) >= 3
        <3>1. 3 \in 1 .. Len(url) + 1 /\ Len(url) \in 3 - 1 .. Len(url)
            BY <2>1, <2>3
        <3>2. SubSeq(url, 3, Len(url)) \in Seq(Token)
            BY <3>1, SubSeqProperties
        <3>3. QED
            BY <3>2 DEF PathOf
    <2>4. QED
        BY <2>1, <2>2, <2>3
<1>2. p \in Seq(Token) /\ Len(p) = 2 /\ p[1] = (IF conn.mode = "reverse" THEN "http" ELSE "https") /\ p[2] = conn.target
    <2>1. conn.target \in Token /\ "http" \in Token /\ "https" \in Token
        BY SetupAssumption DEF Token, Schemes
    <2>2. QED
        BY <2>1
<1>3. rewrite_uri(url) = p \o PathOf(url)
    BY DEF rewrite_uri
<1> DEFINE y == PathOf(url)
<1> HIDE DEF p, y
<1>4. Len(y) \in Nat
    BY <1>1, LenProperties DEF y
<1>5. 1 \in 1 .. Len(p) + Len(y) /\ 2 \in 1 .. Len(p) + Len(y) /\ 1 <= Len(p) /\ 2 <= Len(p)
    BY <1>2, <1>4
<1>6. \A j \in 1 .. Len(p) + Len(y) : Cat(p, y)[j] = IF j <= Len(p) THEN p[j] ELSE y[j - Len(p)]
    BY <1>1, <1>2, CatIs DEF y
<1>7. Cat(p, y)[1] = p[1] /\ Cat(p, y)[2] = p[2]
    BY <1>5, <1>6
<1>8. QED
    BY <1>2, <1>3, <1>7 DEF Cat, y

\* Where Upstream sends the request of the head served now.
LEMMA SentRight ==
    ASSUME FrontInv, served < Len(conn.heads), NEW url, NEW to,
           WentThrough(conn.heads[served + 1], scheme, url), url \in Seq(Token),
           \/ InReverse /\ to = rewrite_uri(url)
           \/ ~InReverse /\ to = url /\ (InH3 \/ InSocks \/ ~OwnPage(conn.heads[served + 1]))
    PROVE  Upstream(to).what = "request" /\ RequestsGoRight(Upstream(to))
<1> DEFINE e == Upstream(to)
<1>1. /\ e.what = "request" /\ e.head = served + 1 /\ e.inside = scheme /\ e.connects = Connects
      /\ e.to = (IF IsPinned THEN conn.dest ELSE to[2]) /\ e.tls = UpstreamTlsFor(to) /\ e.via = Via
    BY DEF Upstream
<1>2. conn \in Setups /\ conn.mode \in Modes
    BY SetupAssumption DEF FrontInv, FrontTypeOK
<1>3. rewrite_uri(url)[1] = (IF conn.mode = "reverse" THEN "http" ELSE "https") /\ rewrite_uri(url)[2] = conn.target
    BY <1>2, Rewritten
<1>4. e.connects = 0 /\ InSocks /\ scheme = "https" => up.tls
    BY <1>1, ConnectCount DEF FrontInv, StateIs, Located
<1> HIDE DEF e
<1>5. Placed(e, url)
    <2>1. e.via = IF InH3 THEN "direct" ELSE conn.chain
        BY <1>1 DEF Via
    <2>2. CASE InReverse
        <3>1. to = rewrite_uri(url) /\ ~IsPinned /\ ~InSocks
            BY <2>2 DEF InReverse, IsPinned, InSocks
        <3>2. e.to = conn.target
            BY <1>1, <1>3, <3>1
        <3>3. e.tls = (InH3 \/ rewrite_uri(url)[1] = "https")
            BY <1>1, <3>1 DEF UpstreamTlsFor
        <3>4. e.tls = (conn.mode # "reverse")
            BY <1>3, <2>2, <3>3 DEF InReverse, InH3
        <3>5. QED
            <4>1. conn.mode # "wireguardh3" /\ ~InSocks
                BY <2>2 DEF InReverse, InSocks
            <4>2. QED
                BY <2>1, <2>2, <3>2, <3>4, <4>1 DEF Placed
    <2>3. CASE ~InReverse /\ InH3
        <3>1. IsPinned /\ ~InSocks
            BY <2>3 DEF InReverse, InH3, IsPinned, InSocks
        <3>2. e.to = conn.dest /\ e.tls
            BY <1>1, <2>3, <3>1 DEF UpstreamTlsFor
        <3>3. QED
            BY <2>1, <2>3, <3>1, <3>2 DEF Placed, InReverse, InH3
    <2>4. CASE ~InReverse /\ ~InH3 /\ InSocks
        <3>1. e.to = conn.dest /\ e.tls = up.tls
            BY <1>1, <2>4 DEF UpstreamTlsFor, IsPinned
        <3>2. QED
            BY <1>1, <1>4, <2>1, <2>4, <3>1 DEF Placed, InH3
    <2>5. CASE ~InReverse /\ ~InH3 /\ ~InSocks
        <3>1. ~IsPinned /\ to = url /\ ~OwnPage(conn.heads[served + 1])
            BY <2>5 DEF IsPinned, InH3
        <3>2. e.to = url[2] /\ e.tls = (url[1] = "https") /\ ~OwnPage(conn.heads[e.head])
            BY <1>1, <2>5, <3>1 DEF UpstreamTlsFor
        <3>3. QED
            BY <2>1, <2>5, <3>2 DEF Placed, InH3
    <2>6. QED
        BY <2>2, <2>3, <2>4, <2>5
<1>6. RequestsGoRight(e)
    <2> DEFINE h == conn.heads[served + 1]
               urls == Mapped(h, scheme)
    <2>1. PICK k \in 0 .. Len(conn.rules) :
            /\ k < Len(conn.rules) => MayFail(conn.rules[k + 1], h, urls[k])
            /\ \A i \in 1 .. k : ~Answers(conn.rules[i], h, urls[i - 1])
            /\ url = urls[k]
        BY DEF WentThrough
    <2>2. conn.heads[e.head] = h /\ Mapped(h, e.inside) = urls
        BY <1>1
    <2>3. QED
        BY <1>5, <2>1, <2>2 DEF RequestsGoRight
<1>7. QED
    BY <1>1, <1>6 DEF e

\* A request is answered: in one of the ways there are, after it went upstream or not.
IsAnswered ==
    /\ UNCHANGED <<then, pre, scheme, dest>> /\ pc' \in {pc, "websocket"}
    /\ \E what \in Told \ {"200"} : told' = Append(told, what)
    /\ log' = log \/ \E e : e.what = "request" /\ RequestsGoRight(e) /\ log' = Append(log, e)

\* What is answered without going upstream, and is no 200 of a CONNECT, is answered.
LEMMA AnswerAnswers ==
    ASSUME NEW what \in Told \ {"200"}, AnswerOnly(what)
    PROVE  IsAnswered
    BY DEF AnswerOnly, Answer, IsAnswered

\* An exchange sends at most one request, to where its URL goes, and answers it.
LEMMA ExchangeAnswers ==
    ASSUME NEW to, NEW upgrade, Upstream(to).what = "request", RequestsGoRight(Upstream(to)),
           Exchange(to, upgrade)
    PROVE  IsAnswered
<1>1. "502" \in Told \ {"200"} /\ "response" \in Told \ {"200"} /\ "101" \in Told \ {"200"}
    BY DEF Told
<1>2. CASE AnswerOnly("502")
    BY <1>1, <1>2, AnswerAnswers
<1>3. CASE ~AnswerOnly("502")
    <2>1. log' = Append(log, Upstream(to)) /\ (Answer("502") \/ Answer("response") \/ Upgrade("101"))
        BY <1>3 DEF Exchange
    <2>2. \E e : e.what = "request" /\ RequestsGoRight(e) /\ log' = Append(log, e)
        BY <2>1
    <2>3. /\ UNCHANGED <<then, pre, scheme, dest>> /\ pc' \in {pc, "websocket"}
          /\ \E what \in Told \ {"200"} : told' = Append(told, what)
        BY <1>1, <2>1 DEF Answer, Upgrade
    <2>4. QED
        BY <2>2, <2>3 DEF IsAnswered
<1>4. QED
    BY <1>2, <1>3

\* What may come back from the rules and the hooks.
LEMMA OutcomesAreTold == Outcomes \union {"handler", "502", "400", "page", "reset"} \subseteq Told \ {"200"}
    BY DEF Outcomes, Told

\* A request whose URL the rules saw as it stands for goes where it should, or is answered.
LEMMA HandledAnswers ==
    ASSUME FrontInv, served < Len(conn.heads), NEW url, url = Named(conn.heads[served + 1], scheme),
           NEW r \in handle_request(conn.heads[served + 1], url), NEW upgrade, NEW to,
           \/ r.outcome # "forward" /\ AnswerOnly(r.outcome)
           \/ AnswerOnly("502") \/ AnswerOnly("400") \/ AnswerOnly("reset")
           \/ /\ r.outcome = "forward" /\ Exchange(to, upgrade)
              /\ \/ InReverse /\ to = rewrite_uri(r.url)
                 \/ ~InReverse /\ to = r.url /\ (InH3 \/ InSocks \/ ~OwnPage(conn.heads[served + 1]))
    PROVE  IsAnswered
<1> DEFINE h == conn.heads[served + 1]
<1>1. conn \in Setups /\ served + 1 \in 1 .. Len(conn.heads) /\ scheme \in {"http", "https"}
    <2>1. conn \in Setups /\ served \in 0 .. Len(conn.heads) /\ scheme \in {"http", "https"}
        BY DEF FrontInv, FrontTypeOK
    <2>2. Len(conn.heads) \in Nat
        BY <2>1, SetupAssumption, LenProperties
    <2>3. QED
        BY <2>1, <2>2
<1>2. Named(h, scheme) \in Seq(Token)
    BY <1>1, HeadFacts
<1>3. /\ r.url \in Seq(Token) /\ r.outcome \in Outcomes \union {"handler"}
      /\ r.outcome = "forward" => WentThrough(h, scheme, r.url)
    BY <1>1, <1>2, Handled
<1>4. CASE r.outcome # "forward" /\ AnswerOnly(r.outcome)
    BY <1>3, <1>4, OutcomesAreTold, AnswerAnswers
<1>5. CASE AnswerOnly("502") \/ AnswerOnly("400") \/ AnswerOnly("reset")
    BY <1>5, OutcomesAreTold, AnswerAnswers
<1>6. CASE /\ r.outcome = "forward" /\ Exchange(to, upgrade)
           /\ \/ InReverse /\ to = rewrite_uri(r.url)
              \/ ~InReverse /\ to = r.url /\ (InH3 \/ InSocks \/ ~OwnPage(h))
    <2>1. Upstream(to).what = "request" /\ RequestsGoRight(Upstream(to))
        BY <1>3, <1>6, SentRight
    <2>2. QED
        BY <1>6, <2>1, ExchangeAnswers
<1>7. QED
    BY <1>4, <1>5, <1>6

\* The services complete a URL to the one its head stands for.
LEMMA Urls ==
    ASSUME NEW h
    PROVE  /\ InReverse \/ h.uri # "none" \/ (h.method = "CONNECT" /\ ":protocol" \notin h.headers) =>
                Url(h) = Named(h, scheme)
           /\ ~InReverse /\ ~(h.method = "CONNECT" /\ ":protocol" \notin h.headers) =>
                reconstruct_protocol_uri(h) = Named(h, scheme)
    BY DEF Url, Named, reconstruct_protocol_uri

\* A request the forward services let pass is answered as its completed URL says.
LEMMA ForwardAnswers ==
    ASSUME FrontInv, served < Len(conn.heads), ~InReverse, ~OwnPage(conn.heads[served + 1]),
           conn.heads[served + 1].method # "CONNECT", NEW upgrade,
           ForwardRequest(conn.heads[served + 1], upgrade)
    PROVE  IsAnswered
<1> DEFINE h == conn.heads[served + 1]
<1>1. PICK r \in handle_request(h, reconstruct_protocol_uri(h)) :
        IF r.outcome # "forward" THEN AnswerOnly(r.outcome) ELSE Exchange(r.url, upgrade)
    BY DEF ForwardRequest
<1>2. reconstruct_protocol_uri(h) = Named(h, scheme)
    BY Urls
<1>3. QED
    BY <1>1, <1>2, HandledAnswers

\* An extended CONNECT is answered as the URL of its :authority says.
LEMMA ExtendedAnswers ==
    ASSUME FrontInv, served < Len(conn.heads), is_extended_websocket(conn.heads[served + 1]),
           InReverse \/ InH3 \/ ~OwnPage(conn.heads[served + 1]),
           ExtendedWebSocket(conn.heads[served + 1])
    PROVE  IsAnswered
<1> DEFINE h == conn.heads[served + 1]
<1>1. PICK r \in handle_request(h, Url(h)) :
        IF r.outcome # "forward" THEN AnswerOnly(r.outcome)
        ELSE IF "version" \notin r.headers THEN AnswerOnly("400")
        ELSE IF InReverse /\ ~Rewritable(r.url) THEN AnswerOnly("502")
        ELSE Exchange(IF InReverse THEN rewrite_uri(r.url) ELSE r.url, TRUE)
    BY DEF ExtendedWebSocket
<1>2. conn \in Setups /\ served + 1 \in 1 .. Len(conn.heads)
    <2>1. conn \in Setups /\ served \in 0 .. Len(conn.heads)
        BY DEF FrontInv, FrontTypeOK
    <2>2. Len(conn.heads) \in Nat
        BY <2>1, SetupAssumption, LenProperties
    <2>3. QED
        BY <2>1, <2>2
<1>3. HasItsAuthority(conn, h)
    <2>1. "http" \in {"http", "https"}
        OBVIOUS
    <2>2. QED
        BY <1>2, <2>1, HeadFacts
<1>4. Url(h) = Named(h, scheme)
    BY <1>3, Urls DEF HasItsAuthority, is_extended_websocket
<1>5. CASE InReverse
    BY <1>1, <1>4, <1>5, HandledAnswers
<1>6. CASE ~InReverse
    BY <1>1, <1>4, <1>6, HandledAnswers
<1>7. QED
    BY <1>5, <1>6

\* One request handed to the service of an HTTP/1 or HTTP/2 connection.
LEMMA CallDoes ==
    ASSUME FrontInv, served < Len(conn.heads), NEW rest, Call(conn.heads[served + 1], rest)
    PROVE  \/ IsAnswered /\ buf' = rest
           \/ \E caller \in {"connect", "h2connect"} :
                Tunnel(conn.heads[served + 1], caller, rest) /\ buf' = <<>>
<1> DEFINE h == conn.heads[served + 1]
<1>0. "page" \in Told \ {"200"}
    BY OutcomesAreTold
<1>1. CASE InReverse /\ pc = "h2"
    <2>1. buf' = rest
        BY <1>1 DEF Call, ReverseH2
    <2>2. CASE is_extended_websocket(h)
        <3>1. ExtendedWebSocket(h)
            BY <1>1, <2>2 DEF Call, ReverseH2
        <3>2. QED
            BY <1>1, <2>1, <2>2, <3>1, ExtendedAnswers
    <2>3. CASE ~is_extended_websocket(h)
        <3>1. PICK r \in handle_request(h, Url(h)) :
                IF r.outcome # "forward" THEN AnswerOnly(r.outcome)
                ELSE IF ~Rewritable(r.url) THEN AnswerOnly("502")
                ELSE Exchange(rewrite_uri(r.url), FALSE)
            BY <1>1, <2>3 DEF Call, ReverseH2, ReverseRequest
        <3>2. IsAnswered
            BY <1>1, <3>1, Urls, HandledAnswers
        <3>3. QED
            BY <2>1, <3>2
    <2>4. QED
        BY <2>2, <2>3
<1>2. CASE InReverse /\ pc # "h2"
    <2>1. buf' = rest
        BY <1>2 DEF Call, ReverseHttp1
    <2>2. PICK r \in handle_request(h, Url(h)) :
            IF r.outcome # "forward" THEN AnswerOnly(r.outcome)
            ELSE IF ~Rewritable(r.url) THEN AnswerOnly("502")
            ELSE Exchange(rewrite_uri(r.url), IsWebSocket(r.headers))
        BY <1>2 DEF Call, ReverseHttp1, ReverseRequest
    <2>3. IsAnswered
        BY <1>2, <2>2, Urls, HandledAnswers
    <2>4. QED
        BY <2>1, <2>3
<1>3. CASE ~InReverse /\ pc = "h2"
    <2>1. ForwardH2(h, rest)
        BY <1>3 DEF Call
    <2>2. CASE OwnPage(h) /\ AnswerOnly("page") /\ buf' = rest
        BY <1>0, <2>2, AnswerAnswers
    <2>3. CASE ~OwnPage(h) /\ is_extended_websocket(h) /\ ExtendedWebSocket(h) /\ buf' = rest
        BY <2>3, ExtendedAnswers
    <2>4. CASE Tunnel(h, "h2connect", rest) /\ buf' = <<>>
        BY <2>4
    <2>5. CASE ~OwnPage(h) /\ h.method # "CONNECT" /\ ForwardRequest(h, FALSE) /\ buf' = rest
        BY <1>3, <2>5, ForwardAnswers
    <2>6. QED
        BY <2>1, <2>2, <2>3, <2>4, <2>5 DEF ForwardH2
<1>4. CASE ~InReverse /\ pc # "h2"
    <2>1. ForwardHttp1(h, rest)
        BY <1>4 DEF Call
    <2>2. CASE OwnPage(h) /\ AnswerOnly("page") /\ buf' = rest
        BY <1>0, <2>2, AnswerAnswers
    <2>3. CASE Tunnel(h, "connect", rest) /\ buf' = <<>>
        BY <2>3
    <2>4. CASE ~OwnPage(h) /\ h.method # "CONNECT" /\ ForwardRequest(h, IsWebSocket(h.headers)) /\ buf' = rest
        BY <1>4, <2>4, ForwardAnswers
    <2>5. QED
        BY <2>1, <2>2, <2>3, <2>4 DEF ForwardHttp1
<1>5. QED
    BY <1>1, <1>2, <1>3, <1>4

\* One stream's request handed to the service of an HTTP/3 connection.
LEMMA StreamDoes ==
    ASSUME FrontInv, served < Len(conn.heads), conn.mode \in {"reverseh3", "wireguardh3"},
           IF InReverse THEN ReverseH3(conn.heads[served + 1]) ELSE WireGuardH3(conn.heads[served + 1])
    PROVE  IsAnswered
<1> DEFINE h == conn.heads[served + 1]
<1>1. InH3
    BY DEF InH3
<1>2. CASE is_extended_websocket(h)
    <2>1. ExtendedWebSocket(h)
        BY <1>2 DEF ReverseH3, WireGuardH3
    <2>2. QED
        BY <1>1, <1>2, <2>1, ExtendedAnswers
<1>3. CASE ~is_extended_websocket(h) /\ InReverse
    <2>1. PICK r \in handle_request(h, Url(h)) :
            IF r.outcome # "forward" THEN AnswerOnly(r.outcome)
            ELSE IF ~Rewritable(r.url) THEN AnswerOnly("reset")
            ELSE Exchange(rewrite_uri(r.url), FALSE)
        BY <1>3 DEF ReverseH3
    <2>2. QED
        BY <1>3, <2>1, Urls, HandledAnswers
<1>4. CASE ~is_extended_websocket(h) /\ ~InReverse
    <2>1. PICK r \in handle_request(h, Url(h)) :
            IF r.outcome # "forward" THEN AnswerOnly(r.outcome)
            ELSE IF ~HasAuthority(r.url) THEN AnswerOnly("400")
            ELSE Exchange(r.url, FALSE)
        BY <1>4 DEF WireGuardH3
    <2>2. conn \in Setups /\ served + 1 \in 1 .. Len(conn.heads)
        <3>1. conn \in Setups /\ served \in 0 .. Len(conn.heads)
            BY DEF FrontInv, FrontTypeOK
        <3>2. Len(conn.heads) \in Nat
            BY <3>1, SetupAssumption, LenProperties
        <3>3. QED
            BY <3>1, <3>2
    <2>3. HasItsAuthority(conn, h)
        <3>1. "http" \in {"http", "https"}
            OBVIOUS
        <3>2. QED
            BY <2>2, <3>1, HeadFacts
    <2>4. Url(h) = Named(h, scheme)
        BY <2>3, Urls DEF HasItsAuthority
    <2>5. QED
        BY <1>1, <1>4, <2>1, <2>4, HandledAnswers
<1>5. QED
    BY <1>2, <1>3, <1>4

-----------------------------------------------------------------------------
(* The parts of the invariant no step of an action disturbs.               *)

\* What is right for a connection's log entry stays right.
LEMMA EntriesStay ==
    ASSUME conn' = conn, NEW e
    PROVE  (RequestsGoRight(e)' <=> RequestsGoRight(e)) /\ (TunnelsGoRight(e)' <=> TunnelsGoRight(e))
<1>1. ASSUME NEW h, NEW inside PROVE Mapped(h, inside)' = Mapped(h, inside)
    BY DEF Mapped, Named, InReverse
<1>2. ASSUME NEW url PROVE Placed(e, url)' <=> Placed(e, url)
    BY DEF Placed, InReverse, InH3, InSocks
<1>3. TunnelsGoRight(e)' <=> TunnelsGoRight(e)
    BY DEF TunnelsGoRight
<1>4. RequestsGoRight(e)' <=> RequestsGoRight(e)
    BY <1>1, <1>2 DEF RequestsGoRight
<1>5. QED
    BY <1>3, <1>4

\* The log stays right when nothing, or a right entry, is added.
LEMMA LogsStay ==
    ASSUME FrontInv, conn' = conn,
           \/ log' = log
           \/ \E e : /\ IF e.what = "raw" THEN TunnelsGoRight(e) ELSE RequestsGoRight(e)
                     /\ log' = Append(log, e)
    PROVE  Logs'
<1> DEFINE Right(e) == IF e.what = "raw" THEN TunnelsGoRight(e) ELSE RequestsGoRight(e)
<1>1. log \in Seq(Logged) /\ \A i \in DOMAIN log : Right(log[i])
    BY DEF FrontInv, Logs, GoesWhereAsked
<1>2. \A e : Right(e)' <=> Right(e)
    BY EntriesStay
<1>3. GoesWhereAsked' <=> \A i \in DOMAIN log' : Right(log'[i])
    BY EntriesStay DEF GoesWhereAsked
<1> HIDE DEF Right
<1>4. CASE log' = log
    <2>1. Logged' = Logged
        BY <1>4 DEF Logged
    <2>2. QED
        BY <1>1, <1>3, <1>4, <2>1 DEF Logs
<1>5. CASE log' # log
    <2>1. PICK e : Right(e) /\ log' = Append(log, e)
        BY <1>5 DEF Right
    <2> DEFINE S == Logged \union {e}
               n == Len(log)
    <2>2. log \in Seq(S) /\ e \in S /\ n \in Nat /\ DOMAIN log = 1 .. n
        BY <1>1, MoreSeq, LenProperties
    <2>3. /\ log' \in Seq(S) /\ Len(log') = n + 1 /\ DOMAIN log' = 1 .. n + 1
          /\ \A i \in 1 .. n : log'[i] = log[i]
          /\ log'[n + 1] = e
        <3>1. /\ log' \in Seq(S) /\ Len(log') = n + 1
              /\ \A i \in 1 .. n : log'[i] = log[i]
              /\ log'[n + 1] = e
            <4> HIDE DEF S
            <4>1. /\ Append(log, e) \in Seq(S) /\ Len(Append(log, e)) = Len(log) + 1
                  /\ \A i \in 1 .. Len(log) : Append(log, e)[i] = log[i]
                  /\ Append(log, e)[Len(log) + 1] = e
                BY <2>2, AppendProperties
            <4>2. QED
                BY <2>1, <4>1
        <3> HIDE DEF S
        <3>2. QED
            BY <3>1, LenProperties
    <2>4. Logged' = {log'[i] : i \in 1 .. n + 1}
        BY <2>3 DEF Logged
    <2> HIDE DEF S
    <2>5. log' \in [1 .. n + 1 -> Logged']
        <3>1. log' \in [1 .. n + 1 -> S]
            BY <2>3, LenProperties
        <3>2. QED
            BY <2>4, <3>1
    <2>6. log' \in Seq(Logged')
        BY <2>2, <2>5, AsASeq
    <2>7. ASSUME NEW i \in 1 .. n + 1 PROVE Right(log'[i])
        <3>1. CASE i = n + 1
            BY <2>1, <2>3, <3>1
        <3>2. CASE i # n + 1
            <4>1. i \in 1 .. n
                BY <2>2, <3>2
            <4>2. QED
                BY <1>1, <2>2, <2>3, <4>1
        <3>3. QED
            BY <3>1, <3>2
    <2>8. QED
        BY <1>3, <2>3, <2>6, <2>7 DEF Logs
<1>6. QED
    BY <1>4, <1>5

\* Bytes nobody reads are where they were.
LEMMA BytesStay ==
    ASSUME FrontInv, conn' = conn, stream' = stream,
           up'.net = up.net, up'.pre = up.pre, up'.buf = up.buf, up'.read = up.read,
           up.state # up'.state => up'.state = "failed" \/ up.state # "failed"
    PROVE  EveryByteOnce'
<1>1. net' = net /\ pre' = pre /\ buf' = buf /\ taken' = taken
    BY DEF stream
<1>2. up'.state # "failed" => up.state # "failed"
    OBVIOUS
<1>3. EveryByteOnce
    BY DEF FrontInv
<1>4. QED
    BY <1>1, <1>2, <1>3 DEF EveryByteOnce, Unread, Bytes

\* The bytes of the client are the same when those read are those left before.
LEMMA BytesMove ==
    ASSUME FrontInv, conn' = conn, up' = up,
           Bytes(taken') \o buf' \o Unread(pre', net') = Bytes(taken) \o buf \o Unread(pre, net)
    PROVE  EveryByteOnce'
<1>1. EveryByteOnce
    BY DEF FrontInv
<1>2. EveryByteOnce' <=>
        /\ Bytes(taken') \o buf' \o Unread(pre', net') = conn'.bytes
        /\ up'.state \notin {"failed"} =>
             up'.read \o up'.buf \o Unread(up'.pre, up'.net) = conn'.up
    BY DEF EveryByteOnce, Unread, Bytes
<1>3. QED
    BY <1>1, <1>2 DEF EveryByteOnce

\* Where the type of a place is kept.
LEMMA ClosedStep ==
    ASSUME FrontInv, Close
    PROVE  FrontInv'
<1>1. /\ pc' = "closed" /\ UNCHANGED <<conn, then, net, pre, buf, taken, served, scheme, dest, up, pooled, told, log>>
    BY DEF Close, place, seen, stream
<1>2. FrontTypeOK' /\ StateIs'
    BY <1>1 DEF FrontInv, FrontTypeOK, StateIs
<1>3. EveryByteOnce'
    BY <1>1, BytesStay DEF stream
<1>4. HeldBytes' /\ UpBytes'
    BY <1>1 DEF FrontInv, HeldBytes, UpBytes, Early
<1>5. Recognised'
    BY <1>1 DEF Recognised
<1>6. Located'
    BY <1>1 DEF FrontInv, Located, Early, NoConnect, InSocks
<1>7. Logs'
    BY <1>1, LogsStay
<1>8. QED
    BY <1>2, <1>3, <1>4, <1>5, <1>6, <1>7 DEF FrontInv

\* The listener is bound or the configuration refused; no byte is read.
LEMMA StartStep ==
    ASSUME FrontInv, Start
    PROVE  FrontInv'
<1>1. /\ pc = "start" /\ pc' \in {"closed", "listen"}
      /\ UNCHANGED <<conn, then, net, pre, buf, taken, served, scheme, dest, up, pooled, told, log>>
    BY DEF Start, place, seen, stream
<1>2. FrontTypeOK' /\ StateIs'
    BY <1>1 DEF FrontInv, FrontTypeOK, StateIs
<1>3. EveryByteOnce'
    BY <1>1, BytesStay DEF stream
<1>4. HeldBytes' /\ UpBytes'
    BY <1>1 DEF FrontInv, HeldBytes, UpBytes, Early
<1>5. Recognised'
    BY <1>1 DEF FrontInv, Recognised, TunnelFrom
<1>6. Located'
    BY <1>1 DEF FrontInv, Located, Early, NoConnect, InSocks
<1>7. Logs'
    BY <1>1, LogsStay
<1>8. QED
    BY <1>2, <1>3, <1>4, <1>5, <1>6, <1>7 DEF FrontInv

\* The accept loop chooses the service; no byte is read.
LEMMA AcceptStep ==
    ASSUME FrontInv, Accept \/ AcceptCaptured
    PROVE  FrontInv'
<1>1. /\ pc = "listen" /\ pc' \in {"greet", "tls", "h3", "sniff"}
      /\ then' \in {"plain", "socks", "captured"} /\ scheme' \in {"http", "https"}
      /\ conn.mode = "socks" => pc' = "greet" /\ then' = "socks" /\ scheme' = "http"
      /\ pc' = "greet" => conn.mode = "socks"
      /\ pc' = "tls" => then' = "plain"
      /\ pc' = "h3" => conn.mode \in {"reverseh3", "wireguardh3"}
      /\ UNCHANGED <<conn, net, pre, buf, taken, served, dest, up, pooled, told, log>>
    <2>1. CASE Accept
        BY <2>1 DEF Accept, stream, seen
    <2>2. CASE AcceptCaptured
        BY <2>2 DEF AcceptCaptured, stream, place, seen, FrontInv, FrontTypeOK
    <2>3. QED
        BY <2>1, <2>2
<1>2. FrontTypeOK' /\ StateIs'
    BY <1>1 DEF FrontInv, FrontTypeOK, StateIs
<1>3. EveryByteOnce'
    BY <1>1, BytesStay DEF stream
<1>4. HeldBytes' /\ UpBytes'
    <2>1. pre = <<>> /\ buf = <<>> /\ Len(<<>>) < MaxPrefix
        BY <1>1, PrefixAssumption, EmptySeq DEF FrontInv, HeldBytes, Early
    <2>2. QED
        BY <1>1, <2>1 DEF FrontInv, HeldBytes, UpBytes, Early
<1>5. Recognised'
    <2>1. TunnelFrom(Len(taken))'
        BY <1>1 DEF FrontInv, Recognised, TunnelFrom
    <2>2. QED
        BY <1>1, <2>1 DEF FrontInv, Recognised
<1>6. Located'
    BY <1>1 DEF FrontInv, Located, Early, NoConnect, InSocks, InH3
<1>7. Logs'
    BY <1>1, LogsStay
<1>8. QED
    BY <1>2, <1>3, <1>4, <1>5, <1>6, <1>7 DEF FrontInv

\* The bytes of a connection, bracketed from the end.
LEMMA BytesAre ==
    ASSUME NEW t \in Seq(Consumed), NEW b \in Seq(STRING), NEW p \in Seq(Seq(STRING)), NEW n \in Seq(STRING)
    PROVE  Bytes(t) \o b \o Unread(p, n) = Bytes(t) \o (b \o Unread(p, n)) /\ b \o Unread(p, n) \in Seq(STRING)
<1>1. Bytes(t) \in Seq(STRING)
    <2> DEFINE e == <<>>
    <2>1. e \in Seq(STRING) /\ "h1" \in Consumers
        BY EmptySeq DEF Consumers
    <2> HIDE DEF e
    <2>2. QED
        BY <2>1, ByBytes
<1>2. Unread(p, n) \in Seq(STRING)
    BY Unreads
<1>3. Cat(Cat(Bytes(t), b), Unread(p, n)) = Cat(Bytes(t), Cat(b, Unread(p, n)))
    BY <1>1, <1>2, Assoc
<1>4. Cat(b, Unread(p, n)) \in Seq(STRING)
    BY <1>2, CatIs
<1>5. QED
    BY <1>3, <1>4 DEF Cat

\* Bytes that move between the transport, the wrappers and the buffer stay in order.
LEMMA BytesHeld ==
    ASSUME FrontInv, conn' = conn, up' = up, taken' = taken,
           net' \in Seq(STRING), pre' \in Seq(Seq(STRING)), buf' \in Seq(STRING),
           buf' \o Unread(pre', net') = buf \o Unread(pre, net)
    PROVE  EveryByteOnce'
<1>1. /\ taken \in Seq(Consumed) /\ net \in Seq(STRING) /\ pre \in Seq(Seq(STRING)) /\ buf \in Seq(STRING)
    BY DEF FrontInv, StateIs
<1>2. Bytes(taken) \o buf \o Unread(pre, net) = Bytes(taken) \o (buf \o Unread(pre, net))
    BY <1>1, BytesAre
<1>3. Bytes(taken) \o buf' \o Unread(pre', net') = Bytes(taken) \o (buf' \o Unread(pre', net'))
    BY <1>1, BytesAre
<1>4. QED
    BY <1>2, <1>3, BytesMove

\* Bytes that are consumed come from the front.
LEMMA BytesTaken ==
    ASSUME FrontInv, conn' = conn, up' = up, NEW w \in Consumers, NEW got \in Seq(STRING),
           taken' = taken \o By(w, got),
           net' \in Seq(STRING), pre' \in Seq(Seq(STRING)), buf' \in Seq(STRING),
           got \o (buf' \o Unread(pre', net')) = buf \o Unread(pre, net)
    PROVE  EveryByteOnce' /\ taken' \in Seq(Consumed) /\ Len(taken') = Len(taken) + Len(got)
<1>1. /\ taken \in Seq(Consumed) /\ net \in Seq(STRING) /\ pre \in Seq(Seq(STRING)) /\ buf \in Seq(STRING)
    BY DEF FrontInv, StateIs
<1>2. taken' \in Seq(Consumed) /\ Len(taken') = Len(taken) + Len(got)
    BY <1>1, ByBytes
<1>3. Bytes(taken) \o buf \o Unread(pre, net) = Bytes(taken) \o (buf \o Unread(pre, net))
    BY <1>1, BytesAre
<1>4. /\ Bytes(taken') \o buf' \o Unread(pre', net') = Bytes(taken') \o (buf' \o Unread(pre', net'))
      /\ buf' \o Unread(pre', net') \in Seq(STRING)
    BY <1>2, BytesAre
<1>5. Bytes(taken \o By(w, got)) \o (buf' \o Unread(pre', net'))
        = Bytes(taken) \o (got \o (buf' \o Unread(pre', net')))
    BY <1>1, <1>4, TakenFront
<1>6. Bytes(taken') \o buf' \o Unread(pre', net') = Bytes(taken) \o buf \o Unread(pre, net)
    BY <1>3, <1>4, <1>5
<1>7. QED
    BY <1>2, <1>6, BytesMove

\* As long as nothing is relayed no byte was.
LEMMA NoneRelayed ==
    ASSUME taken \in Seq(Consumed), TunnelFrom(Len(taken)), NEW w \in Consumers, w # "relay",
           NEW got \in Seq(STRING), taken' = taken \o By(w, got)
    PROVE  TunnelFrom(Len(taken))' /\ \A i \in DOMAIN taken' : i > Len(taken) => taken'[i].by = w
<1> DEFINE b == By(w, got)
           m == Len(taken)
           n == Len(got)
<1>1. /\ b \in Seq(Consumed) /\ Len(b) = n /\ \A i \in 1 .. n : b[i].by = w
      /\ taken' \in Seq(Consumed) /\ Len(taken') = m + n
    BY ByBytes
<1>2. m \in Nat /\ n \in Nat /\ DOMAIN taken = 1 .. m /\ DOMAIN taken' = 1 .. m + n
    BY <1>1, LenProperties
<1> HIDE DEF b
<1>3. \A i \in 1 .. m + n : taken'[i] = IF i <= m THEN taken[i] ELSE b[i - m]
    <2>1. \A i \in 1 .. m + Len(b) : Cat(taken, b)[i] = IF i <= m THEN taken[i] ELSE b[i - m]
        BY <1>1, CatIs
    <2>2. QED
        BY <1>1, <2>1 DEF Cat, b
<1>4. ASSUME NEW i \in 1 .. m + n PROVE taken'[i].by # "relay" /\ (i > m => taken'[i].by = w)
    <2>1. CASE i <= m
        <3>1. i \in 1 .. m /\ ~(i > m)
            BY <2>1
        <3>2. QED
            BY SMTT(30), <1>2, <1>3, <3>1 DEF TunnelFrom
    <2>2. CASE ~(i <= m)
        <3>1. i - m \in 1 .. n
            BY <1>2, <2>2
        <3>2. QED
            BY <1>1, <1>3, <2>2, <3>1
    <2>3. QED
        BY <2>1, <2>2
<1>5. QED
    BY <1>1, <1>2, <1>4 DEF TunnelFrom

-----------------------------------------------------------------------------
(* SOCKS5.                                                                 *)

\* The greeting takes the bytes of its messages and no more.
LEMMA AcceptConnectStep ==
    ASSUME FrontInv, AcceptConnect
    PROVE  FrontInv'
<1>1. /\ pc = "greet" /\ net # <<>> /\ net' = Tail(net) /\ taken' = taken \o By("socks", << Head(net) >>)
      /\ pc' \in {"greet", "dial", "closed"}
      /\ told' = told \/ told' = Append(told, "method") \/ told' = Append(told, "refused")
      /\ UNCHANGED <<conn, then, pre, buf, served, scheme, dest, up, pooled, log>>
    BY DEF AcceptConnect, place
<1>2. pre = <<>> /\ buf = <<>> /\ net \in Seq(STRING)
    BY <1>1 DEF FrontInv, HeldBytes, Early, StateIs
<1>3. Head(net) \in STRING /\ Tail(net) \in Seq(STRING) /\ << Head(net) >> \o Tail(net) = net
    BY <1>1, <1>2, HeadTailProperties
<1>4. << Head(net) >> \in Seq(STRING) /\ "socks" \in Consumers
    BY <1>3 DEF Consumers
<1>5. EveryByteOnce' /\ taken' \in Seq(Consumed)
    <2> DEFINE got == << Head(net) >>
    <2>1. Unread(pre, net) = net /\ Unread(pre', net') = Tail(net)
        BY <1>1, <1>2, <1>3, <1>4, Unreads, EmptySeq
    <2>2. got \o (buf' \o Unread(pre', net')) = buf \o Unread(pre, net)
        <3>1. buf' \o Tail(net) = Tail(net) /\ buf \o net = net
            BY <1>1, <1>2, <1>3, ConcatEmptySeq
        <3>2. QED
            BY <1>3, <2>1, <3>1
    <2>3. net' \in Seq(STRING) /\ pre' \in Seq(Seq(STRING)) /\ buf' \in Seq(STRING)
        BY <1>1, <1>2, <1>3, EmptySeq
    <2>4. got \in Seq(STRING) /\ taken' = taken \o By("socks", got)
        BY <1>1, <1>4
    <2> HIDE DEF got
    <2>5. QED
        BY <1>1, <1>4, <2>2, <2>3, <2>4, BytesTaken
<1>6. FrontTypeOK'
    BY <1>1 DEF FrontInv, FrontTypeOK
<1>7. told' \in Seq(Told) /\ (NoConnect' <=> NoConnect)
    <2>1. told \in Seq(Told) /\ "method" \in Told /\ "refused" \in Told
        BY DEF FrontInv, StateIs, Told
    <2>2. CASE told' = told
        BY <2>1, <2>2 DEF NoConnect
    <2>3. CASE told' = Append(told, "method")
        BY <2>1, <2>3, OneMore
    <2>4. CASE told' = Append(told, "refused")
        BY <2>1, <2>4, OneMore
    <2>5. QED
        BY <1>1, <2>2, <2>3, <2>4
<1>8. StateIs'
    BY <1>1, <1>3, <1>5, <1>7 DEF FrontInv, StateIs
<1>9. HeldBytes' /\ UpBytes'
    BY <1>1, <1>2 DEF FrontInv, HeldBytes, UpBytes, Early
<1>10. Recognised'
    <2>1. TunnelFrom(Len(taken)) /\ taken \in Seq(Consumed)
        BY <1>1 DEF FrontInv, Recognised, StateIs
    <2>2. TunnelFrom(Len(taken))'
        BY <1>1, <1>4, <2>1, NoneRelayed
    <2>3. QED
        BY <1>1, <2>2 DEF Recognised
<1>11. Located'
    BY <1>1, <1>7 DEF FrontInv, Located, Early, InSocks
<1>12. Logs'
    BY <1>1, LogsStay
<1>13. QED
    BY <1>5, <1>6, <1>8, <1>9, <1>10, <1>11, <1>12 DEF FrontInv

\* The steps that only tell of the upstream connection.
LEMMA UpStep ==
    ASSUME FrontInv, pc = "dial", UNCHANGED <<conn, pc, then, net, pre, buf, taken, served, scheme, dest, pooled, told, log>>,
           up' \in Ups, up'.tls = up.tls, UpBytes', up.state \in {"none", "http", "socks5"},
           up'.state # "failed" =>
             up'.read \o up'.buf \o Unread(up'.pre, up'.net) = up.read \o up.buf \o Unread(up.pre, up.net)
    PROVE  FrontInv'
<1>1. FrontTypeOK' /\ StateIs'
    BY DEF FrontInv, FrontTypeOK, StateIs
<1>2. EveryByteOnce'
    <2>1. EveryByteOnce
        BY DEF FrontInv
    <2>2. EveryByteOnce' <=>
            /\ Bytes(taken) \o buf \o Unread(pre, net) = conn.bytes
            /\ up'.state \notin {"failed"} =>
                 up'.read \o up'.buf \o Unread(up'.pre, up'.net) = conn.up
        BY DEF EveryByteOnce, Unread, Bytes
    <2>3. QED
        BY <2>1, <2>2 DEF EveryByteOnce
<1>3. HeldBytes'
    BY DEF FrontInv, HeldBytes, Early
<1>4. Recognised'
    <2>1. TunnelFrom(Len(taken))'
        BY DEF FrontInv, Recognised, TunnelFrom
    <2>2. QED
        BY <2>1 DEF Recognised
<1>5. Located'
    BY DEF FrontInv, Located, Early, NoConnect, InSocks
<1>6. Logs'
    BY LogsStay
<1>7. QED
    BY <1>1, <1>2, <1>3, <1>4, <1>5, <1>6 DEF FrontInv

\* The dial fixes the way to the target.
LEMMA DialStep ==
    ASSUME FrontInv, Dial
    PROVE  FrontInv'
<1>1. PICK state \in {IF conn.chain = "direct" THEN "open" ELSE conn.chain, "failed"} :
        up' = [up EXCEPT !.state = state]
    BY DEF Dial
<1>2. /\ pc = "dial" /\ up.state = "none"
      /\ UNCHANGED <<conn, pc, then, net, pre, buf, taken, served, scheme, dest, pooled, told, log>>
    BY DEF Dial, stream, seen
<1>3. state \in {"open", "http", "socks5", "failed"}
    BY SetupAssumption DEF FrontInv, FrontTypeOK
<1>4. up \in Ups /\ UpBytes
    BY DEF FrontInv, StateIs
<1>5. up' \in Ups /\ up'.tls = up.tls /\ UpBytes'
    BY <1>1, <1>2, <1>3, <1>4 DEF Ups, UpBytes
<1>6. up'.read = up.read /\ up'.buf = up.buf /\ up'.pre = up.pre /\ up'.net = up.net
    BY <1>1, <1>4 DEF Ups
<1>7. QED
    BY <1>2, <1>5, <1>6, UpStep

\* The bytes an upstream proxy sends behind its response head are kept for the tunnel.
LEMMA ReadProxyHeadStep ==
    ASSUME FrontInv, ReadProxyHead
    PROVE  FrontInv'
<1>1. /\ pc = "dial" /\ up.state = "http"
      /\ UNCHANGED <<conn, pc, then, net, pre, buf, taken, served, scheme, dest, pooled, told, log>>
    BY DEF ReadProxyHead, stream, seen
<1>2. up \in Ups /\ up.read = <<>> /\ up.pre = <<>> /\ up.net \in Seq(STRING) /\ up.buf \in Seq(STRING)
    BY <1>1 DEF FrontInv, StateIs, UpBytes, Ups
<1>3. CASE up' = [up EXCEPT !.state = "failed"]
    <2>1. up' \in Ups /\ up'.tls = up.tls /\ UpBytes' /\ up'.state = "failed"
        BY <1>2, <1>3 DEF Ups, UpBytes
    <2>2. QED
        BY <1>1, <2>1, UpStep
<1>4. CASE up' # [up EXCEPT !.state = "failed"]
    <2>1. PICK k \in 1 .. Len(up.net) :
            LET got == up.buf \o Take(k, up.net)
            IN IF ~Contains(got, "end")
               THEN up' = [up EXCEPT !.buf = got, !.net = Skip(k, @)]
               ELSE LET end == CHOOSE i \in DOMAIN got :
                                 got[i] = "end" /\ \A j \in 1 .. i - 1 : got[j] # "end"
                    IN up' = [up EXCEPT
                         !.read = Take(end, got), !.buf = <<>>, !.net = Skip(k, @),
                         !.pre = << Skip(end, got) >>,
                         !.state = IF validate_connect_response(got) THEN "open" ELSE "failed"]
        BY <1>4 DEF ReadProxyHead
    <2> DEFINE x == Take(k, up.net)
               y == Skip(k, up.net)
               got == up.buf \o x
               IsEnd(i) == got[i] = "end" /\ \A j \in 1 .. i - 1 : got[j] # "end"
               end == CHOOSE i \in DOMAIN got : IsEnd(i)
    <2>2. x \in Seq(STRING) /\ y \in Seq(STRING) /\ x \o y = up.net
        <3> DEFINE n == up.net
        <3>1. n \in Seq(STRING) /\ Len(n) \in Nat
            BY <1>2, LenProperties
        <3>2. k \in 0 .. Len(n)
            BY <3>1
        <3> HIDE DEF n
        <3>3. Take(k, n) \in Seq(STRING) /\ Skip(k, n) \in Seq(STRING) /\ Take(k, n) \o Skip(k, n) = n
            BY <3>1, <3>2, TakeSkip
        <3>4. QED
            BY <3>3 DEF n
    <2>3. got \in Seq(STRING)
        BY <1>2, <2>2, ConcatProperties
    <2>4. got \o y = up.buf \o up.net
        <3>1. Cat(Cat(up.buf, x), y) = Cat(up.buf, Cat(x, y))
            BY <1>2, <2>2, Assoc
        <3>2. QED
            BY <2>2, <3>1 DEF Cat
    <2>5. up.read \o up.buf \o Unread(up.pre, up.net) = up.buf \o up.net
        <3>1. Unread(<<>>, up.net) = up.net
            BY <1>2, Unreads, EmptySeq
        <3>2. <<>> \o up.buf = up.buf
            BY <1>2, ConcatEmptySeq
        <3>3. QED
            BY <1>2, <3>1, <3>2
    <2>6. CASE ~Contains(got, "end")
        <3>1. up' = [up EXCEPT !.buf = got, !.net = y]
            BY <2>1, <2>6
        <3> HIDE DEF got, x, y
        <3>2. up' \in Ups /\ up'.tls = up.tls /\ UpBytes'
            BY <1>1, <1>2, <2>2, <2>3, <3>1 DEF Ups, UpBytes
        <3>3. up'.read = <<>> /\ up'.buf = got /\ up'.pre = <<>> /\ up'.net = y
            BY <1>2, <3>1 DEF Ups
        <3>4. up'.read \o up'.buf \o Unread(up'.pre, up'.net) = got \o y
            <4>1. Unread(<<>>, y) = y /\ <<>> \o got = got
                BY <2>2, <2>3, Unreads, EmptySeq, ConcatEmptySeq
            <4>2. QED
                BY <3>3, <4>1
        <3>5. QED
            BY <1>1, <2>4, <2>5, <3>2, <3>4, UpStep
    <2>7. CASE Contains(got, "end")
        <3> DEFINE state == IF validate_connect_response(got) THEN "open" ELSE "failed"
                   a == Take(end, got)
                   b == Skip(end, got)
        <3>1. up' = [up EXCEPT !.read = a, !.buf = <<>>, !.net = y, !.pre = << b >>, !.state = state]
            BY <2>1, <2>7
        <3>2. end \in 0 .. Len(got)
            <4> HIDE DEF got
            <4> DEFINE E == {i \in 1 .. Len(got) : got[i] = "end"}
            <4>1. Len(got) \in Nat /\ DOMAIN got = 1 .. Len(got)
                BY <2>3, LenProperties
            <4>2. E # {} /\ E \subseteq Nat
                BY <2>7 DEF Contains
            <4>3. PICK i \in E : \A j \in E : i <= j
                BY <4>2, LeastNatural
            <4>4. i \in DOMAIN got /\ IsEnd(i)
                <5>1. ASSUME NEW j \in 1 .. i - 1, got[j] = "end" PROVE FALSE
                    <6>1. j \in E /\ ~(i <= j)
                        BY <4>1, <5>1
                    <6>2. QED
                        BY <4>3, <6>1
                <5>2. QED
                    BY <4>1, <5>1
            <4>5. end \in DOMAIN got
                BY <4>4
            <4>6. QED
                BY <4>1, <4>5
        <3> HIDE DEF end, got, x, y
        <3>3. a \in Seq(STRING) /\ b \in Seq(STRING) /\ a \o b = got
            BY <2>3, <3>2, TakeSkip
        <3> HIDE DEF a, b
        <3>4. state \in {"open", "failed"}
            OBVIOUS
        <3> HIDE DEF state
        <3>5. << b >> \in Seq(Seq(STRING)) /\ <<>> \in Seq(STRING)
            BY <3>3, EmptySeq
        <3>6. up' \in Ups /\ up'.tls = up.tls /\ UpBytes'
            BY <1>1, <1>2, <2>2, <3>1, <3>3, <3>4, <3>5 DEF Ups, UpBytes
        <3>7. up'.read = a /\ up'.buf = <<>> /\ up'.pre = << b >> /\ up'.net = y
            BY <1>2, <3>1 DEF Ups
        <3>8. Unread(<< b >>, y) = b \o y
            <4> DEFINE e == <<>>
            <4>1. e \in Seq(Seq(STRING)) /\ << b >> \o e = << b >> /\ Rewind(e, b) = << b >> \o e
                BY <3>5, EmptySeq, ConcatEmptySeq DEF Rewind
            <4>2. Unread(e, y) = y
                BY <2>2, Unreads, EmptySeq
            <4> HIDE DEF e
            <4>3. Unread(Rewind(e, b), y) = b \o Unread(e, y)
                <5>1. \A p \in Seq(Seq(STRING)), s, t \in Seq(STRING) : Unread(Rewind(p, s), t) = s \o Unread(p, t)
                    BY Unreads
                <5>2. QED
                    BY <2>2, <3>3, <4>1, <5>1
            <4>4. QED
                BY <4>1, <4>2, <4>3
        <3>9. a \o (b \o y) = got \o y
            <4>1. Cat(Cat(a, b), y) = Cat(a, Cat(b, y))
                BY <2>2, <3>3, Assoc
            <4>2. QED
                BY <3>3, <4>1 DEF Cat
        <3>10. a \o <<>> = a
            BY <3>3, ConcatEmptySeq
        <3>11. up'.read \o up'.buf \o Unread(up'.pre, up'.net) = got \o y
            BY <3>7, <3>8, <3>9, <3>10
        <3>12. QED
            BY <1>1, <2>4, <2>5, <3>6, <3>11, UpStep
    <2>8. QED
        BY <2>6, <2>7
<1>5. QED
    BY <1>3, <1>4

\* The SOCKS5 exchange with the upstream proxy takes one reply after the other.
LEMMA ReadProxyReplyStep ==
    ASSUME FrontInv, ReadProxyReply
    PROVE  FrontInv'
<1>1. /\ pc = "dial" /\ up.state = "socks5"
      /\ UNCHANGED <<conn, pc, then, net, pre, buf, taken, served, scheme, dest, pooled, told, log>>
    BY DEF ReadProxyReply, stream, seen
<1>2. /\ up \in Ups /\ up.buf = <<>> /\ up.pre = <<>> /\ up.net \in Seq(STRING) /\ up.read \in Seq(STRING)
      /\ up.step \in Nat
    BY <1>1 DEF FrontInv, StateIs, UpBytes, Ups
<1>3. CASE up' = [up EXCEPT !.state = "failed"]
    <2>1. up' \in Ups /\ up'.tls = up.tls /\ UpBytes' /\ up'.state = "failed"
        BY <1>2, <1>3 DEF Ups, UpBytes
    <2>2. QED
        BY <1>1, <2>1, UpStep
<1>4. CASE up' # [up EXCEPT !.state = "failed"]
    <2> DEFINE x == Head(up.net)
               y == Tail(up.net)
               answer == Append(up.read, x)
               step == IF x = "none" THEN 3 ELSE up.step + 1
               state == IF up.step = 3 THEN "open" ELSE up.state
    <2>1. /\ up.net # <<>>
          /\ up' = [up EXCEPT !.net = y, !.read = answer, !.step = step, !.state = state]
        BY <1>4 DEF ReadProxyReply
    <2>2. x \in STRING /\ y \in Seq(STRING) /\ << x >> \o y = up.net
        <3> DEFINE n == up.net
        <3>1. n \in Seq(STRING) /\ n # <<>>
            BY <1>2, <2>1
        <3> HIDE DEF n
        <3>2. Head(n) \in STRING /\ Tail(n) \in Seq(STRING) /\ << Head(n) >> \o Tail(n) = n
            BY <3>1, HeadTailProperties
        <3>3. QED
            BY <3>2 DEF n
    <2>3. step \in Nat /\ state \in {"open", "socks5"}
        BY <1>1, <1>2
    <2> HIDE DEF x, y, step, state
    <2>4. answer \in Seq(STRING) /\ answer = up.read \o << x >> /\ << x >> \in Seq(STRING)
        BY SMTT(30), <1>2, <2>2, AppendProperties, AppendIsConcat
    <2> HIDE DEF answer
    <2>5. up' \in Ups /\ up'.tls = up.tls /\ UpBytes'
        BY <1>1, <1>2, <2>1, <2>2, <2>3, <2>4 DEF Ups, UpBytes
    <2>6. up'.read = answer /\ up'.buf = <<>> /\ up'.pre = <<>> /\ up'.net = y
        BY <1>2, <2>1 DEF Ups
    <2>7. answer \o y = up.read \o up.net
        <3> DEFINE z == << x >>
        <3>1. z \in Seq(STRING)
            BY <2>4
        <3> HIDE DEF z
        <3>2. Cat(Cat(up.read, z), y) = Cat(up.read, Cat(z, y))
            BY <1>2, <2>2, <3>1, Assoc
        <3>3. QED
            BY <2>2, <2>4, <3>2 DEF Cat, z
    <2>8. Unread(<<>>, y) = y /\ Unread(<<>>, up.net) = up.net /\ answer \o <<>> = answer /\ up.read \o <<>> = up.read
        <3>1. up.net \in Seq(STRING) /\ up.read \in Seq(STRING)
            BY <1>2
        <3>2. Unread(<<>>, y) = y /\ Unread(<<>>, up.net) = up.net
            <4>1. ASSUME NEW t \in Seq(STRING) PROVE Unread(<<>>, t) = t
                <5>1. <<>> \in Seq(Seq(STRING))
                    BY EmptySeq
                <5>2. QED
                    BY <4>1, <5>1, Unreads
            <4>2. QED
                BY <2>2, <3>1, <4>1
        <3>3. answer \o <<>> = answer /\ up.read \o <<>> = up.read
            BY <2>4, <3>1, ConcatEmptySeq
        <3>4. QED
            BY <3>2, <3>3
    <2>9. up'.read \o up'.buf \o Unread(up'.pre, up'.net) = up.read \o up.buf \o Unread(up.pre, up.net)
        BY <1>2, <2>6, <2>7, <2>8
    <2>10. QED
        BY <1>1, <2>5, <2>9, UpStep
<1>5. QED
    BY <1>3, <1>4

\* The reply to the client's request opens the sniff or ends the connection.
LEMMA ReplyStep ==
    ASSUME FrontInv, ReplyConnected \/ ReplyFailed
    PROVE  FrontInv'
<1>1. /\ pc = "dial" /\ pc' \in {"sniff", "closed"}
      /\ \E what \in {"connected", "unreachable"} : told' = Append(told, what)
      /\ UNCHANGED <<conn, then, net, pre, buf, taken, served, scheme, dest, up, pooled, log>>
    BY DEF ReplyConnected, ReplyFailed, stream, place
<1>2. told' \in Seq(Told) /\ (NoConnect' <=> NoConnect)
    <2>1. told \in Seq(Told) /\ "connected" \in Told /\ "unreachable" \in Told
        BY DEF FrontInv, StateIs, Told
    <2>2. QED
        BY <1>1, <2>1, OneMore
<1>3. FrontTypeOK' /\ StateIs'
    BY <1>1, <1>2 DEF FrontInv, FrontTypeOK, StateIs
<1>4. EveryByteOnce'
    BY <1>1, BytesStay DEF stream
<1>5. HeldBytes' /\ UpBytes'
    <2>1. pre = <<>> /\ buf = <<>> /\ Len(<<>>) < MaxPrefix
        BY <1>1, PrefixAssumption, EmptySeq DEF FrontInv, HeldBytes, Early
    <2>2. QED
        BY <1>1, <2>1 DEF FrontInv, HeldBytes, UpBytes, Early
<1>6. Recognised'
    <2>1. TunnelFrom(Len(taken))'
        BY <1>1 DEF FrontInv, Recognised, TunnelFrom
    <2>2. QED
        BY <1>1, <2>1 DEF Recognised
<1>7. Located'
    BY <1>1, <1>2 DEF FrontInv, Located, Early, InSocks
<1>8. Logs'
    BY <1>1, LogsStay
<1>9. QED
    BY <1>3, <1>4, <1>5, <1>6, <1>7, <1>8 DEF FrontInv

-----------------------------------------------------------------------------
(* The sniff and TLS.                                                      *)

\* What is detected is put back whole and handed to the service its bytes ask for.
LEMMA DetectedStep ==
    ASSUME FrontInv, pc = "sniff", UNCHANGED <<conn, taken, served, scheme, dest, up, told, log>>,
           NEW b \in Seq(STRING), NEW p \in Seq(Seq(STRING)), net' \in Seq(STRING),
           b \o Unread(p, net') = buf \o Unread(pre, net),
           Classify(b) = "unknown" => ~Known(b \o Unread(p, net')),
           Detected(Classify(b), b, p)
    PROVE  FrontInv'
<1> DEFINE protocol == Classify(b)
           rest == Unread(p, net')
           all == b \o rest
<1>1. /\ pc' = NextService(protocol, b) /\ then' = (IF pc' = "sniff" THEN "pinned" ELSE then)
      /\ pooled' = (IF pc' = "h2" THEN SharesPool ELSE pooled)
      /\ pre' = Rewind(p, b) /\ buf' = <<>>
    BY DEF Detected
<1>2. then \in {"plain", "connect", "h2connect", "captured", "socks", "pinned"} /\ pooled \in BOOLEAN
    BY DEF FrontInv, FrontTypeOK
<1>3. /\ protocol \in {"tls", "http", "unknown"}
      /\ protocol = "tls" => is_tls_handshake(b)
      /\ protocol = "http" => is_h2_preface(b) \/ is_http1_request(b)
    BY DEF Classify
<1>4. Web(b) \in {"h1", "h2"}
    BY DEF Web
<1> HIDE DEF protocol
<1>5. /\ pc' \in {"h1", "h2", "sniff", "uptls", "tls", "raw", "closed"}
      /\ pc' = "raw" => protocol = "unknown"
      /\ pc' \in {"uptls", "tls"} => protocol = "tls"
      /\ pc' = "tls" => then \in {"connect", "h2connect", "captured"}
      /\ pc' \in {"h1", "h2"} /\ then \in {"connect", "captured"} => protocol = "http"
      /\ pc' = "sniff" => then = "socks"
    BY <1>1, <1>2, <1>3, <1>4 DEF NextService, AfterSocks, InsideH2, Inspected
<1>6. /\ rest \in Seq(STRING) /\ pre' \in Seq(Seq(STRING)) /\ Unread(pre', net') = all
    <2> DEFINE n == net'
    <2>1. n \in Seq(STRING)
        OBVIOUS
    <2> HIDE DEF n
    <2>2. /\ Unread(p, n) \in Seq(STRING) /\ Rewind(p, b) \in Seq(Seq(STRING))
          /\ Unread(Rewind(p, b), n) = b \o Unread(p, n)
        BY <2>1, Unreads
    <2>3. QED
        BY <1>1, <2>2 DEF n
<1>7. all \in Seq(STRING)
    BY <1>6, BytesAre DEF FrontInv, StateIs
<1> HIDE DEF rest
<1>8. /\ is_tls_handshake(b) => is_tls_handshake(all)
      /\ is_h2_preface(b) => is_h2_preface(all)
      /\ is_http1_request(b) => is_http1_request(all)
    BY <1>6, TlsStays, RequestStays
<1>9. protocol = "unknown" => ~Known(all)
    BY DEF protocol, rest
<1>10. all = buf \o Unread(pre, net)
    BY DEF rest
<1> HIDE DEF all
<1>11. FrontTypeOK'
    <2>1. pooled' \in BOOLEAN
        BY <1>1, <1>2 DEF SharesPool
    <2>2. QED
        BY <1>1, <1>2, <1>5, <2>1 DEF FrontInv, FrontTypeOK
<1>12. StateIs'
    BY <1>1, <1>6, EmptySeq DEF FrontInv, StateIs
<1>13. EveryByteOnce'
    <2>1. buf' \in Seq(STRING) /\ buf' \o all = all
        BY <1>1, <1>7, EmptySeq, ConcatEmptySeq
    <2>2. buf' \o Unread(pre', net') = buf \o Unread(pre, net)
        BY <1>6, <1>10, <2>1
    <2>3. QED
        BY <1>6, <2>1, <2>2, BytesHeld
<1>14. HeldBytes' /\ UpBytes'
    <2>1. Len(<<>>) < MaxPrefix
        BY PrefixAssumption, EmptySeq
    <2>2. QED
        BY <1>1, <1>5, <2>1 DEF FrontInv, HeldBytes, UpBytes, Early
<1>15. Recognised'
    <2>1. TunnelFrom(Len(taken))'
        BY DEF FrontInv, Recognised, TunnelFrom
    <2>2. pc' = "raw" => ~Known(Unread(pre', net'))
        BY <1>5, <1>6, <1>9
    <2>3. pc' \in {"uptls", "tls"} => is_tls_handshake(Unread(pre', net'))
        BY <1>3, <1>5, <1>6, <1>8
    <2>4. pc' \in {"h1", "h2"} /\ then \in {"connect", "captured"} =>
            is_h2_preface(buf' \o Unread(pre', net')) \/ is_http1_request(buf' \o Unread(pre', net'))
        <3>1. buf' \o Unread(pre', net') = all
            BY <1>1, <1>6, <1>7, ConcatEmptySeq
        <3>2. QED
            BY <1>3, <1>5, <1>8, <3>1
    <2>5. /\ (Known(Unread(pre, net)))' <=> Known(Unread(pre', net'))
          /\ (is_tls_handshake(Unread(pre, net)))' <=> is_tls_handshake(Unread(pre', net'))
          /\ (is_h2_preface(buf \o Unread(pre, net)))' <=> is_h2_preface(buf' \o Unread(pre', net'))
          /\ (is_http1_request(buf \o Unread(pre, net)))' <=> is_http1_request(buf' \o Unread(pre', net'))
        OBVIOUS
    <2>6. QED
        BY <1>1, <1>5, <2>1, <2>2, <2>3, <2>4, <2>5 DEF Recognised
<1>16. Located'
    <2>1. InSocks /\ NoConnect => then \in {"socks", "pinned"}
        BY DEF FrontInv, Located
    <2>2. (NoConnect' <=> NoConnect) /\ (InSocks' <=> InSocks)
        BY DEF NoConnect, InSocks
    <2>3. InSocks /\ NoConnect => then' \in {"socks", "pinned"} /\ pc' # "tls"
        BY <1>1, <1>5, <2>1
    <2>4. QED
        BY <1>5, <2>2, <2>3 DEF FrontInv, Located, Early
<1>17. Logs'
    BY LogsStay
<1>18. QED
    BY <1>11, <1>12, <1>13, <1>14, <1>15, <1>16, <1>17 DEF FrontInv

\* A read of the sniff keeps every byte, and decides only what more bytes do not change.
LEMMA SniffStep ==
    ASSUME FrontInv, Sniff
    PROVE  FrontInv'
<1>1. PICK r \in Reads(pre, net, MaxPrefix - Len(buf)) :
        /\ net' = r.t
        /\ IF Classify(buf \o r.got) = "unknown" /\ Len(buf \o r.got) < MaxPrefix
              /\ could_be_known_protocol(buf \o r.got)
           THEN buf' = buf \o r.got /\ pre' = r.p /\ UNCHANGED <<pc, then, pooled>>
           ELSE Detected(Classify(buf \o r.got), buf \o r.got, r.p)
    BY DEF Sniff
<1>2. pc = "sniff" /\ UNCHANGED <<conn, taken, served, scheme, dest, up, told, log>>
    BY DEF Sniff, seen
<1>3. /\ net \in Seq(STRING) /\ pre \in Seq(Seq(STRING)) /\ buf \in Seq(STRING) /\ Len(buf) \in Nat
      /\ MaxPrefix - Len(buf) \in Nat
    <2>1. /\ net \in Seq(STRING) /\ pre \in Seq(Seq(STRING)) /\ buf \in Seq(STRING) /\ Len(buf) < MaxPrefix
        BY <1>2 DEF FrontInv, StateIs, HeldBytes
    <2>2. Len(buf) \in Nat /\ MaxPrefix \in Nat
        BY <2>1, PrefixAssumption, LenProperties
    <2>3. QED
        BY <2>1, <2>2
<1> DEFINE room == MaxPrefix - Len(buf)
           got == r.got
           b == buf \o got
           rest == Unread(r.p, r.t)
<1>4. /\ got \in Seq(STRING) /\ r.p \in Seq(Seq(STRING)) /\ r.t \in Seq(STRING)
      /\ got \o rest = Unread(pre, net)
    <2> HIDE DEF room
    <2>1. room \in Nat /\ r \in Reads(pre, net, room)
        BY <1>3 DEF room
    <2>2. /\ r.got \in Seq(STRING) /\ r.p \in Seq(Seq(STRING)) /\ r.t \in Seq(STRING)
          /\ r.got \o Unread(r.p, r.t) = Unread(pre, net)
        <3>1. IsRead(r, STRING, pre, net, room)
            BY <1>3, <2>1, ReadsKeep
        <3>2. QED
            BY <3>1 DEF IsRead
    <2>3. QED
        BY <2>2
<1>5. rest \in Seq(STRING) /\ b \in Seq(STRING) /\ Len(b) \in Nat
    <2>1. rest \in Seq(STRING)
        BY <1>4, Unreads
    <2>2. b \in Seq(STRING)
        BY <1>3, <1>4, ConcatProperties
    <2> HIDE DEF b
    <2>3. QED
        BY <2>1, <2>2, LenProperties
<1>6. b \o rest = buf \o Unread(pre, net)
    <2> HIDE DEF got, rest
    <2>1. Cat(Cat(buf, got), rest) = Cat(buf, Cat(got, rest))
        BY <1>3, <1>4, <1>5, Assoc
    <2>2. QED
        BY <1>4, <2>1 DEF Cat
<1>7. CASE Classify(b) = "unknown" /\ Len(b) < MaxPrefix /\ could_be_known_protocol(b)
    <2>1. buf' = b /\ pre' = r.p /\ net' = r.t /\ UNCHANGED <<pc, then, pooled>>
        BY <1>1, <1>7
    <2>2. FrontTypeOK'
        BY <1>2, <2>1 DEF FrontInv, FrontTypeOK
    <2>3. StateIs'
        BY <1>2, <1>4, <1>5, <2>1 DEF FrontInv, StateIs
    <2>4. EveryByteOnce'
        <3>1. buf' \o Unread(pre', net') = buf \o Unread(pre, net)
            BY <1>6, <2>1
        <3>2. net' \in Seq(STRING) /\ pre' \in Seq(Seq(STRING)) /\ buf' \in Seq(STRING)
            BY <1>4, <1>5, <2>1
        <3>3. QED
            BY <1>2, <3>1, <3>2, BytesHeld
    <2>5. HeldBytes' /\ UpBytes'
        BY <1>2, <1>7, <2>1 DEF FrontInv, HeldBytes, UpBytes, Early
    <2>6. Recognised'
        <3>1. TunnelFrom(Len(taken))'
            BY <1>2 DEF FrontInv, Recognised, TunnelFrom
        <3>2. QED
            BY <1>2, <2>1, <3>1 DEF Recognised
    <2>7. Located'
        BY <1>2, <2>1 DEF FrontInv, Located, Early, NoConnect, InSocks
    <2>8. Logs'
        BY <1>2, LogsStay
    <2>9. QED
        BY <2>2, <2>3, <2>4, <2>5, <2>6, <2>7, <2>8 DEF FrontInv
<1>8. CASE ~(Classify(b) = "unknown" /\ Len(b) < MaxPrefix /\ could_be_known_protocol(b))
    <2>1. Detected(Classify(b), b, r.p) /\ net' = r.t
        BY <1>1, <1>8
    <2>2. Classify(b) = "unknown" => ~Known(b \o rest)
        <3>1. SUFFICES ASSUME Classify(b) = "unknown" PROVE ~Known(b \o rest)
            OBVIOUS
        <3>2. ~Known(b)
            BY <3>1 DEF Classify, Known
        <3>3. Len(b) >= MaxPrefix \/ ~could_be_known_protocol(b)
            <4> HIDE DEF b
            <4>1. QED
                BY <1>5, <1>8, <3>1, PrefixAssumption
        <3> HIDE DEF b, rest
        <3>4. QED
            BY <1>5, <3>2, <3>3, UnknownStays
    <2>3. net' \in Seq(STRING) /\ b \o Unread(r.p, net') = buf \o Unread(pre, net)
        BY <1>4, <1>6, <2>1
    <2>4. Classify(b) = "unknown" => ~Known(b \o Unread(r.p, net'))
        BY <2>1, <2>2
    <2> DEFINE q == r.p
    <2>5. q \in Seq(Seq(STRING)) /\ b \o Unread(q, net') = buf \o Unread(pre, net) /\ Detected(Classify(b), b, q)
          /\ (Classify(b) = "unknown" => ~Known(b \o Unread(q, net')))
        BY <1>4, <2>1, <2>3, <2>4
    <2> HIDE DEF b, q
    <2>6. QED
        BY <1>2, <1>5, <2>3, <2>5, DetectedStep
<1>9. QED
    BY <1>7, <1>8

\* At the end of the stream the sniff decides on what there is.
LEMMA SniffEofStep ==
    ASSUME FrontInv, SniffEof
    PROVE  FrontInv'
<1>1. /\ pc = "sniff" /\ Unread(pre, net) = <<>> /\ Detected(Classify(buf), buf, pre) /\ net' = net
      /\ UNCHANGED <<conn, taken, served, scheme, dest, up, told, log>>
    BY DEF SniffEof, AtEof, seen
<1>2. buf \in Seq(STRING) /\ pre \in Seq(Seq(STRING)) /\ net' \in Seq(STRING)
    BY <1>1 DEF FrontInv, StateIs
<1>3. buf \o Unread(pre, net') = buf
    BY <1>1, <1>2, ConcatEmptySeq
<1>4. Classify(buf) = "unknown" => ~Known(buf)
    BY DEF Classify, Known
<1>5. QED
    BY <1>1, <1>2, <1>3, <1>4, DetectedStep

\* The connection to the target of SOCKS5 is TLS before the client's is.
LEMMA UpstreamTlsStep ==
    ASSUME FrontInv, UpstreamTls
    PROVE  FrontInv'
<1>1. CASE Close
    BY <1>1, ClosedStep
<1>2. CASE ~Close
    <2>1. /\ pc = "uptls" /\ pc' = "tls" /\ up' = [up EXCEPT !.tls = TRUE]
          /\ UNCHANGED <<conn, then, net, pre, buf, taken, served, scheme, dest, pooled, told, log>>
        BY <1>2 DEF UpstreamTls, stream, seen
    <2>2. up \in Ups
        BY DEF FrontInv, StateIs
    <2>3. /\ up' \in Ups /\ up'.net = up.net /\ up'.pre = up.pre /\ up'.buf = up.buf /\ up'.read = up.read
          /\ up'.state = up.state /\ up'.tls
        BY <2>1, <2>2 DEF Ups
    <2>4. FrontTypeOK' /\ StateIs'
        BY <2>1, <2>3 DEF FrontInv, FrontTypeOK, StateIs
    <2>5. EveryByteOnce'
        BY <2>1, <2>3, BytesStay DEF stream
    <2>6. HeldBytes' /\ UpBytes'
        BY <2>1, <2>3 DEF FrontInv, HeldBytes, UpBytes, Early
    <2>7. Recognised'
        <3>1. TunnelFrom(Len(taken))'
            BY <2>1 DEF FrontInv, Recognised, TunnelFrom
        <3>2. is_tls_handshake(Unread(pre, net))
            BY <2>1 DEF FrontInv, Recognised
        <3>3. (is_tls_handshake(Unread(pre, net)))'
            BY <2>1, <3>2
        <3>4. QED
            BY <2>1, <3>1, <3>3 DEF Recognised
    <2>8. Located'
        BY <2>1, <2>3 DEF FrontInv, Located, Early, NoConnect, InSocks
    <2>9. Logs'
        BY <2>1, LogsStay
    <2>10. QED
        BY <2>4, <2>5, <2>6, <2>7, <2>8, <2>9 DEF FrontInv
<1>3. QED
    BY <1>1, <1>2

\* The TLS acceptor takes the handshake, the rest is the decrypted stream.
LEMMA AcceptTlsStep ==
    ASSUME FrontInv, AcceptTls
    PROVE  FrontInv'
<1> DEFINE all == Unread(pre, net)
           h == Take(3, all)
           rest == Skip(3, all)
           h2 == h[3] = "alpn2"
<1>1. CASE Close
    BY <1>1, ClosedStep
<1>2. CASE ~Close
    <2>1. /\ pc = "tls" /\ Len(all) >= 3 /\ net' = rest /\ pre' = <<>> /\ taken' = taken \o By("tls", h)
          /\ scheme' = "https"
          /\ CASE then = "socks" -> pc' = "sniff" /\ then' = "pinned" /\ UNCHANGED pooled
               [] then = "h2connect" /\ h2 /\ ~pooled -> pc' = "closed" /\ UNCHANGED <<then, pooled>>
               [] OTHER -> /\ pc' = IF h2 THEN "h2" ELSE "h1"
                           /\ pooled' = (h2 /\ then = "h2connect")
                           /\ UNCHANGED then
          /\ UNCHANGED <<conn, buf, served, dest, up, told, log>>
        BY <1>2 DEF AcceptTls, seen
    <2>2. /\ net \in Seq(STRING) /\ pre \in Seq(Seq(STRING)) /\ taken \in Seq(Consumed) /\ buf = <<>>
        BY <2>1 DEF FrontInv, StateIs, HeldBytes
    <2>3. all \in Seq(STRING) /\ Len(all) \in Nat
        <3>1. all \in Seq(STRING)
            BY <2>2, Unreads
        <3> HIDE DEF all
        <3>2. QED
            BY <3>1, LenProperties
    <2>4. h \in Seq(STRING) /\ Len(h) = 3 /\ rest \in Seq(STRING) /\ h \o rest = all
        <3> HIDE DEF all
        <3>1. 3 \in 0 .. Len(all)
            BY <2>1, <2>3
        <3>2. QED
            BY <2>3, <3>1, TakeSkip
    <2>5. "tls" \in Consumers
        BY DEF Consumers
    <2>6. EveryByteOnce' /\ taken' \in Seq(Consumed)
        <3>1. net' \in Seq(STRING) /\ pre' \in Seq(Seq(STRING)) /\ buf' \in Seq(STRING)
            BY <2>1, <2>2, <2>4, EmptySeq
        <3>2. Unread(pre', net') = rest
            BY <2>1, <2>4, Unreads, EmptySeq
        <3>3. h \o (buf' \o Unread(pre', net')) = buf \o Unread(pre, net)
            <4>1. buf' \o rest = rest /\ buf \o all = all
                BY <2>1, <2>2, <2>3, <2>4, ConcatEmptySeq
            <4>2. QED
                BY <2>4, <3>2, <4>1
        <3> HIDE DEF h
        <3>4. QED
            BY <2>1, <2>4, <2>5, <3>1, <3>3, BytesTaken
    <2>7. /\ pc' \in {"sniff", "closed", "h1", "h2"} /\ then' = (IF pc' = "sniff" THEN "pinned" ELSE then)
          /\ pooled' \in BOOLEAN
        <3>1. then \in {"plain", "connect", "h2connect", "captured", "socks", "pinned"} /\ pooled \in BOOLEAN
            BY DEF FrontInv, FrontTypeOK
        <3> DEFINE b == h2
        <3>2. b \in BOOLEAN
            OBVIOUS
        <3> HIDE DEF b, h
        <3>3. CASE then = "socks"
            BY <2>1, <3>1, <3>3
        <3>4. CASE then = "h2connect" /\ h2 /\ ~pooled
            BY <2>1, <3>1, <3>4
        <3>5. CASE ~(then = "socks") /\ ~(then = "h2connect" /\ h2 /\ ~pooled)
            BY <2>1, <3>1, <3>5
        <3>6. QED
            BY <3>3, <3>4, <3>5
    <2> HIDE DEF h, rest, all
    <2>8. FrontTypeOK'
        BY <2>1, <2>7 DEF FrontInv, FrontTypeOK
    <2>9. StateIs'
        BY <2>1, <2>4, <2>6, EmptySeq DEF FrontInv, StateIs
    <2>10. HeldBytes' /\ UpBytes'
        <3>1. Len(<<>>) < MaxPrefix
            BY PrefixAssumption, EmptySeq
        <3>2. QED
            BY <2>1, <2>2, <2>7, <3>1 DEF FrontInv, HeldBytes, UpBytes, Early
    <2>11. Recognised'
        <3>1. TunnelFrom(Len(taken))
            BY <2>1 DEF FrontInv, Recognised
        <3>2. TunnelFrom(Len(taken))'
            BY <2>1, <2>2, <2>4, <2>5, <3>1, NoneRelayed
        <3>3. QED
            BY <2>1, <2>7, <3>2 DEF Recognised
    <2>12. Located'
        BY <2>1, <2>7 DEF FrontInv, Located, Early, NoConnect, InSocks
    <2>13. Logs'
        BY <2>1, LogsStay
    <2>14. QED
        BY <2>6, <2>8, <2>9, <2>10, <2>11, <2>12, <2>13 DEF FrontInv
<1>3. QED
    BY <1>1, <1>2

-----------------------------------------------------------------------------
(* The requests and the tunnels.                                           *)

\* The HTTP server's buffer takes what it reads.
LEMMA ReadMoreStep ==
    ASSUME FrontInv, ReadMore
    PROVE  FrontInv'
<1>1. PICK r \in Reads(pre, net, Len(conn.bytes)) : net' = r.t /\ pre' = r.p /\ buf' = buf \o r.got
    BY DEF ReadMore
<1>2. pc \in {"h1", "h2"} /\ UNCHANGED <<conn, pc, then, taken, served, scheme, dest, up, pooled, told, log>>
    BY DEF ReadMore, place, seen
<1>3. /\ net \in Seq(STRING) /\ pre \in Seq(Seq(STRING)) /\ buf \in Seq(STRING) /\ Len(conn.bytes) \in Nat
    BY SetupAssumption, LenProperties DEF FrontInv, StateIs, FrontTypeOK
<1>4. IsRead(r, STRING, pre, net, Len(conn.bytes))
    BY <1>3, ReadsKeep
<1>5. /\ r.got \in Seq(STRING) /\ r.p \in Seq(Seq(STRING)) /\ r.t \in Seq(STRING)
      /\ r.got \o Unread(r.p, r.t) = Unread(pre, net)
    BY <1>4 DEF IsRead
<1> DEFINE got == r.got
           rest == Unread(r.p, r.t)
<1>6. rest \in Seq(STRING)
    BY <1>5, Unreads
<1>7. (buf \o got) \o rest = buf \o Unread(pre, net) /\ buf \o got \in Seq(STRING)
    <2> HIDE DEF got, rest
    <2>1. Cat(Cat(buf, got), rest) = Cat(buf, Cat(got, rest)) /\ Cat(buf, got) \in Seq(STRING)
        BY <1>3, <1>5, <1>6, Assoc DEF got
    <2>2. got \o rest = Unread(pre, net)
        BY <1>5 DEF got, rest
    <2>3. QED
        BY <2>1, <2>2 DEF Cat
<1>8. /\ buf' \o Unread(pre', net') = buf \o Unread(pre, net)
      /\ net' \in Seq(STRING) /\ pre' \in Seq(Seq(STRING)) /\ buf' \in Seq(STRING)
    BY <1>1, <1>5, <1>7
<1>9. FrontTypeOK' /\ StateIs'
    BY <1>2, <1>8 DEF FrontInv, FrontTypeOK, StateIs
<1>10. EveryByteOnce'
    BY <1>2, <1>8, BytesHeld
<1>11. HeldBytes' /\ UpBytes'
    BY <1>2 DEF FrontInv, HeldBytes, UpBytes, Early
<1>12. Recognised'
    <2>1. TunnelFrom(Len(taken))'
        BY <1>2 DEF FrontInv, Recognised, TunnelFrom
    <2>2. (buf \o Unread(pre, net))' = buf \o Unread(pre, net)
        BY <1>8
    <2>3. /\ then \in {"connect", "captured"} /\ scheme = "http" /\ (taken = <<>> \/ Last(taken).by # pc) =>
             (is_h2_preface(buf \o Unread(pre, net)))' \/ (is_http1_request(buf \o Unread(pre, net)))'
        BY <1>2, <2>2 DEF FrontInv, Recognised
    <2>4. QED
        BY <1>2, <2>1, <2>3 DEF Recognised
<1>13. Located'
    BY <1>2 DEF FrontInv, Located, Early, NoConnect, InSocks, InH3
<1>14. Logs'
    BY <1>2, LogsStay
<1>15. QED
    BY <1>9, <1>10, <1>11, <1>12, <1>13, <1>14 DEF FrontInv

\* What an answer leaves.
LEMMA AnsweredKeeps ==
    ASSUME FrontInv, IsAnswered, conn' = conn
    PROVE  /\ told' \in Seq(Told) /\ (NoConnect' <=> NoConnect) /\ Logs'
           /\ then' = then /\ pre' = pre /\ scheme' = scheme /\ dest' = dest /\ pc' \in {pc, "websocket"}
<1>1. PICK what \in Told \ {"200"} : told' = Append(told, what)
    BY DEF IsAnswered
<1>2. told \in Seq(Told)
    BY DEF FrontInv, StateIs
<1>3. told' \in Seq(Told) /\ (NoConnect' <=> NoConnect)
    BY <1>1, <1>2, OneMore
<1>4. CASE log' = log
    BY <1>3, <1>4, LogsStay DEF IsAnswered
<1>5. CASE log' # log
    <2>1. PICK e : e.what = "request" /\ RequestsGoRight(e) /\ log' = Append(log, e)
        BY <1>5 DEF IsAnswered
    <2>2. IF e.what = "raw" THEN TunnelsGoRight(e) ELSE RequestsGoRight(e)
        BY <2>1
    <2>3. Logs'
        BY <2>1, <2>2, LogsStay
    <2>4. QED
        BY <1>3, <2>3 DEF IsAnswered
<1>6. QED
    BY <1>4, <1>5

\* A head is consumed whole, and what was read past a CONNECT is put back.
LEMMA ServeHeadStep ==
    ASSUME FrontInv, ServeHead
    PROVE  FrontInv'
<1> DEFINE head == Take(HeadLength, buf)
           rest == Skip(HeadLength, buf)
           h == conn.heads[served + 1]
           left == Unread(pre, net)
<1>1. /\ pc \in {"h1", "h2"} /\ HeadArrived /\ taken' = taken \o By(pc, head)
      /\ UNCHANGED <<conn, net, up, pooled>>
      /\ \/ buf' = rest /\ UNCHANGED <<pc, then, pre, served, scheme, dest, told, log>>
         \/ served < Len(conn.heads) /\ served' = served + 1 /\ Call(h, rest)
    BY DEF ServeHead, seen
<1>2. /\ net \in Seq(STRING) /\ pre \in Seq(Seq(STRING)) /\ buf \in Seq(STRING) /\ taken \in Seq(Consumed)
      /\ told \in Seq(Told) /\ conn \in Setups /\ served \in 0 .. Len(conn.heads)
    BY DEF FrontInv, StateIs, FrontTypeOK
<1>3. /\ head \in Seq(STRING) /\ rest \in Seq(STRING) /\ head \o rest = buf /\ Len(head) \in Nat /\ Len(head) >= 1
    <2> DEFINE k == HeadLength
    <2>1. k \in 1 .. Len(buf)
        BY <1>1, <1>2, HeadFits
    <2> HIDE DEF k
    <2>2. k \in 0 .. Len(buf) /\ k \in Nat /\ k >= 1
        BY <2>1
    <2>3. /\ Take(k, buf) \in Seq(STRING) /\ Skip(k, buf) \in Seq(STRING) /\ Take(k, buf) \o Skip(k, buf) = buf
          /\ Len(Take(k, buf)) = k
        BY <1>2, <2>2, TakeSkip
    <2>4. QED
        BY <2>2, <2>3 DEF k
<1>4. left \in Seq(STRING)
    BY <1>2, Unreads
<1>5. pc \in Consumers /\ pc # "relay"
    BY <1>1 DEF Consumers
<1>6. /\ TunnelFrom(Len(taken))' /\ taken' \in Seq(Consumed) /\ taken' # <<>> /\ Last(taken').by = pc
    <2> DEFINE n == Len(head)
    <2>1. taken' \in Seq(Consumed) /\ Len(taken') = Len(taken) + n
        BY <1>1, <1>2, <1>3, <1>5, ByBytes
    <2>2. TunnelFrom(Len(taken))
        BY <1>1 DEF FrontInv, Recognised
    <2>3. TunnelFrom(Len(taken))' /\ \A i \in DOMAIN taken' : i > Len(taken) => taken'[i].by = pc
        <3> HIDE DEF head
        <3>1. QED
            BY <1>1, <1>2, <1>3, <1>5, <2>2, NoneRelayed
    <2>4. Len(taken) \in Nat /\ n \in Nat /\ n >= 1 /\ DOMAIN taken' = 1 .. Len(taken')
        BY <1>2, <1>3, <2>1, LenProperties
    <2> HIDE DEF n
    <2>5. Len(taken') \in DOMAIN taken' /\ Len(taken') > Len(taken) /\ Len(taken') # 0
        BY <2>1, <2>4
    <2>6. QED
        BY <2>1, <2>3, <2>5, EmptySeq DEF Last
<1> HIDE DEF head, rest, left
<1>7. head \o (rest \o left) = buf \o left /\ rest \o left \in Seq(STRING)
    <2>1. Cat(Cat(head, rest), left) = Cat(head, Cat(rest, left)) /\ Cat(rest, left) \in Seq(STRING)
        BY <1>3, <1>4, Assoc, CatIs
    <2>2. QED
        BY <1>3, <2>1 DEF Cat
<1>8. ASSUME buf' = rest, pre' = pre, then' = then, scheme' = scheme, dest' = dest, pc' \in {pc, "websocket"},
             served' \in 0 .. Len(conn.heads), told' \in Seq(Told), NoConnect' <=> NoConnect, Logs'
      PROVE  FrontInv'
    <2>1. FrontTypeOK' /\ StateIs'
        BY <1>1, <1>2, <1>3, <1>6, <1>8 DEF FrontInv, FrontTypeOK, StateIs
    <2>2. EveryByteOnce'
        <3>1. head \o (buf' \o Unread(pre', net')) = buf \o Unread(pre, net)
            BY <1>1, <1>7, <1>8 DEF left
        <3>2. taken' = taken \o By(pc, head)
            BY <1>1 DEF head
        <3>3. net' \in Seq(STRING) /\ pre' \in Seq(Seq(STRING)) /\ buf' \in Seq(STRING)
            BY <1>1, <1>2, <1>3, <1>8
        <3>4. QED
            BY <1>1, <1>3, <1>5, <3>1, <3>2, <3>3, BytesTaken
    <2>3. HeldBytes' /\ UpBytes'
        BY <1>1, <1>8 DEF FrontInv, HeldBytes, UpBytes, Early
    <2>4. Recognised'
        BY <1>1, <1>6, <1>8 DEF Recognised
    <2>5. Located'
        BY <1>1, <1>8 DEF FrontInv, Located, Early, InSocks
    <2>6. QED
        BY <1>8, <2>1, <2>2, <2>3, <2>4, <2>5 DEF FrontInv
<1>9. CASE buf' = rest /\ UNCHANGED <<pc, then, pre, served, scheme, dest, told, log>>
    <2>1. Logs'
        BY <1>1, <1>9, LogsStay
    <2>2. NoConnect' <=> NoConnect
        BY <1>9 DEF NoConnect
    <2>3. QED
        BY <1>2, <1>8, <1>9, <2>1, <2>2
<1>10. CASE served < Len(conn.heads) /\ served' = served + 1 /\ Call(h, rest)
    <2>1. served' \in 0 .. Len(conn.heads) /\ served' >= 1
        <3>1. Len(conn.heads) \in Nat
            BY <1>2, SetupAssumption, LenProperties
        <3>2. QED
            BY <1>2, <1>10, <3>1
    <2>2. CASE IsAnswered /\ buf' = rest
        <3>1. /\ told' \in Seq(Told) /\ (NoConnect' <=> NoConnect) /\ Logs'
              /\ then' = then /\ pre' = pre /\ scheme' = scheme /\ dest' = dest /\ pc' \in {pc, "websocket"}
            BY <1>1, <2>2, AnsweredKeeps
        <3>2. QED
            BY <1>8, <2>1, <2>2, <3>1
    <2>3. CASE \E caller \in {"connect", "h2connect"} : Tunnel(h, caller, rest) /\ buf' = <<>>
        <3>1. /\ pc' = "sniff" /\ then' \in {"connect", "h2connect"} /\ pre' = Rewind(pre, rest) /\ buf' = <<>>
              /\ scheme' = "http" /\ dest' = h.uri /\ told' = Append(told, "200") /\ log' = log
            BY <2>3 DEF Tunnel
        <3>2. told' \in Seq(Told) /\ ~NoConnect'
            <4>1. "200" \in Told
                BY DEF Told
            <4>2. QED
                BY <1>2, <3>1, <4>1, OneMore
        <3>3. pre' \in Seq(Seq(STRING)) /\ Unread(pre', net') = rest \o left
            <4> DEFINE p == pre'
                       t == net'
            <4>1. p = Rewind(pre, rest) /\ t = net
                BY <1>1, <3>1
            <4> HIDE DEF p, t
            <4>2. Rewind(pre, rest) \in Seq(Seq(STRING)) /\ Unread(Rewind(pre, rest), net) = rest \o left
                BY <1>2, <1>3, Unreads DEF left
            <4>3. p \in Seq(Seq(STRING)) /\ Unread(p, t) = rest \o left
                BY <4>1, <4>2
            <4>4. QED
                BY <4>3 DEF p, t
        <3>4. FrontTypeOK' /\ StateIs'
            BY <1>1, <1>2, <1>6, <2>1, <3>1, <3>2, <3>3, EmptySeq DEF FrontInv, FrontTypeOK, StateIs
        <3>5. EveryByteOnce'
            <4>1. buf' \o (rest \o left) = rest \o left
                BY <1>7, <3>1, ConcatEmptySeq
            <4>2. head \o (buf' \o Unread(pre', net')) = buf \o Unread(pre, net)
                BY <1>7, <3>3, <4>1 DEF left
            <4>3. taken' = taken \o By(pc, head)
                BY <1>1 DEF head
            <4>4. net' \in Seq(STRING) /\ buf' \in Seq(STRING)
                BY <1>1, <1>2, <3>1, EmptySeq
            <4>5. QED
                BY <1>1, <1>3, <1>5, <3>3, <4>2, <4>3, <4>4, BytesTaken
        <3>6. HeldBytes' /\ UpBytes'
            <4>1. Len(<<>>) < MaxPrefix
                BY PrefixAssumption, EmptySeq
            <4>2. QED
                BY <1>1, <3>1, <4>1 DEF FrontInv, HeldBytes, UpBytes, Early
        <3>7. Recognised'
            BY <1>6, <3>1 DEF Recognised
        <3>8. Located'
            BY <1>1, <1>10, <2>1, <3>1, <3>2 DEF Located, Early
        <3>9. Logs'
            BY <1>1, <3>1, LogsStay
        <3>10. QED
            BY <3>4, <3>5, <3>6, <3>7, <3>8, <3>9 DEF FrontInv
    <2>4. \/ IsAnswered /\ buf' = rest
          \/ \E caller \in {"connect", "h2connect"} : Tunnel(h, caller, rest) /\ buf' = <<>>
        BY <1>10, CallDoes
    <2>5. QED
        BY <2>2, <2>3, <2>4
<1>11. QED
    BY <1>1, <1>9, <1>10 DEF rest

\* A stream of HTTP/3 is answered.
LEMMA ServeStreamStep ==
    ASSUME FrontInv, ServeStream
    PROVE  FrontInv'
<1>1. /\ pc = "h3" /\ served < Len(conn.heads) /\ served' = served + 1
      /\ IF InReverse THEN ReverseH3(conn.heads[served + 1]) ELSE WireGuardH3(conn.heads[served + 1])
      /\ UNCHANGED <<conn, net, buf, taken, up, pooled>>
    BY DEF ServeStream
<1>2. conn.mode \in {"reverseh3", "wireguardh3"}
    BY <1>1 DEF FrontInv, Located, InH3
<1>3. IsAnswered
    BY <1>1, <1>2, StreamDoes
<1>4. /\ told' \in Seq(Told) /\ (NoConnect' <=> NoConnect) /\ Logs'
      /\ then' = then /\ pre' = pre /\ scheme' = scheme /\ dest' = dest /\ pc' \in {pc, "websocket"}
    BY <1>1, <1>3, AnsweredKeeps
<1>5. served' \in 0 .. Len(conn.heads)
    <2>1. conn \in Setups /\ served \in 0 .. Len(conn.heads)
        BY DEF FrontInv, FrontTypeOK
    <2>2. Len(conn.heads) \in Nat
        BY <2>1, SetupAssumption, LenProperties
    <2>3. QED
        BY <1>1, <2>1, <2>2
<1>6. FrontTypeOK' /\ StateIs'
    BY <1>1, <1>4, <1>5 DEF FrontInv, FrontTypeOK, StateIs
<1>7. EveryByteOnce'
    BY <1>1, <1>4, BytesStay DEF stream
<1>8. HeldBytes' /\ UpBytes'
    BY <1>1, <1>4 DEF FrontInv, HeldBytes, UpBytes, Early
<1>9. Recognised'
    <2>1. TunnelFrom(Len(taken))'
        BY <1>1 DEF FrontInv, Recognised, TunnelFrom
    <2>2. QED
        BY <1>1, <1>4, <2>1 DEF Recognised
<1>10. Located'
    BY <1>1, <1>4 DEF FrontInv, Located, Early, InSocks, InH3
<1>11. QED
    BY <1>4, <1>6, <1>7, <1>8, <1>9, <1>10 DEF FrontInv

\* A tunnel is opened to where its CONNECT, or the original connection, went.
LEMMA OpenTunnelStep ==
    ASSUME FrontInv, OpenTunnel
    PROVE  FrontInv'
<1>1. CASE Close
    BY <1>1, ClosedStep
<1>2. CASE ~Close
    <2> DEFINE e == [what |-> "raw", head |-> served, inside |-> scheme, to |-> dest,
                     connects |-> Connects, tls |-> FALSE,
                     via |-> IF then = "socks" THEN conn.chain ELSE "direct"]
    <2>1. /\ pc = "raw" /\ pc' = "relay" /\ log' = Append(log, e)
          /\ UNCHANGED <<conn, then, net, pre, buf, taken, served, scheme, dest, up, pooled, told>>
        BY <1>2 DEF OpenTunnel, stream, place
    <2>2. /\ net \in Seq(STRING) /\ pre \in Seq(Seq(STRING)) /\ buf = <<>> /\ taken \in Seq(Consumed)
          /\ told \in Seq(Told)
        BY <2>1 DEF FrontInv, StateIs, HeldBytes
    <2>3. FrontTypeOK' /\ StateIs'
        BY <2>1 DEF FrontInv, FrontTypeOK, StateIs
    <2>4. EveryByteOnce'
        BY <2>1, BytesStay DEF stream
    <2>5. HeldBytes' /\ UpBytes'
        BY <2>1 DEF FrontInv, HeldBytes, UpBytes, Early
    <2>6. Recognised'
        <3> DEFINE k == Len(taken)
                   b == Bytes(taken)
                   left == Unread(pre, net)
        <3>1. TunnelFrom(k) /\ ~Known(left)
            BY <2>1 DEF FrontInv, Recognised
        <3>2. b \in Seq(STRING) /\ Len(b) = k /\ left \in Seq(STRING) /\ k \in Nat
            <4> DEFINE s == <<>>
            <4>1. s \in Seq(STRING) /\ "h1" \in Consumers
                BY EmptySeq DEF Consumers
            <4> HIDE DEF s
            <4>2. b \in Seq(STRING) /\ Len(b) = k
                BY <2>2, <4>1, ByBytes
            <4>3. left \in Seq(STRING)
                BY <2>2, Unreads
            <4>4. QED
                BY <2>2, <4>2, <4>3, LenProperties
        <3>3. b \o left = conn.bytes
            <4>1. b \o buf \o left = conn.bytes
                BY DEF FrontInv, EveryByteOnce
            <4>2. b \o buf = b
                BY <2>2, <3>2, ConcatEmptySeq
            <4>3. QED
                BY <4>1, <4>2
        <3> HIDE DEF b, left
        <3>4. Skip(k, b) = <<>>
            BY <3>2, SubSeqEmpty DEF Skip
        <3>5. Skip(k, b) \o left = Skip(k, b \o left)
            <4>1. k \in 0 .. Len(b)
                BY <3>2
            <4>2. QED
                BY <3>2, <4>1, SkipCat
        <3>6. Skip(k, conn.bytes) = left
            BY <3>2, <3>3, <3>4, <3>5, ConcatEmptySeq
        <3>7. k \in 0 .. Len(taken) /\ TunnelFrom(k) /\ ~Known(Skip(k, conn.bytes))
            BY <3>1, <3>2, <3>6
        <3>8. PICK j \in 0 .. Len(taken) : TunnelFrom(j) /\ ~Known(Skip(j, conn.bytes))
            BY <3>7
        <3>9. j \in 0 .. Len(taken') /\ TunnelFrom(j)' /\ ~Known(Skip(j, conn'.bytes))
            BY <2>1, <3>8 DEF TunnelFrom
        <3>10. QED
            BY <2>1, <3>9 DEF Recognised
    <2>7. Located'
        BY <2>1 DEF FrontInv, Located, Early, NoConnect, InSocks
    <2>8. Logs'
        <3>1. e.what = "raw" /\ e.to = dest /\ e.connects = Connects /\ e.head = served
            OBVIOUS
        <3> HIDE DEF e
        <3>2. TunnelsGoRight(e)
            BY <2>1, <2>2, <3>1, ConnectCount DEF FrontInv, Located, TunnelsGoRight
        <3>3. QED
            BY <2>1, <3>1, <3>2, LogsStay
    <2>9. QED
        BY <2>3, <2>4, <2>5, <2>6, <2>7, <2>8 DEF FrontInv
<1>3. QED
    BY <1>1, <1>2

\* Bytes relayed are behind those that were not.
LEMMA MoreRelayed ==
    ASSUME taken \in Seq(Consumed), NEW k \in 0 .. Len(taken), TunnelFrom(k),
           NEW got \in Seq(STRING), taken' = taken \o By("relay", got)
    PROVE  TunnelFrom(k)' /\ k \in 0 .. Len(taken')
<1> DEFINE b == By("relay", got)
           m == Len(taken)
           n == Len(got)
<1>1. "relay" \in Consumers
    BY DEF Consumers
<1>2. /\ b \in Seq(Consumed) /\ Len(b) = n /\ \A i \in 1 .. n : b[i].by = "relay"
      /\ taken' \in Seq(Consumed) /\ Len(taken') = m + n
    BY <1>1, ByBytes
<1>3. m \in Nat /\ n \in Nat /\ DOMAIN taken = 1 .. m /\ DOMAIN taken' = 1 .. m + n
    BY <1>2, LenProperties
<1> HIDE DEF b
<1>4. \A i \in 1 .. m + n : taken'[i] = IF i <= m THEN taken[i] ELSE b[i - m]
    <2>1. \A i \in 1 .. m + Len(b) : Cat(taken, b)[i] = IF i <= m THEN taken[i] ELSE b[i - m]
        BY <1>2, CatIs
    <2>2. QED
        BY <1>2, <2>1 DEF Cat, b
<1>5. ASSUME NEW i \in 1 .. m + n PROVE taken'[i].by = "relay" <=> i > k
    <2>1. CASE i <= m
        <3>1. i \in 1 .. m
            BY <2>1
        <3>2. QED
            BY <1>3, <1>4, <2>1, <3>1 DEF TunnelFrom
    <2>2. CASE ~(i <= m)
        <3>1. i - m \in 1 .. n /\ i > k
            BY <1>3, <2>2
        <3>2. QED
            BY <1>2, <1>4, <2>2, <3>1
    <2>3. QED
        BY <2>1, <2>2
<1>6. QED
    BY <1>2, <1>3, <1>5 DEF TunnelFrom

\* The tunnel takes what was held, then what is put back, then what is read.
LEMMA RelayStep ==
    ASSUME FrontInv, Relay
    PROVE  FrontInv'
<1> DEFINE p == IF buf = <<>> THEN pre ELSE Rewind(pre, buf)
<1>1. PICK r \in Reads(p, net, Len(conn.bytes)) :
        net' = r.t /\ pre' = r.p /\ buf' = <<>> /\ taken' = taken \o By(pc, r.got)
    BY DEF Relay
<1>2. pc \in {"relay", "websocket"} /\ UNCHANGED <<conn, pc, then, served, scheme, dest, up, pooled, told, log>>
    BY DEF Relay, place, seen
<1>3. /\ net \in Seq(STRING) /\ pre \in Seq(Seq(STRING)) /\ buf \in Seq(STRING) /\ taken \in Seq(Consumed)
      /\ Len(conn.bytes) \in Nat /\ pc \in Consumers
    BY <1>2, SetupAssumption, LenProperties DEF FrontInv, StateIs, FrontTypeOK, Consumers
<1>4. p \in Seq(Seq(STRING)) /\ Unread(p, net) = buf \o Unread(pre, net)
    <2>1. CASE buf = <<>>
        <3>1. Unread(pre, net) \in Seq(STRING)
            BY <1>3, Unreads
        <3>2. <<>> \o Unread(pre, net) = Unread(pre, net)
            BY <3>1, ConcatEmptySeq
        <3>3. QED
            BY <1>3, <2>1, <3>2
    <2>2. CASE buf # <<>>
        <3>1. Rewind(pre, buf) \in Seq(Seq(STRING)) /\ Unread(Rewind(pre, buf), net) = buf \o Unread(pre, net)
            BY SMTT(30), <1>3, Unreads
        <3>2. QED
            BY <2>2, <3>1
    <2>3. QED
        BY <2>1, <2>2
<1> HIDE DEF p
<1>5. IsRead(r, STRING, p, net, Len(conn.bytes))
    BY <1>3, <1>4, ReadsKeep
<1>6. /\ r.got \in Seq(STRING) /\ r.p \in Seq(Seq(STRING)) /\ r.t \in Seq(STRING)
      /\ r.got \o Unread(r.p, r.t) = buf \o Unread(pre, net)
    BY <1>4, <1>5 DEF IsRead
<1> DEFINE got == r.got
<1>7. /\ net' \in Seq(STRING) /\ pre' \in Seq(Seq(STRING)) /\ buf' \in Seq(STRING)
      /\ got \o (buf' \o Unread(pre', net')) = buf \o Unread(pre, net)
    <2>1. Unread(r.p, r.t) \in Seq(STRING)
        BY <1>6, Unreads
    <2>2. <<>> \o Unread(r.p, r.t) = Unread(r.p, r.t)
        BY <2>1, ConcatEmptySeq
    <2>3. QED
        BY <1>1, <1>6, <2>2, EmptySeq
<1>8. got \in Seq(STRING) /\ taken' = taken \o By(pc, got)
    BY <1>1, <1>6
<1> HIDE DEF got
<1>9. EveryByteOnce' /\ taken' \in Seq(Consumed)
    BY <1>2, <1>3, <1>7, <1>8, BytesTaken
<1>10. FrontTypeOK' /\ StateIs'
    BY <1>2, <1>7, <1>9 DEF FrontInv, FrontTypeOK, StateIs
<1>11. HeldBytes' /\ UpBytes'
    BY <1>2 DEF FrontInv, HeldBytes, UpBytes, Early
<1>12. Recognised'
    <2>1. CASE pc = "relay"
        <3>1. PICK k \in 0 .. Len(taken) : TunnelFrom(k) /\ ~Known(Skip(k, conn.bytes))
            BY <2>1 DEF FrontInv, Recognised
        <3>2. TunnelFrom(k)' /\ k \in 0 .. Len(taken')
            BY <1>3, <1>8, <2>1, <3>1, MoreRelayed
        <3>3. ~Known(Skip(k, conn'.bytes))
            BY <1>2, <3>1
        <3>4. QED
            BY <1>2, <2>1, <3>2, <3>3 DEF Recognised
    <2>2. CASE pc = "websocket"
        <3>1. TunnelFrom(Len(taken))
            BY <2>2 DEF FrontInv, Recognised
        <3>2. TunnelFrom(Len(taken))'
            BY <1>3, <1>8, <2>2, <3>1, NoneRelayed
        <3>3. QED
            BY <1>2, <2>2, <3>2 DEF Recognised
    <2>3. QED
        BY <1>2, <2>1, <2>2
<1>13. Located'
    BY <1>2 DEF FrontInv, Located, Early, NoConnect, InSocks
<1>14. Logs'
    BY <1>2, LogsStay
<1>15. QED
    BY <1>9, <1>10, <1>11, <1>12, <1>13, <1>14 DEF FrontInv

-----------------------------------------------------------------------------
(* The invariant, and what it says.                                        *)

\* Every connection starts in the invariant.
LEMMA FrontInitial == FrontInit => FrontInv
<1>1. SUFFICES ASSUME FrontInit PROVE FrontInv
    OBVIOUS
<1>2. /\ conn \in Setups /\ pc = "start" /\ then = "plain"
      /\ net = conn.bytes /\ pre = <<>> /\ buf = <<>> /\ taken = <<>>
      /\ served = 0 /\ scheme = "http" /\ dest = conn.dest /\ up = UpInit(conn)
      /\ pooled = FALSE /\ told = <<>> /\ log = <<>>
    BY <1>1 DEF FrontInit
<1>3. conn.bytes \in Seq(STRING) /\ conn.up \in Seq(STRING) /\ Len(conn.heads) \in Nat
    BY <1>2, SetupAssumption, LenProperties
<1>4. /\ up.net = conn.up /\ up.pre = <<>> /\ up.buf = <<>> /\ up.read = <<>> /\ up.step = 1
      /\ up.state = "none" /\ up.tls = FALSE /\ up \in Ups
    BY <1>2, <1>3, EmptySeq DEF UpInit, Ups
<1>5. FrontTypeOK
    <2>1. 0 \in 0 .. Len(conn.heads)
        BY <1>3
    <2>2. QED
        BY <1>2, <2>1 DEF FrontTypeOK
<1>6. StateIs
    BY <1>2, <1>3, <1>4, EmptySeq DEF StateIs
<1>7. EveryByteOnce
    <2>1. ASSUME NEW s \in Seq(STRING) PROVE <<>> \o <<>> \o Unread(<<>>, s) = s
        <3>1. Unread(<<>>, s) = s
            BY Unreads, EmptySeq
        <3>2. <<>> \o <<>> = <<>> /\ <<>> \o s = s
            BY ConcatEmptySeq, EmptySeq
        <3>3. QED
            BY <3>1, <3>2
    <2>2. Bytes(<<>>) = <<>>
        BY DEF Bytes
    <2>3. QED
        BY <1>2, <1>3, <1>4, <2>1, <2>2 DEF EveryByteOnce
<1>8. HeldBytes /\ UpBytes
    BY <1>2, <1>4 DEF HeldBytes, UpBytes
<1>9. Recognised
    BY <1>2 DEF Recognised, TunnelFrom
<1>10. Located
    BY <1>2 DEF Located, NoConnect
<1>11. Logs
    BY <1>2, EmptySeq DEF Logs, GoesWhereAsked
<1>12. QED
    BY <1>5, <1>6, <1>7, <1>8, <1>9, <1>10, <1>11 DEF FrontInv

\* Every step keeps the invariant.
LEMMA FrontStep == FrontInv /\ [FrontNext]_frontVars => FrontInv'
<1>1. SUFFICES ASSUME FrontInv, [FrontNext]_frontVars PROVE FrontInv'
    OBVIOUS
<1>2. ASSUME UNCHANGED frontVars PROVE FrontInv'
    <2>1. UNCHANGED <<conn, pc, then, net, pre, buf, taken, served, scheme, dest, up, pooled, told, log>>
        BY <1>2 DEF frontVars
    <2>2. FrontTypeOK' /\ StateIs'
        BY <1>1, <2>1 DEF FrontInv, FrontTypeOK, StateIs
    <2>3. EveryByteOnce'
        BY <1>1, <2>1, BytesStay DEF stream
    <2>4. HeldBytes' /\ UpBytes'
        BY <1>1, <2>1 DEF FrontInv, HeldBytes, UpBytes, Early
    <2>5. Recognised'
        <3>1. Recognised
            BY <1>1 DEF FrontInv
        <3>2. QED
            BY <2>1, <3>1 DEF Recognised, TunnelFrom, Unread
    <2>6. Located'
        BY <1>1, <2>1 DEF FrontInv, Located, Early, NoConnect, InSocks, InH3
    <2>7. Logs'
        BY <1>1, <2>1, LogsStay
    <2>8. QED
        BY <2>2, <2>3, <2>4, <2>5, <2>6, <2>7 DEF FrontInv
<1>3. ASSUME StopListening \/ SniffTimesOut \/ Disconnect PROVE FrontInv'
    BY <1>1, <1>3, ClosedStep DEF StopListening, SniffTimesOut, Disconnect
<1>4. ASSUME Start \/ Accept \/ AcceptCaptured PROVE FrontInv'
    BY <1>1, <1>4, StartStep, AcceptStep
<1>5. ASSUME AcceptConnect \/ Dial \/ ReadProxyHead \/ ReadProxyReply \/ ReplyConnected \/ ReplyFailed PROVE FrontInv'
    BY <1>1, <1>5, AcceptConnectStep, DialStep, ReadProxyHeadStep, ReadProxyReplyStep, ReplyStep
<1>6. ASSUME Sniff \/ SniffEof \/ UpstreamTls \/ AcceptTls PROVE FrontInv'
    BY <1>1, <1>6, SniffStep, SniffEofStep, UpstreamTlsStep, AcceptTlsStep
<1>7. ASSUME ServeHead \/ ReadMore \/ ServeStream \/ OpenTunnel \/ Relay PROVE FrontInv'
    BY <1>1, <1>7, ServeHeadStep, ReadMoreStep, ServeStreamStep, OpenTunnelStep, RelayStep
<1>8. ASSUME Done PROVE FrontInv'
    BY <1>2, <1>8 DEF Done
<1>9. QED
    BY <1>1, <1>2, <1>3, <1>4, <1>5, <1>6, <1>7, <1>8 DEF FrontNext

\* For every set of connections, whatever their rules, bytes and heads: the
\* invariant of the code from the accept loop of each mode to the relay.
THEOREM FrontInvariance == FrontSpec => []FrontInv
    BY FrontInitial, FrontStep, PTL DEF FrontSpec

\* In whatever pieces they are read, and through however many Rewind wrappers
\* they are put back, the bytes of the client and of an upstream proxy reach one
\* consumer each, in order.
THEOREM FrontKeepsBytes == FrontSpec => []BytesAreKept
<1>1. FrontInv => BytesAreKept
    BY DEF FrontInv, BytesAreKept
<1>2. QED
    BY <1>1, FrontInvariance, PTL

\* Whatever the rules and the nesting of CONNECT, NativeUpstream, the HTTP/3
\* upstream and the raw tunnel reach the place the request or its connection names.
THEOREM FrontGoesWhereAsked == FrontSpec => []GoesWhereAsked
<1>1. FrontInv => GoesWhereAsked
    BY DEF FrontInv, Logs
<1>2. QED
    BY <1>1, FrontInvariance, PTL

\* The bytes of a tunnel are those behind what was consumed before it.
LEMMA TunnelBytesAre ==
    ASSUME FrontInv, NEW k \in 0 .. Len(taken), TunnelFrom(k)
    PROVE  TunnelBytes = Skip(k, conn.bytes)
<1> DEFINE P(j) == \A i \in DOMAIN taken : taken[i].by = "relay" <=> i > j
           b == Bytes(taken)
           left == Unread(pre, net)
<1>1. taken \in Seq(Consumed) /\ net \in Seq(STRING) /\ pre \in Seq(Seq(STRING)) /\ buf \in Seq(STRING)
    BY DEF FrontInv, StateIs
<1>2. DOMAIN taken = 1 .. Len(taken) /\ Len(taken) \in Nat
    BY <1>1, LenProperties
<1>3. BeforeTunnel = CHOOSE j \in 0 .. Len(taken) : P(j)
    BY DEF BeforeTunnel
<1>4. P(k)
    BY DEF TunnelFrom
<1>5. BeforeTunnel \in 0 .. Len(taken) /\ P(BeforeTunnel)
    <2> HIDE DEF P
    <2>1. QED
        BY <1>3, <1>4
<1>6. BeforeTunnel = k
    <2> DEFINE j == BeforeTunnel
    <2>1. j \in 0 .. Len(taken) /\ P(j)
        BY <1>5
    <2> HIDE DEF j
    <2>2. ASSUME j < k PROVE FALSE
        <3>1. k \in DOMAIN taken /\ k > j /\ ~(k > k)
            BY <1>2, <2>1, <2>2
        <3>2. QED
            BY <1>4, <2>1, <3>1
    <2>3. ASSUME k < j PROVE FALSE
        <3>1. j \in DOMAIN taken /\ j > k /\ ~(j > j)
            BY <1>2, <2>1, <2>3
        <3>2. QED
            BY <1>4, <2>1, <3>1
    <2>4. j = k
        <3>1. j \in Nat /\ k \in Nat
            BY <1>2, <2>1
        <3>2. QED
            BY <2>2, <2>3, <3>1
    <2>5. QED
        BY <2>4 DEF j
<1>7. b \in Seq(STRING) /\ Len(b) = Len(taken) /\ left \in Seq(STRING)
    <2> DEFINE s == <<>>
    <2>1. s \in Seq(STRING) /\ "h1" \in Consumers
        BY EmptySeq DEF Consumers
    <2> HIDE DEF s
    <2>2. b \in Seq(STRING) /\ Len(b) = Len(taken)
        BY <1>1, <2>1, ByBytes
    <2>3. left \in Seq(STRING)
        BY <1>1, Unreads
    <2>4. QED
        BY <2>2, <2>3
<1>8. b \o buf \o left = conn.bytes
    BY DEF FrontInv, EveryByteOnce
<1>9. TunnelBytes = Skip(k, b) \o buf \o left
    BY <1>6 DEF TunnelBytes
<1> HIDE DEF b, left
<1>10. k \in 0 .. Len(b)
    BY <1>7
<1>11. Skip(k, b) \o buf = Skip(k, b \o buf)
    BY <1>1, <1>7, <1>10, SkipCat
<1> DEFINE c == b \o buf
<1>12. c \in Seq(STRING) /\ Len(c) = Len(b) + Len(buf)
    BY <1>1, <1>7, ConcatProperties
<1>13. k \in 0 .. Len(c)
    <2>1. Len(b) \in Nat /\ Len(buf) \in Nat
        BY <1>1, <1>7, LenProperties
    <2> HIDE DEF c
    <2>2. QED
        BY <1>10, <1>12, <2>1
<1> HIDE DEF c
<1>14. Skip(k, c) \o left = Skip(k, c \o left)
    BY <1>7, <1>12, <1>13, SkipCat
<1>15. QED
    BY <1>8, <1>9, <1>11, <1>14 DEF c

\* detect_protocol hands no TLS or HTTP/2 stream to the raw tunnel, and nothing
\* else to TLS or, inside CONNECT, to HTTP, in whatever pieces the bytes arrive.
THEOREM FrontInspects == FrontSpec => []KnownIsInspected
<1>1. FrontInv => KnownIsInspected
    <2>1. SUFFICES ASSUME FrontInv PROVE KnownIsInspected
        OBVIOUS
    <2>2. Recognised
        BY <2>1 DEF FrontInv
    <2>3. ASSUME pc = "relay" PROVE ~is_tls_handshake(TunnelBytes) /\ ~is_h2_preface(TunnelBytes)
        <3>1. PICK k \in 0 .. Len(taken) : TunnelFrom(k) /\ ~Known(Skip(k, conn.bytes))
            BY <2>2, <2>3 DEF Recognised
        <3>2. TunnelBytes = Skip(k, conn.bytes)
            BY <2>1, <3>1, TunnelBytesAre
        <3>3. QED
            BY <3>1, <3>2 DEF Known
    <2>4. QED
        BY <2>2, <2>3 DEF KnownIsInspected, Recognised
<1>2. QED
    BY <1>1, FrontInvariance, PTL

-----------------------------------------------------------------------------
(* The inductive invariant.                                                *)

\* An upgrade that request i asked for was refused, and it does not close.
Settled(i) == (kind[i].upgrade => decision[i] = "no") /\ ~kind[i].close

\* Where the reader stands between two requests, the one before is settled;
\* where it has stopped, it knows why.
ReaderInv ==
    /\ rd \in {"enqueue", "body", "decision"} => read > 0
    /\ rd \in {"report", "failed"} => err \in Error
    /\ rd = "head" /\ read > 0 => Settled(read)
    /\ rd = "decision" => kind[read].upgrade
    /\ rd = "closed" /\ co # "dropped" /\ read > 0 =>
          (kind[read].upgrade => decision[read] = "no")
    /\ rd = "upgrade" => read > 0 /\ decision[read] = "yes"
    /\ NothingParsedPast

\* The error of the reader is the last thing in the channel.
Faulted == pipe # <<>> /\ pipe[Len(pipe)][1] # "request"

\* Requests that were put into the channel.
Queued == IF rd = "enqueue" THEN read - 1 ELSE read

\* The coordinator takes requests and answers them.
Serving == {"recv", "continue", "call", "write"}

\* The channel holds the requests after the one taken last, then the error.
PipeInv ==
    co \in Serving =>
        /\ cur + Len(pipe) = IF Faulted THEN Queued + 1 ELSE Queued
        /\ \A k \in 1..Len(pipe) :
              pipe[k] = IF k = Len(pipe) /\ Faulted THEN <<err, read>> ELSE <<"request", cur + k>>
        /\ Faulted => rd = "failed"

\* A decision is made after the response, and the accepted upgrade is that of
\* the last request on the connection.
DecisionInv ==
    /\ \A i \in Req : decision[i] # "none" =>
          /\ i <= cur
          /\ i = cur => co \notin {"continue", "call", "write"}
          /\ kind[i].upgrade
          /\ decision[i] = "yes" => i = cur /\ i = read /\ co \in {"upgraded", "dropped"}
    /\ co = "upgraded" => cur > 0 /\ decision[cur] = "yes"

\* The coordinator follows the reader, and stops where the reply says so.
CoordinatorInv ==
    /\ cur <= read
    /\ co \in {"continue", "call", "write"} => cur > 0
    /\ co = "continue" => kind[cur].expect
    /\ co = "write" /\ reply.accept => kind[cur].upgrade
    /\ reply.accept \/ reply.close => co \in {"write", "upgraded", "stop", "error", "dropped"}
    /\ co = "bad" => rd = "failed" /\ cur = read
    /\ co \in Serving /\ rd = "failed" => Faulted
    /\ co = "closed" => rd = "closed"

\* The reader is aborted only behind the last word of the coordinator.
EndInv ==
    /\ rd = "aborted" => co \in {"stop", "error"} /\ result # "none"
    /\ result # "none" => rd \in Ended /\ co \in {"stop", "error", "closed", "upgraded"}
    /\ EndsAgree

\* Requests that have their response.
Served == IF co \in {"continue", "call"} THEN cur - 1 ELSE cur

OutInv ==
    /\ co \in Serving \cup {"bad"} => Answered(Len(out)) = 1..Served
    /\ \A k \in DOMAIN out :
          /\ out[k][2] <= cur /\ (out[k][1] # "400" => out[k][2] > 0)
          /\ out[k][1] = "400" => rd = "failed" /\ co \in {"stop", "dropped"}
    /\ InOrder

IInv ==
    /\ TypeOK
    /\ ReaderInv /\ PipeInv /\ DecisionInv /\ CoordinatorInv /\ EndInv /\ OutInv

-----------------------------------------------------------------------------
(* The channel and the history.                                            *)

\* The first entry of the channel to the writer, and what is left without it.
LEMMA Entries ==
    ASSUME TypeOK, pipe # <<>>
    PROVE  /\ Head(pipe) = pipe[1] /\ Len(pipe) \in Nat /\ Len(pipe) > 0
           /\ Head(pipe)[1] \in {"request"} \cup Error /\ Head(pipe)[2] \in 0..MaxReq
           /\ Tail(pipe) \in Seq(({"request"} \cup Error) \X (0..MaxReq))
           /\ Len(Tail(pipe)) = Len(pipe) - 1
           /\ \A k \in 1..(Len(pipe) - 1) : Tail(pipe)[k] = pipe[k + 1]
<1> DEFINE X == ({"request"} \cup Error) \X (0..MaxReq)
<1>1. pipe \in Seq(X)
    BY DEF TypeOK
<1>2. \A x \in X : x[1] \in {"request"} \cup Error /\ x[2] \in 0..MaxReq
    OBVIOUS
<1> HIDE DEF X
<1>3. /\ Head(pipe) \in X /\ Head(pipe) = pipe[1] /\ Tail(pipe) \in Seq(X)
      /\ Len(Tail(pipe)) = Len(pipe) - 1
      /\ \A k \in 1..Len(Tail(pipe)) : Tail(pipe)[k] = pipe[k + 1]
    BY <1>1, HeadTailProperties
<1>4. Len(pipe) \in Nat /\ Len(pipe) > 0
    BY <1>1, EmptySeq
<1>5. QED
    BY <1>2, <1>3, <1>4 DEF X

\* What the reader puts into the channel goes to its end.
LEMMA Put ==
    ASSUME TypeOK, NEW x \in ({"request"} \cup Error) \X (0..MaxReq), SendInbound(x)
    PROVE  /\ pipe' \in Seq(({"request"} \cup Error) \X (0..MaxReq))
           /\ Len(pipe') = Len(pipe) + 1 /\ Len(pipe) \in Nat
           /\ pipe'[Len(pipe) + 1] = x /\ pipe' # <<>>
           /\ \A k \in 1..Len(pipe) : pipe'[k] = pipe[k]
<1> DEFINE X == ({"request"} \cup Error) \X (0..MaxReq)
<1>1. pipe \in Seq(X) /\ x \in X /\ pipe' = Append(pipe, x)
    BY DEF TypeOK, SendInbound
<1> HIDE DEF X
<1>2. /\ pipe' \in Seq(X) /\ pipe' # <<>> /\ Len(pipe') = Len(pipe) + 1
      /\ \A k \in 1..Len(pipe) : pipe'[k] = pipe[k]
      /\ pipe'[Len(pipe) + 1] = x
    BY <1>1, AppendProperties
<1>3. Len(pipe) \in Nat
    BY <1>1
<1>4. QED
    BY <1>2, <1>3 DEF X

\* The coordinator finds the next request, or the error behind all of them.
LEMMA NextInbound ==
    ASSUME TypeOK, PipeInv, co = "recv", pipe # <<>>
    PROVE  /\ Head(pipe)[1] = "request" =>
                 /\ Head(pipe)[2] = cur + 1 /\ cur + 1 <= Queued
                 /\ Faulted => Len(pipe) > 1
           /\ Head(pipe)[1] \in Error =>
                 Faulted /\ Len(pipe) = 1 /\ rd = "failed" /\ cur = read
<1>1. /\ Head(pipe) = pipe[1] /\ Len(pipe) \in Nat /\ Len(pipe) > 0
      /\ 1 \in 1..Len(pipe) /\ cur \in Nat /\ read \in Nat
    BY Entries DEF TypeOK
<1>2. /\ cur + Len(pipe) = IF Faulted THEN Queued + 1 ELSE Queued
      /\ pipe[1] = IF 1 = Len(pipe) /\ Faulted THEN <<err, read>> ELSE <<"request", cur + 1>>
      /\ Faulted => rd = "failed"
    BY <1>1 DEF PipeInv, Serving
<1>3. Queued \in Int /\ (rd = "failed" => Queued = read)
    BY <1>1 DEF Queued
<1>4. "request" \notin Error
    BY DEF Error
<1>5. ASSUME Head(pipe)[1] = "request"
      PROVE  /\ Head(pipe)[2] = cur + 1 /\ cur + 1 <= Queued
             /\ Faulted => Len(pipe) > 1
    <2>1. ~(1 = Len(pipe) /\ Faulted)
        BY <1>1, <1>5 DEF Faulted
    <2>2. Head(pipe)[2] = cur + 1
        BY <1>1, <1>2, <2>1
    <2> DEFINE l == Len(pipe)
    <2>3. /\ cur + l = IF Faulted THEN Queued + 1 ELSE Queued
          /\ l \in Nat /\ l > 0 /\ ~(1 = l /\ Faulted) /\ cur \in Nat
        BY <1>1, <1>2, <2>1
    <2> HIDE DEF l
    <2>4. cur + 1 <= Queued /\ (Faulted => l > 1)
        BY <1>3, <2>3
    <2>5. QED
        BY <2>2, <2>4 DEF l
<1>6. ASSUME Head(pipe)[1] \in Error
      PROVE  Faulted /\ Len(pipe) = 1 /\ rd = "failed" /\ cur = read
    <2>1. 1 = Len(pipe) /\ Faulted
        BY <1>1, <1>2, <1>4, <1>6
    <2>2. rd = "failed" /\ cur + 1 = Queued + 1 /\ Queued = read
        BY <1>2, <1>3, <2>1
    <2>3. QED
        BY <1>1, <2>1, <2>2
<1>7. QED
    BY <1>5, <1>6

\* What was written before stays as it was.
LEMMA Written ==
    ASSUME TypeOK, NEW x \in {"100", "response", "400"} \X (0..MaxReq), Write(x)
    PROVE  /\ out' \in Seq({"100", "response", "400"} \X (0..MaxReq))
           /\ Len(out) \in Nat /\ Len(out') = Len(out) + 1
           /\ DOMAIN out' = 1..(Len(out) + 1) /\ DOMAIN out = 1..Len(out)
           /\ out'[Len(out) + 1] = x /\ \A k \in DOMAIN out : out'[k] = out[k]
           /\ \A n \in 0..Len(out) : Answered(n)' = Answered(n)
           /\ \A n \in Nat : n = Len(out) + 1 =>
                 Answered(n)' = Answered(Len(out)) \cup IF x[1] = "response" THEN {x[2]} ELSE {}
<1> DEFINE X == {"100", "response", "400"} \X (0..MaxReq)
           l == Len(out)
<1>1. out \in Seq(X) /\ x \in X /\ out' = Append(out, x)
    BY DEF TypeOK, Write
<1> HIDE DEF X
<1>2. /\ out' \in Seq(X) /\ Len(out') = l + 1 /\ l \in Nat
      /\ DOMAIN out' = 1..(l + 1) /\ DOMAIN out = 1..l
      /\ \A k \in 1..l : out'[k] = out[k]
      /\ out'[l + 1] = x
    BY <1>1, AppendProperties, LenProperties
<1> HIDE DEF l
<1>3. ASSUME NEW n \in 0..l PROVE Answered(n)' = Answered(n)
    <2>1. \A j \in 1..n : out'[j] = out[j]
        BY <1>2
    <2>2. {out'[k][2] : k \in {j \in 1..n : out'[j][1] = "response"}}
            = {out[k][2] : k \in {j \in 1..n : out[j][1] = "response"}}
        BY <2>1
    <2>3. QED
        BY <2>2 DEF Answered
<1>4. {out'[k][2] : k \in {j \in 1..(l + 1) : out'[j][1] = "response"}} =
         {out[k][2] : k \in {j \in 1..l : out[j][1] = "response"}}
         \cup IF x[1] = "response" THEN {x[2]} ELSE {}
    <2>1. \A j : j \in 1..(l + 1) <=> (j \in 1..l \/ j = l + 1)
        BY <1>2
    <2>2. \A j \in 1..l : out'[j] = out[j]
        BY <1>2
    <2>3. QED
        BY <1>2, <2>1, <2>2
<1>5. ASSUME NEW n \in Nat, n = l + 1
      PROVE  Answered(n)' = Answered(l) \cup IF x[1] = "response" THEN {x[2]} ELSE {}
    BY <1>4, <1>5 DEF Answered
<1>6. QED
    BY <1>2, <1>3, <1>5 DEF l, X

-----------------------------------------------------------------------------
(* One step keeps each part.                                               *)

\* Every step keeps the types.
LEMMA TypeStep ==
    ASSUME TypeOK, ReaderInv, PipeInv, CoordinatorInv, EndInv, [Next]_vars
    PROVE  TypeOK'
<1> USE DEF TypeOK, reader, coordinator, Error, ReaderInv, EndInv, ReceiverGone, Ended,
            Reading
<1>1. ASSUME NEW k \in Kind, ReadHead(k) PROVE TypeOK'
    <2>1. /\ read + 1 \in 0..MaxReq /\ rd' = "enqueue"
          /\ kind' = [kind EXCEPT ![read + 1] = k]
        BY <1>1, MaxReqAssumption DEF ReadHead
    <2>2. UNCHANGED <<err, pipe, chan, decision, co, cur, reply, out, result>> /\ read' = read + 1
        BY <1>1 DEF ReadHead
    <2>3. QED
        BY <2>1, <2>2
<1>2. CASE ReadEof
    BY <1>2 DEF ReadEof
<1>3. ASSUME NEW e \in Error, HeadFault(e) PROVE TypeOK'
    BY <1>3 DEF HeadFault
<1>4. CASE Enqueue
    <2>1. /\ rd' \in {"closed", "body"}
          /\ UNCHANGED pipe \/ SendInbound(<<"request", read>>)
          /\ UNCHANGED <<read, kind, err, chan, decision, co, cur, reply, out, result>>
        BY <1>4 DEF Enqueue
    <2>2. <<"request", read>> \in ({"request"} \cup Error) \X (0..MaxReq)
        OBVIOUS
    <2>3. pipe' \in Seq(({"request"} \cup Error) \X (0..MaxReq))
        BY <2>1, <2>2, Put
    <2>4. QED
        BY <2>1, <2>3
<1>5. CASE BodyFrame
    <2>1. read \in Req /\ BodyRoom(read) /\ PutFrame(read)
          /\ UNCHANGED <<read, kind, rd, err, pipe, decision, co, cur, reply, out, result>>
        BY <1>5 DEF BodyFrame, Req
    <2>2. chan' \in [Req -> 0..1]
        BY <2>1 DEF BodyRoom, PutFrame
    <2>3. QED
        BY <2>1, <2>2
<1>6. CASE BodyEnd
    BY <1>6 DEF BodyEnd, AfterBody, AfterMessage
<1>7. ASSUME NEW e \in Error, BodyFault(e) PROVE TypeOK'
    <2>1. read \in Req /\ BodyRoom(read) /\ PutFrame(read) /\ rd' = "report" /\ err' = e
          /\ UNCHANGED <<read, kind, pipe, decision, co, cur, reply, out, result>>
        BY <1>7 DEF BodyFault, Req
    <2>2. chan' \in [Req -> 0..1]
        BY <2>1 DEF BodyRoom, PutFrame
    <2>3. QED
        BY <2>1, <2>2
<1>8. CASE Report
    <2>1. /\ rd' = "failed" /\ err \in Error
          /\ UNCHANGED pipe \/ SendInbound(<<err, read>>)
          /\ UNCHANGED <<read, kind, err, chan, decision, co, cur, reply, out, result>>
        BY <1>8 DEF Report
    <2>2. <<err, read>> \in ({"request"} \cup Error) \X (0..MaxReq)
        BY <2>1
    <2>3. pipe' \in Seq(({"request"} \cup Error) \X (0..MaxReq))
        BY <2>1, <2>2, Put
    <2>4. QED
        BY <2>1, <2>3
<1>9. CASE AwaitDecision
    BY <1>9 DEF AwaitDecision, AfterMessage
<1>10. CASE RecvRequest
    BY <1>10 DEF RecvRequest
<1>11. CASE RecvError
    BY <1>11 DEF RecvError
<1>12. CASE RecvClosed
    BY <1>12 DEF RecvClosed
<1>13. CASE WriteContinue
    BY <1>13 DEF WriteContinue, Write
<1>14. CASE ServiceReads
    <2>1. /\ cur \in Req /\ chan[cur] > 0 /\ chan' = [chan EXCEPT ![cur] = chan[cur] - 1]
          /\ UNCHANGED <<read, kind, rd, err, pipe, decision, co, cur, reply, out, result>>
        BY <1>14 DEF ServiceReads, CoordinatorInv, Req
    <2>2. chan[cur] - 1 \in 0..1
        BY <2>1
    <2>3. chan' \in [Req -> 0..1]
        BY <2>1, <2>2
    <2>4. QED
        BY <2>1, <2>3
<1>15. CASE ServiceFails
    BY <1>15 DEF ServiceFails, Fail
<1>16. ASSUME NEW accept \in BOOLEAN, NEW close \in BOOLEAN, Respond(accept, close)
      PROVE  TypeOK'
    BY <1>16 DEF Respond, Write
<1>17. CASE FinishResponse
    BY <1>17 DEF FinishResponse, Decide, AfterResponse
<1>18. CASE BadRequest
    <2>1. /\ Write(<<"400", 0>>) /\ co' = "stop"
          /\ UNCHANGED <<read, kind, rd, err, pipe, chan, decision, cur, reply, result>>
        BY <1>18 DEF BadRequest
    <2>2. <<"400", 0>> \in {"100", "response", "400"} \X (0..MaxReq)
        BY MaxReqAssumption
    <2>3. out' \in Seq({"100", "response", "400"} \X (0..MaxReq))
        BY <2>1, <2>2, Written
    <2>4. QED
        BY <2>1, <2>3
<1>19. CASE WriteFails
    BY <1>19 DEF WriteFails, Fail
<1>20. CASE Abort
    BY <1>20 DEF Abort
<1>21. CASE Join
    BY <1>21 DEF Join
<1>22. CASE Drop
    BY <1>22 DEF Drop
<1>23. CASE UNCHANGED vars
    BY <1>23 DEF vars
<1>24. QED
    BY <1>1, <1>2, <1>3, <1>4, <1>5, <1>6, <1>7, <1>8, <1>9, <1>10, <1>11,
       <1>12, <1>13, <1>14, <1>15, <1>16, <1>17, <1>18, <1>19, <1>20,
       <1>21, <1>22, <1>23
    DEF Next, ReaderStep, CoordinatorStep

\* The reader parses nothing past a request that is not settled.
LEMMA ReaderInvStep ==
    ASSUME TypeOK, ReaderInv, DecisionInv, CoordinatorInv, [Next]_vars
    PROVE  ReaderInv'
<1> USE DEF TypeOK, reader, coordinator, Error, ReaderInv, Settled, NothingParsedPast,
            DecisionInv, CoordinatorInv, ReceiverGone, Ended
<1>1. ASSUME NEW k \in Kind, ReadHead(k) PROVE ReaderInv'
    <2>1. /\ rd = "head" /\ read' = read + 1 /\ kind' = [kind EXCEPT ![read + 1] = k]
          /\ rd' = "enqueue" /\ read \in Nat
          /\ UNCHANGED <<decision, err, co>>
        BY <1>1 DEF ReadHead
    <2>2. ASSUME NEW i \in Req, i < read + 1
          PROVE  kind'[i] = kind[i] /\ (kind[i].upgrade => decision[i] = "no") /\ ~kind[i].close
        <3>1. i < read \/ (i = read /\ read > 0)
            BY <2>1, <2>2 DEF Req
        <3>2. kind'[i] = kind[i]
            BY <2>1, <2>2 DEF Req
        <3>3. QED
            BY <2>1, <3>1, <3>2
    <2>3. QED
        BY <2>1, <2>2
<1>2. CASE ReadEof
    BY <1>2 DEF ReadEof
<1>3. ASSUME NEW e \in Error, HeadFault(e) PROVE ReaderInv'
    BY <1>3 DEF HeadFault
<1>4. CASE Enqueue
    BY <1>4 DEF Enqueue
<1>5. CASE BodyFrame
    BY <1>5 DEF BodyFrame, PutFrame, BodyRoom
<1>6. CASE BodyEnd
    BY <1>6 DEF BodyEnd, AfterBody, AfterMessage
<1>7. ASSUME NEW e \in Error, BodyFault(e) PROVE ReaderInv'
    BY <1>7 DEF BodyFault, PutFrame, BodyRoom
<1>8. CASE Report
    BY <1>8 DEF Report
<1>9. CASE AwaitDecision
    BY <1>9 DEF AwaitDecision, AfterMessage
<1>10. CASE RecvRequest
    BY <1>10 DEF RecvRequest
<1>11. CASE RecvError
    BY <1>11 DEF RecvError
<1>12. CASE RecvClosed
    BY <1>12 DEF RecvClosed
<1>13. CASE WriteContinue
    BY <1>13 DEF WriteContinue, Write
<1>14. CASE ServiceReads
    BY <1>14 DEF ServiceReads
<1>15. CASE ServiceFails
    BY <1>15 DEF ServiceFails, Fail
<1>16. ASSUME NEW accept \in BOOLEAN, NEW close \in BOOLEAN, Respond(accept, close)
      PROVE  ReaderInv'
    BY <1>16 DEF Respond, Write
<1>17. CASE FinishResponse
    BY <1>17 DEF FinishResponse, Decide, AfterResponse
<1>18. CASE BadRequest
    BY <1>18 DEF BadRequest, Write
<1>19. CASE WriteFails
    BY <1>19 DEF WriteFails, Fail
<1>20. CASE Abort
    BY <1>20 DEF Abort
<1>21. CASE Join
    BY <1>21 DEF Join
<1>22. CASE Drop
    BY <1>22 DEF Drop
<1>23. CASE UNCHANGED vars
    BY <1>23 DEF vars
<1>24. QED
    BY <1>1, <1>2, <1>3, <1>4, <1>5, <1>6, <1>7, <1>8, <1>9, <1>10, <1>11,
       <1>12, <1>13, <1>14, <1>15, <1>16, <1>17, <1>18, <1>19, <1>20,
       <1>21, <1>22, <1>23
    DEF Next, ReaderStep, CoordinatorStep

\* The channel keeps the order.
LEMMA PipeStep ==
    ASSUME TypeOK, ReaderInv, PipeInv, CoordinatorInv, [Next]_vars
    PROVE  PipeInv'
<1> USE DEF TypeOK, reader, coordinator, ReaderInv, PipeInv, CoordinatorInv, Serving,
            Queued, Faulted, ReceiverGone, Ended
<1>1. ASSUME NEW k \in Kind, ReadHead(k) PROVE PipeInv'
    BY <1>1 DEF ReadHead
<1>2. CASE ReadEof
    BY <1>2 DEF ReadEof
<1>3. ASSUME NEW e \in Error, HeadFault(e) PROVE PipeInv'
    BY <1>3 DEF HeadFault
<1>4. CASE Enqueue
    <2>1. CASE ReceiverGone
        BY <1>4, <2>1 DEF Enqueue
    <2>2. CASE ~ReceiverGone
        <3>1. /\ rd = "enqueue" /\ SendInbound(<<"request", read>>) /\ rd' = "body"
              /\ UNCHANGED <<read, err, co, cur>>
            BY <1>4, <2>2 DEF Enqueue
        <3>2. <<"request", read>> \in ({"request"} \cup Error) \X (0..MaxReq)
            OBVIOUS
        <3>3. /\ Len(pipe') = Len(pipe) + 1 /\ Len(pipe) \in Nat
              /\ pipe'[Len(pipe) + 1] = <<"request", read>>
              /\ \A j \in 1..Len(pipe) : pipe'[j] = pipe[j]
            BY <3>1, <3>2, Put
        <3>4. SUFFICES ASSUME co \in Serving
              PROVE  /\ ~Faulted' /\ cur + Len(pipe') = read
                     /\ \A j \in 1..Len(pipe') : pipe'[j] = <<"request", cur + j>>
            BY <3>1
        <3>5. /\ ~Faulted /\ cur + Len(pipe) = read - 1
              /\ \A j \in 1..Len(pipe) : pipe[j] = <<"request", cur + j>>
            BY <3>1, <3>4
        <3> DEFINE l == Len(pipe)
        <3>6. cur + (l + 1) = read
            <4>1. l \in Nat /\ cur \in Nat /\ read \in Nat /\ cur + l = read - 1
                BY <3>3, <3>5
            <4> HIDE DEF l, TypeOK, ReaderInv, PipeInv, CoordinatorInv, Queued, Faulted
            <4>2. QED
                BY <4>1
        <3>7. ASSUME NEW j \in 1..(l + 1) PROVE pipe'[j] = <<"request", cur + j>>
            <4>1. CASE j = l + 1
                BY <3>3, <3>6, <4>1
            <4>2. CASE j # l + 1
                <5>1. j \in 1..l
                    BY <3>3, <4>2
                <5>2. QED
                    BY <3>3, <3>5, <5>1
            <4>3. QED
                BY <4>1, <4>2
        <3>8. pipe'[Len(pipe')][1] = "request"
            BY <3>3
        <3>9. QED
            BY <3>3, <3>6, <3>7, <3>8
    <2>3. QED
        BY <2>1, <2>2
<1>5. CASE BodyFrame
    BY <1>5 DEF BodyFrame, PutFrame, BodyRoom
<1>6. CASE BodyEnd
    BY <1>6 DEF BodyEnd, AfterBody, AfterMessage
<1>7. ASSUME NEW e \in Error, BodyFault(e) PROVE PipeInv'
    BY <1>7 DEF BodyFault, PutFrame, BodyRoom
<1>8. CASE Report
    <2>1. CASE ReceiverGone
        BY <1>8, <2>1 DEF Report
    <2>2. CASE ~ReceiverGone
        <3>1. /\ rd = "report" /\ SendInbound(<<err, read>>) /\ rd' = "failed" /\ err \in Error
              /\ UNCHANGED <<read, err, co, cur>>
            BY <1>8, <2>2 DEF Report
        <3>2. <<err, read>> \in ({"request"} \cup Error) \X (0..MaxReq)
            BY <3>1
        <3>3. /\ Len(pipe') = Len(pipe) + 1 /\ Len(pipe) \in Nat /\ pipe' # <<>>
              /\ pipe'[Len(pipe) + 1] = <<err, read>>
              /\ \A j \in 1..Len(pipe) : pipe'[j] = pipe[j]
            BY <3>1, <3>2, Put
        <3>4. SUFFICES ASSUME co \in Serving
              PROVE  /\ Faulted' /\ cur + Len(pipe') = read + 1
                     /\ \A j \in 1..Len(pipe') :
                           pipe'[j] = IF j = Len(pipe') THEN <<err, read>>
                                      ELSE <<"request", cur + j>>
            BY <3>1
        <3>5. /\ ~Faulted /\ cur + Len(pipe) = read
              /\ \A j \in 1..Len(pipe) : pipe[j] = <<"request", cur + j>>
            BY <3>1, <3>4
        <3> DEFINE l == Len(pipe)
        <3>6. cur + (l + 1) = read + 1
            <4>1. l \in Nat /\ cur \in Nat /\ read \in Nat /\ cur + l = read
                BY <3>3, <3>5
            <4> HIDE DEF l, TypeOK, ReaderInv, PipeInv, CoordinatorInv, Queued, Faulted
            <4>2. QED
                BY <4>1
        <3>7. ASSUME NEW j \in 1..(l + 1)
              PROVE  pipe'[j] = IF j = l + 1 THEN <<err, read>> ELSE <<"request", cur + j>>
            <4>1. CASE j = l + 1
                BY <3>3, <4>1
            <4>2. CASE j # l + 1
                <5>1. j \in 1..l
                    BY <3>3, <4>2
                <5>2. QED
                    BY <3>3, <3>5, <4>2, <5>1
            <4>3. QED
                BY <4>1, <4>2
        <3>8. pipe'[Len(pipe')][1] = err /\ err # "request"
            BY <3>1, <3>3 DEF Error
        <3>9. QED
            BY <3>3, <3>6, <3>7, <3>8
    <2>3. QED
        BY <2>1, <2>2
<1>9. CASE AwaitDecision
    BY <1>9 DEF AwaitDecision, AfterMessage
<1>10. CASE RecvRequest
    <2>1. /\ co = "recv" /\ pipe # <<>> /\ Head(pipe)[1] = "request"
          /\ cur' = Head(pipe)[2] /\ pipe' = Tail(pipe)
          /\ UNCHANGED <<read, rd, err>>
        BY <1>10 DEF RecvRequest
    <2>2. cur' = cur + 1 /\ (Faulted => Len(pipe) > 1)
        BY <2>1, NextInbound
    <2>3. /\ Len(pipe) \in Nat /\ Len(pipe) > 0 /\ Len(pipe') = Len(pipe) - 1
          /\ \A j \in 1..(Len(pipe) - 1) : pipe'[j] = pipe[j + 1]
        BY <2>1, Entries
    <2>4. /\ cur + Len(pipe) = IF Faulted THEN Queued + 1 ELSE Queued
          /\ \A j \in 1..Len(pipe) :
                pipe[j] = IF j = Len(pipe) /\ Faulted THEN <<err, read>> ELSE <<"request", cur + j>>
          /\ Faulted => rd = "failed"
        BY <2>1
    <2>5. Faulted' <=> Faulted
        <3>1. pipe' # <<>> <=> Len(pipe) > 1
            <4>1. pipe' \in Seq(({"request"} \cup Error) \X (0..MaxReq))
                BY <2>1, Entries
            <4>2. pipe' = <<>> <=> Len(pipe') = 0
                BY <4>1, EmptySeq
            <4>3. QED
                BY <2>3, <4>2
        <3>2. Len(pipe) > 1 => pipe'[Len(pipe')] = pipe[Len(pipe)]
            BY <2>3
        <3>3. QED
            BY <2>1, <2>2, <3>1, <3>2 DEF Faulted
    <2> HIDE DEF Faulted, Queued, TypeOK
    <2>6. Queued' = Queued
        BY <2>1 DEF Queued
    <2>7. cur' + Len(pipe') = IF Faulted' THEN Queued' + 1 ELSE Queued'
        <3> DEFINE l == Len(pipe)
                   m == Len(pipe')
        <3>1. l \in Nat /\ m = l - 1 /\ cur \in Nat
            BY <2>3 DEF TypeOK
        <3>2. cur + l = IF Faulted THEN Queued + 1 ELSE Queued
            BY <2>4
        <3> HIDE DEF l, m
        <3>3. (cur + 1) + m = cur + l
            BY <3>1
        <3>4. QED
            BY <2>2, <2>5, <2>6, <3>2, <3>3 DEF m
    <2>8. ASSUME NEW j \in 1..Len(pipe')
          PROVE  pipe'[j] = IF j = Len(pipe') /\ Faulted' THEN <<err', read'>>
                            ELSE <<"request", cur' + j>>
        <3>1. j \in 1..(Len(pipe) - 1) /\ j + 1 \in 1..Len(pipe) /\ cur \in Nat
            BY <2>3, <2>8 DEF TypeOK
        <3>2. /\ pipe'[j] = pipe[j + 1] /\ (j + 1 = Len(pipe) <=> j = Len(pipe'))
              /\ cur + (j + 1) = cur' + j
            BY <2>2, <2>3, <3>1
        <3>3. pipe[j + 1] = IF j + 1 = Len(pipe) /\ Faulted THEN <<err, read>>
                            ELSE <<"request", cur + (j + 1)>>
            BY <2>4, <3>1
        <3>4. QED
            BY <2>1, <2>5, <3>2, <3>3
    <2>9. QED
        BY <2>1, <2>4, <2>5, <2>7, <2>8
<1>11. CASE RecvError
    BY <1>11 DEF RecvError
<1>12. CASE RecvClosed
    BY <1>12 DEF RecvClosed
<1>13. CASE WriteContinue
    BY <1>13 DEF WriteContinue, Write
<1>14. CASE ServiceReads
    BY <1>14 DEF ServiceReads
<1>15. CASE ServiceFails
    BY <1>15 DEF ServiceFails, Fail
<1>16. ASSUME NEW accept \in BOOLEAN, NEW close \in BOOLEAN, Respond(accept, close)
      PROVE  PipeInv'
    BY <1>16 DEF Respond, Write
<1>17. CASE FinishResponse
    BY <1>17 DEF FinishResponse, Decide, AfterResponse
<1>18. CASE BadRequest
    BY <1>18 DEF BadRequest, Write
<1>19. CASE WriteFails
    BY <1>19 DEF WriteFails, Fail
<1>20. CASE Abort
    BY <1>20 DEF Abort
<1>21. CASE Join
    BY <1>21 DEF Join
<1>22. CASE Drop
    BY <1>22 DEF Drop
<1>23. CASE UNCHANGED vars
    BY <1>23 DEF vars
<1>24. QED
    BY <1>1, <1>2, <1>3, <1>4, <1>5, <1>6, <1>7, <1>8, <1>9, <1>10, <1>11,
       <1>12, <1>13, <1>14, <1>15, <1>16, <1>17, <1>18, <1>19, <1>20,
       <1>21, <1>22, <1>23
    DEF Next, ReaderStep, CoordinatorStep

\* An upgrade is decided once, after the response to it.
LEMMA DecisionStep ==
    ASSUME TypeOK, ReaderInv, PipeInv, DecisionInv, CoordinatorInv, [Next]_vars
    PROVE  DecisionInv'
<1> USE DEF TypeOK, reader, coordinator, ReaderInv, NothingParsedPast, Settled,
            DecisionInv, CoordinatorInv
<1>1. ASSUME NEW k \in Kind, ReadHead(k) PROVE DecisionInv'
    <2>1. /\ rd = "head" /\ read' = read + 1 /\ kind' = [kind EXCEPT ![read + 1] = k]
          /\ read \in Nat /\ cur \in Nat /\ cur <= read
          /\ UNCHANGED <<decision, co, cur>>
        BY <1>1 DEF ReadHead
    <2>2. ASSUME NEW i \in Req, decision[i] # "none"
          PROVE  kind'[i] = kind[i] /\ (decision[i] = "yes" => i # read)
        <3>1. i <= cur /\ kind[i].upgrade
            BY <2>2
        <3>2. i # read + 1 /\ i \in Nat /\ i > 0
            BY <2>1, <3>1 DEF Req
        <3>3. kind'[i] = kind[i]
            BY <2>1, <3>2
        <3>4. i = read => decision[i] = "no"
            BY <2>1, <3>1, <3>2
        <3>5. QED
            BY <3>3, <3>4
    <2>3. QED
        BY <2>1, <2>2
<1>2. CASE ReadEof
    BY <1>2 DEF ReadEof
<1>3. ASSUME NEW e \in Error, HeadFault(e) PROVE DecisionInv'
    BY <1>3 DEF HeadFault
<1>4. CASE Enqueue
    BY <1>4 DEF Enqueue
<1>5. CASE BodyFrame
    BY <1>5 DEF BodyFrame, PutFrame, BodyRoom
<1>6. CASE BodyEnd
    BY <1>6 DEF BodyEnd, AfterBody, AfterMessage
<1>7. ASSUME NEW e \in Error, BodyFault(e) PROVE DecisionInv'
    BY <1>7 DEF BodyFault, PutFrame, BodyRoom
<1>8. CASE Report
    BY <1>8 DEF Report
<1>9. CASE AwaitDecision
    BY <1>9 DEF AwaitDecision, AfterMessage
<1>10. CASE RecvRequest
    <2>1. /\ co = "recv" /\ pipe # <<>> /\ Head(pipe)[1] = "request"
          /\ cur' = Head(pipe)[2] /\ co' \in {"continue", "call"}
          /\ UNCHANGED <<read, kind, decision>>
        BY <1>10 DEF RecvRequest
    <2>2. cur' = cur + 1 /\ cur \in Nat
        BY <2>1, NextInbound
    <2>3. ASSUME NEW i \in Req, decision[i] # "none"
          PROVE  i <= cur /\ i <= cur' /\ i # cur' /\ kind[i].upgrade /\ decision[i] # "yes"
        <3>1. i <= cur /\ kind[i].upgrade /\ decision[i] # "yes" /\ i \in Nat
            BY <2>1, <2>3 DEF Req
        <3>2. QED
            BY <2>2, <3>1
    <2>4. QED
        BY <2>1, <2>3
<1>11. CASE RecvError
    BY <1>11 DEF RecvError
<1>12. CASE RecvClosed
    BY <1>12 DEF RecvClosed
<1>13. CASE WriteContinue
    BY <1>13 DEF WriteContinue, Write
<1>14. CASE ServiceReads
    BY <1>14 DEF ServiceReads
<1>15. CASE ServiceFails
    BY <1>15 DEF ServiceFails, Fail
<1>16. ASSUME NEW accept \in BOOLEAN, NEW close \in BOOLEAN, Respond(accept, close)
      PROVE  DecisionInv'
    BY <1>16 DEF Respond, Write
<1>17. CASE FinishResponse
    <2>1. /\ co = "write" /\ cur \in Req /\ cur <= read
          /\ UNCHANGED <<read, kind, cur, reply>>
          /\ co' = IF reply.accept THEN "upgraded" ELSE IF reply.close THEN "stop" ELSE "recv"
        BY <1>17 DEF FinishResponse, AfterResponse, Req
    <2>2. CASE ~kind[cur].upgrade
        <3>1. ~reply.accept /\ decision' = decision /\ co' \in {"stop", "recv"}
            BY <1>17, <2>1, <2>2 DEF FinishResponse, Decide
        <3>2. QED
            BY <2>1, <3>1
    <2>3. CASE kind[cur].upgrade
        <3>1. decision' = [decision EXCEPT ![cur] = IF reply.accept THEN "yes" ELSE "no"]
            BY <1>17, <2>3 DEF FinishResponse, Decide
        <3>2. decision[cur] = "none"
            BY <2>1
        <3>3. cur = read
            <4>1. ~(cur < read)
                BY <2>1, <2>3, <3>2
            <4>2. QED
                BY <2>1, <4>1 DEF Req
        <3>4. ASSUME NEW i \in Req, decision'[i] # "none"
              PROVE  /\ i <= cur /\ kind[i].upgrade
                     /\ decision'[i] = "yes" => i = cur /\ reply.accept
            BY <2>1, <2>3, <3>1, <3>4 DEF Req
        <3>5. reply.accept => decision'[cur] = "yes"
            BY <2>1, <3>1
        <3>6. QED
            BY <2>1, <3>3, <3>4, <3>5 DEF Req
    <2>4. QED
        BY <2>2, <2>3
<1>18. CASE BadRequest
    BY <1>18 DEF BadRequest, Write
<1>19. CASE WriteFails
    BY <1>19 DEF WriteFails, Fail
<1>20. CASE Abort
    BY <1>20 DEF Abort
<1>21. CASE Join
    BY <1>21 DEF Join
<1>22. CASE Drop
    BY <1>22 DEF Drop
<1>23. CASE UNCHANGED vars
    BY <1>23 DEF vars
<1>24. QED
    BY <1>1, <1>2, <1>3, <1>4, <1>5, <1>6, <1>7, <1>8, <1>9, <1>10, <1>11,
       <1>12, <1>13, <1>14, <1>15, <1>16, <1>17, <1>18, <1>19, <1>20,
       <1>21, <1>22, <1>23
    DEF Next, ReaderStep, CoordinatorStep

\* The coordinator answers what the reader has parsed.
LEMMA CoordinatorInvStep ==
    ASSUME TypeOK, ReaderInv, PipeInv, DecisionInv, CoordinatorInv, EndInv, [Next]_vars
    PROVE  CoordinatorInv'
<1> USE DEF TypeOK, reader, coordinator, Error, ReaderInv, DecisionInv, CoordinatorInv,
            Serving, EndInv, Ended, ReceiverGone, Faulted
<1>1. ASSUME NEW k \in Kind, ReadHead(k) PROVE CoordinatorInv'
    BY <1>1 DEF ReadHead
<1>2. CASE ReadEof
    BY <1>2 DEF ReadEof
<1>3. ASSUME NEW e \in Error, HeadFault(e) PROVE CoordinatorInv'
    BY <1>3 DEF HeadFault
<1>4. CASE Enqueue
    BY <1>4 DEF Enqueue
<1>5. CASE BodyFrame
    BY <1>5 DEF BodyFrame, PutFrame, BodyRoom
<1>6. CASE BodyEnd
    BY <1>6 DEF BodyEnd, AfterBody, AfterMessage
<1>7. ASSUME NEW e \in Error, BodyFault(e) PROVE CoordinatorInv'
    BY <1>7 DEF BodyFault, PutFrame, BodyRoom
<1>8. CASE Report
    <2>1. CASE ReceiverGone
        BY <1>8, <2>1 DEF Report
    <2>2. CASE ~ReceiverGone
        <3>1. /\ rd = "report" /\ SendInbound(<<err, read>>) /\ rd' = "failed" /\ err \in Error
              /\ UNCHANGED <<read, kind, co, cur, reply>>
            BY <1>8, <2>2 DEF Report
        <3>2. <<err, read>> \in ({"request"} \cup Error) \X (0..MaxReq)
            BY <3>1
        <3>3. /\ Len(pipe') = Len(pipe) + 1 /\ pipe' # <<>>
              /\ pipe'[Len(pipe) + 1] = <<err, read>>
            BY <3>1, <3>2, Put
        <3>4. Faulted'
            BY <3>1, <3>3
        <3>5. QED
            BY <3>1, <3>4
    <2>3. QED
        BY <2>1, <2>2
<1>9. CASE AwaitDecision
    BY <1>9 DEF AwaitDecision, AfterMessage
<1>10. CASE RecvRequest
    <2>1. /\ co = "recv" /\ pipe # <<>> /\ Head(pipe)[1] = "request"
          /\ cur' = Head(pipe)[2] /\ co' \in {"continue", "call"} /\ pipe' = Tail(pipe)
          /\ co' = "continue" => kind[cur'].expect
          /\ UNCHANGED <<read, kind, rd, reply>>
        BY <1>10 DEF RecvRequest
    <2>2. /\ cur' = cur + 1 /\ cur \in Nat /\ cur + 1 <= Queued /\ Queued <= read
          /\ Faulted => Len(pipe) > 1
        <3>1. Queued <= read
            BY DEF Queued
        <3>2. QED
            BY <2>1, <3>1, NextInbound
    <2>3. /\ Len(pipe) \in Nat /\ Len(pipe') = Len(pipe) - 1
          /\ \A j \in 1..(Len(pipe) - 1) : pipe'[j] = pipe[j + 1]
        BY <2>1, Entries
    <2>4. Faulted => Faulted'
        <3>1. SUFFICES ASSUME Faulted PROVE Faulted'
            OBVIOUS
        <3>2. Len(pipe') # 0 /\ pipe'[Len(pipe')] = pipe[Len(pipe)]
            <4>1. PICK l \in Nat : l = Len(pipe)
                BY <2>3
            <4>2. l > 1 /\ Len(pipe') = l - 1
                BY <2>2, <2>3, <3>1, <4>1
            <4>3. l - 1 \in 1..(l - 1) /\ (l - 1) + 1 = l
                BY <4>2
            <4>4. pipe'[l - 1] = pipe[l]
                BY <2>3, <4>1, <4>3
            <4>5. l - 1 # 0
                BY <4>2
            <4>6. QED
                BY <4>1, <4>2, <4>4, <4>5
        <3>3. pipe' # <<>>
            BY <3>2, EmptySeq
        <3>4. QED
            BY <3>1, <3>2, <3>3
    <2>5. cur' <= read /\ cur' > 0
        BY <2>2 DEF Queued
    <2>6. QED
        BY <2>1, <2>4, <2>5
<1>11. CASE RecvError
    <2>1. /\ co = "recv" /\ pipe # <<>> /\ Head(pipe)[1] \in Error /\ co' \in {"bad", "error"}
          /\ UNCHANGED <<read, kind, rd, cur, reply>>
        BY <1>11 DEF RecvError
    <2>2. rd = "failed" /\ cur = read
        BY <2>1, NextInbound
    <2>3. QED
        BY <2>1, <2>2
<1>12. CASE RecvClosed
    <2>1. /\ co = "recv" /\ pipe = <<>> /\ rd \in Ended /\ co' = "closed"
          /\ UNCHANGED <<read, kind, rd, cur, reply, pipe>>
        BY <1>12 DEF RecvClosed
    <2>2. rd # "failed"
        BY <2>1
    <2>3. rd # "upgrade"
        <3>1. SUFFICES ASSUME rd = "upgrade" PROVE FALSE
            OBVIOUS
        <3>2. read \in Req /\ decision[read] = "yes"
            BY <3>1 DEF Req
        <3>3. QED
            BY <2>1, <3>2
    <2>4. rd # "aborted"
        BY <2>1
    <2>5. rd = "closed"
        BY <2>1, <2>2, <2>3, <2>4
    <2>6. QED
        BY <2>1, <2>5
<1>13. CASE WriteContinue
    BY <1>13 DEF WriteContinue, Write
<1>14. CASE ServiceReads
    BY <1>14 DEF ServiceReads
<1>15. CASE ServiceFails
    BY <1>15 DEF ServiceFails, Fail
<1>16. ASSUME NEW accept \in BOOLEAN, NEW close \in BOOLEAN, Respond(accept, close)
      PROVE  CoordinatorInv'
    BY <1>16 DEF Respond, Write
<1>17. CASE FinishResponse
    BY <1>17 DEF FinishResponse, Decide, AfterResponse
<1>18. CASE BadRequest
    BY <1>18 DEF BadRequest, Write
<1>19. CASE WriteFails
    BY <1>19 DEF WriteFails, Fail
<1>20. CASE Abort
    BY <1>20 DEF Abort
<1>21. CASE Join
    BY <1>21 DEF Join
<1>22. CASE Drop
    BY <1>22 DEF Drop
<1>23. CASE UNCHANGED vars
    BY <1>23 DEF vars
<1>24. QED
    BY <1>1, <1>2, <1>3, <1>4, <1>5, <1>6, <1>7, <1>8, <1>9, <1>10, <1>11,
       <1>12, <1>13, <1>14, <1>15, <1>16, <1>17, <1>18, <1>19, <1>20,
       <1>21, <1>22, <1>23
    DEF Next, ReaderStep, CoordinatorStep

\* Both tasks end the connection in the same way.
LEMMA EndStep ==
    ASSUME TypeOK, ReaderInv, DecisionInv, CoordinatorInv, EndInv, [Next]_vars
    PROVE  EndInv'
<1> USE DEF TypeOK, reader, coordinator, ReaderInv, DecisionInv, CoordinatorInv,
            EndInv, EndsAgree, Ended
<1>1. ASSUME NEW k \in Kind, ReadHead(k) PROVE EndInv'
    BY <1>1 DEF ReadHead
<1>2. CASE ReadEof
    BY <1>2 DEF ReadEof
<1>3. ASSUME NEW e \in Error, HeadFault(e) PROVE EndInv'
    BY <1>3 DEF HeadFault
<1>4. CASE Enqueue
    BY <1>4 DEF Enqueue
<1>5. CASE BodyFrame
    BY <1>5 DEF BodyFrame, PutFrame, BodyRoom
<1>6. CASE BodyEnd
    BY <1>6 DEF BodyEnd, AfterBody, AfterMessage
<1>7. ASSUME NEW e \in Error, BodyFault(e) PROVE EndInv'
    BY <1>7 DEF BodyFault, PutFrame, BodyRoom
<1>8. CASE Report
    BY <1>8 DEF Report
<1>9. CASE AwaitDecision
    BY <1>9 DEF AwaitDecision, AfterMessage
<1>10. CASE RecvRequest
    BY <1>10 DEF RecvRequest
<1>11. CASE RecvError
    BY <1>11 DEF RecvError
<1>12. CASE RecvClosed
    BY <1>12 DEF RecvClosed
<1>13. CASE WriteContinue
    BY <1>13 DEF WriteContinue, Write
<1>14. CASE ServiceReads
    BY <1>14 DEF ServiceReads
<1>15. CASE ServiceFails
    BY <1>15 DEF ServiceFails, Fail
<1>16. ASSUME NEW accept \in BOOLEAN, NEW close \in BOOLEAN, Respond(accept, close)
      PROVE  EndInv'
    BY <1>16 DEF Respond, Write
<1>17. CASE FinishResponse
    BY <1>17 DEF FinishResponse, Decide, AfterResponse
<1>18. CASE BadRequest
    BY <1>18 DEF BadRequest, Write
<1>19. CASE WriteFails
    BY <1>19 DEF WriteFails, Fail
<1>20. CASE Abort
    <2>1. /\ co \in {"stop", "error"} /\ result = "none" /\ result' \in {"closed", "error"}
          /\ rd' = IF rd \in Ended THEN rd ELSE "aborted"
          /\ co' = co
        BY <1>20 DEF Abort
    <2>2. rd # "upgrade"
        <3>1. SUFFICES ASSUME rd = "upgrade" PROVE FALSE
            OBVIOUS
        <3>2. read \in Req /\ decision[read] = "yes"
            BY <3>1 DEF Req
        <3>3. QED
            BY <2>1, <3>2
    <2>3. QED
        BY <2>1, <2>2
<1>21. CASE Join
    <2>1. /\ co \in {"closed", "upgraded"} /\ result = "none" /\ rd \in Ended
          /\ UNCHANGED <<rd, co>>
          /\ result' = CASE rd = "failed"  -> "error"
                         [] rd = "closed"  -> "closed"
                         [] rd = "upgrade" -> IF co = "upgraded" THEN "upgraded" ELSE "unmatched"
        BY <1>21 DEF Join
    <2>2. rd # "aborted"
        BY <2>1
    <2>3. CASE co = "closed"
        <3>1. rd = "closed"
            BY <2>3
        <3>2. result' = "closed"
            BY <2>1, <3>1
        <3>3. QED
            BY <2>1, <2>3, <3>1, <3>2
    <2>4. CASE co = "upgraded"
        <3>1. cur \in Req /\ decision[cur] = "yes"
            BY <2>4 DEF Req
        <3>2. cur = read /\ kind[cur].upgrade
            BY <3>1
        <3>3. rd # "closed"
            BY <2>4, <3>1, <3>2 DEF Req
        <3>4. CASE rd = "failed"
            <4>1. result' = "error"
                BY <2>1, <3>4
            <4>2. QED
                BY <2>1, <2>4, <3>4, <4>1
        <3>5. CASE rd = "upgrade"
            <4>1. result' = "upgraded"
                BY <2>1, <2>4, <3>5
            <4>2. QED
                BY <2>1, <2>4, <3>5, <4>1
        <3>6. QED
            BY <2>1, <2>2, <3>3, <3>4, <3>5
    <2>5. QED
        BY <2>1, <2>3, <2>4
<1>22. CASE Drop
    BY <1>22 DEF Drop
<1>23. CASE UNCHANGED vars
    BY <1>23 DEF vars
<1>24. QED
    BY <1>1, <1>2, <1>3, <1>4, <1>5, <1>6, <1>7, <1>8, <1>9, <1>10, <1>11,
       <1>12, <1>13, <1>14, <1>15, <1>16, <1>17, <1>18, <1>19, <1>20,
       <1>21, <1>22, <1>23
    DEF Next, ReaderStep, CoordinatorStep

\* A step that writes nothing keeps what was written in order.
LEMMA OutFrame ==
    ASSUME TypeOK, OutInv, UNCHANGED out, cur' \in Nat, cur <= cur',
           \A i \in Req : i <= cur => kind'[i].expect = kind[i].expect,
           rd = "failed" => rd' = "failed" /\ read' = read,
           co \in {"stop", "dropped"} => co' \in {"stop", "dropped"},
           co' \in Serving \cup {"bad"} => co \in Serving \cup {"bad"} /\ Served' = Served
    PROVE  OutInv'
<1>1. \A n : Answered(n)' = Answered(n)
    BY DEF Answered
<1>2. co' \in Serving \cup {"bad"} => Answered(Len(out))' = 1..Served'
    BY <1>1 DEF OutInv, Answered
<1>3. ASSUME NEW k \in DOMAIN out
      PROVE  /\ out[k][2] \in 0..MaxReq
             /\ out[k][2] <= cur' /\ (out[k][1] # "400" => out[k][2] > 0)
             /\ out[k][1] = "400" => rd' = "failed" /\ read' = read /\ co' \in {"stop", "dropped"}
    <2>1. out[k] \in {"100", "response", "400"} \X (0..MaxReq)
        BY ElementOfSeq, LenProperties DEF TypeOK
    <2>2. out[k][2] \in 0..MaxReq /\ out[k][2] <= cur /\ cur \in Nat
        BY <2>1 DEF OutInv, TypeOK
    <2>3. out[k][2] <= cur'
        BY <2>2
    <2>4. QED
        BY <2>2, <2>3 DEF OutInv
<1>4. ASSUME NEW k \in DOMAIN out
      PROVE  \/ out[k][1] = "400" /\ k = Len(out) /\ Answered(k) = 1..read'
             \/ out[k][1] = "response" /\ Answered(k - 1) = 1..(out[k][2] - 1)
             \/ out[k][1] = "100" /\ kind'[out[k][2]].expect
                /\ Answered(k - 1) = 1..(out[k][2] - 1)
    <2>1. \/ out[k][1] = "400" /\ k = Len(out) /\ Answered(k) = 1..read
          \/ out[k][1] = "response" /\ Answered(k - 1) = 1..(out[k][2] - 1)
          \/ out[k][1] = "100" /\ kind[out[k][2]].expect
             /\ Answered(k - 1) = 1..(out[k][2] - 1)
        BY DEF OutInv, InOrder
    <2>2. out[k][1] # "400" => out[k][2] \in Req /\ out[k][2] <= cur
        BY <1>3 DEF OutInv, Req
    <2>3. QED
        BY <1>3, <2>1, <2>2
<1>5. InOrder'
    BY <1>1, <1>4 DEF InOrder
<1>6. QED
    BY <1>2, <1>3, <1>5 DEF OutInv

\* What is written for the request taken last comes after everything before it.
LEMMA OutWrite ==
    ASSUME TypeOK, CoordinatorInv, OutInv, co \in {"continue", "call", "bad"},
           UNCHANGED <<read, kind, rd, cur>>,
           NEW x \in {"100", "response", "400"} \X (0..MaxReq), Write(x),
           \/ co = "continue" /\ x = <<"100", cur>> /\ kind[cur].expect /\ co' = "call"
           \/ co = "call" /\ x = <<"response", cur>> /\ co' = "write"
           \/ co = "bad" /\ x = <<"400", 0>> /\ co' = "stop"
    PROVE  OutInv'
<1>1. /\ Len(out) \in Nat /\ Len(out') = Len(out) + 1
      /\ DOMAIN out' = 1..(Len(out) + 1) /\ DOMAIN out = 1..Len(out)
      /\ out'[Len(out) + 1] = x /\ \A k \in DOMAIN out : out'[k] = out[k]
      /\ \A n \in 0..Len(out) : Answered(n)' = Answered(n)
      /\ \A n \in Nat : n = Len(out) + 1 =>
            Answered(n)' = Answered(Len(out)) \cup IF x[1] = "response" THEN {x[2]} ELSE {}
    BY Written
<1>2. /\ Answered(Len(out)) = 1..Served /\ cur \in Nat /\ read \in Nat
      /\ co # "bad" => Served = cur - 1 /\ cur > 0
      /\ co = "bad" => Served = cur /\ cur = read /\ rd = "failed"
    BY DEF OutInv, Serving, Served, CoordinatorInv, TypeOK
<1>3. PICK l \in Nat : l = Len(out)
    BY <1>1
<1>4. /\ x[1] = "response" => Answered(l + 1)' = 1..cur
      /\ x[1] # "response" => Answered(l + 1)' = 1..Served
    <2>1. Answered(l + 1)' = Answered(Len(out)) \cup IF x[1] = "response" THEN {x[2]} ELSE {}
        BY <1>1, <1>3
    <2>2. x[1] = "response" => x[2] = cur /\ 1..(cur - 1) \cup {cur} = 1..cur
        BY <1>2
    <2>3. QED
        BY <1>2, <2>1, <2>2
<1>5. co' \in Serving \cup {"bad"} => Answered(Len(out))' = 1..Served'
    <2>1. Answered(Len(out))' = Answered(l + 1)'
        BY <1>1, <1>3 DEF Answered
    <2>2. co' = "write" => Served' = cur
        BY DEF Served
    <2>3. co' = "call" => Served' = Served
        BY DEF Served
    <2>4. QED
        BY <1>4, <2>1, <2>2, <2>3 DEF Serving
<1>6. ASSUME NEW k \in DOMAIN out'
      PROVE  /\ out'[k][2] <= cur /\ (out'[k][1] # "400" => out'[k][2] > 0)
             /\ out'[k][1] = "400" => rd = "failed" /\ co' = "stop" /\ k = l + 1
             /\ \/ out'[k][1] = "400" /\ k = l + 1 /\ Answered(k)' = 1..read
                \/ out'[k][1] = "response" /\ Answered(k - 1)' = 1..(out'[k][2] - 1)
                \/ out'[k][1] = "100" /\ kind[out'[k][2]].expect
                   /\ Answered(k - 1)' = 1..(out'[k][2] - 1)
    <2>1. CASE k = l + 1
        <3>1. out'[k] = x /\ k - 1 = l /\ Answered(l)' = 1..Served
            BY <1>1, <1>2, <1>3, <2>1
        <3>2. QED
            BY <1>2, <1>4, <2>1, <3>1
    <2>2. CASE k # l + 1
        <3>1. k \in DOMAIN out /\ out'[k] = out[k] /\ k - 1 \in 0..Len(out)
            BY <1>1, <1>3, <2>2
        <3>2. Answered(k - 1)' = Answered(k - 1)
            BY <1>1, <3>1
        <3>3. out[k][1] # "400"
            BY <3>1 DEF OutInv
        <3>4. QED
            BY <3>1, <3>2, <3>3 DEF OutInv, InOrder
    <2>3. QED
        BY <2>1, <2>2
<1>7. InOrder'
    BY <1>1, <1>3, <1>6 DEF InOrder
<1>8. QED
    BY <1>5, <1>6, <1>7 DEF OutInv

\* What is written is in order.
LEMMA OutStep ==
    ASSUME TypeOK, ReaderInv, PipeInv, CoordinatorInv, EndInv, OutInv, TypeOK', [Next]_vars
    PROVE  OutInv'
<1> cur \in Nat /\ read \in Nat /\ cur <= read
    BY DEF TypeOK, CoordinatorInv
<1> USE DEF reader, coordinator, Serving, Served
<1>1. ASSUME NEW k \in Kind, ReadHead(k) PROVE OutInv'
    <2>1. /\ rd = "head" /\ kind' = [kind EXCEPT ![read + 1] = k]
          /\ UNCHANGED <<co, cur, out>>
        BY <1>1 DEF ReadHead
    <2>2. \A i \in Req : i <= cur => kind'[i].expect = kind[i].expect
        BY <2>1 DEF Req, TypeOK
    <2>3. QED
        BY <2>1, <2>2, OutFrame
<1>2. ASSUME NEW e \in Error, HeadFault(e) PROVE OutInv'
    BY <1>2, OutFrame DEF HeadFault
<1>3. ASSUME NEW e \in Error, BodyFault(e) PROVE OutInv'
    BY <1>3, OutFrame DEF BodyFault
<1>4. CASE ReadEof
    BY <1>4, OutFrame DEF ReadEof
<1>5. CASE Enqueue
    BY <1>5, OutFrame DEF Enqueue
<1>6. CASE BodyFrame
    BY <1>6, OutFrame DEF BodyFrame
<1>7. CASE BodyEnd
    BY <1>7, OutFrame DEF BodyEnd, AfterBody, AfterMessage
<1>8. CASE Report
    BY <1>8, OutFrame DEF Report
<1>9. CASE AwaitDecision
    BY <1>9, OutFrame DEF AwaitDecision, AfterMessage
<1>10. CASE RecvError
    BY <1>10, OutFrame DEF RecvError
<1>11. CASE RecvClosed
    BY <1>11, OutFrame DEF RecvClosed
<1>12. CASE ServiceReads
    BY <1>12, OutFrame DEF ServiceReads
<1>13. CASE ServiceFails
    BY <1>13, OutFrame DEF ServiceFails, Fail
<1>14. CASE FinishResponse
    BY <1>14, OutFrame DEF FinishResponse, AfterResponse
<1>15. CASE WriteFails
    BY <1>15, OutFrame DEF WriteFails, Fail
<1>16. CASE Join
    BY <1>16, OutFrame DEF Join
<1>17. CASE Drop
    BY <1>17, OutFrame DEF Drop
<1>18. CASE Abort
    BY <1>18, OutFrame DEF Abort, Ended
<1>19. CASE RecvRequest
    <2>1. /\ co = "recv" /\ pipe # <<>> /\ Head(pipe)[1] = "request"
          /\ cur' = Head(pipe)[2] /\ co' \in {"continue", "call"}
          /\ UNCHANGED <<read, kind, rd, out>>
        BY <1>19 DEF RecvRequest
    <2>2. cur' = cur + 1
        BY <2>1, NextInbound
    <2>3. QED
        BY <2>1, <2>2, OutFrame
<1>20. CASE WriteContinue
    <2>1. /\ co = "continue" /\ Write(<<"100", cur>>) /\ co' = "call"
          /\ UNCHANGED <<read, kind, rd, cur>>
        BY <1>20 DEF WriteContinue
    <2>2. kind[cur].expect /\ <<"100", cur>> \in {"100", "response", "400"} \X (0..MaxReq)
        BY <2>1 DEF CoordinatorInv, TypeOK
    <2>3. QED
        BY <2>1, <2>2, OutWrite
<1>21. ASSUME NEW accept \in BOOLEAN, NEW close \in BOOLEAN, Respond(accept, close)
      PROVE  OutInv'
    <2>1. /\ co = "call" /\ Write(<<"response", cur>>) /\ co' = "write"
          /\ UNCHANGED <<read, kind, rd, cur>>
        BY <1>21 DEF Respond
    <2>2. <<"response", cur>> \in {"100", "response", "400"} \X (0..MaxReq)
        BY DEF TypeOK
    <2>3. QED
        BY <2>1, <2>2, OutWrite
<1>22. CASE BadRequest
    <2>1. /\ co = "bad" /\ Write(<<"400", 0>>) /\ co' = "stop"
          /\ UNCHANGED <<read, kind, rd, cur>>
        BY <1>22 DEF BadRequest
    <2>2. <<"400", 0>> \in {"100", "response", "400"} \X (0..MaxReq)
        BY MaxReqAssumption
    <2>3. QED
        BY <2>1, <2>2, OutWrite
<1>23. CASE UNCHANGED vars
    BY <1>23, OutFrame DEF vars
<1>24. QED
    BY <1>1, <1>2, <1>3, <1>4, <1>5, <1>6, <1>7, <1>8, <1>9, <1>10, <1>11, <1>12,
       <1>13, <1>14, <1>15, <1>16, <1>17, <1>18, <1>19, <1>20, <1>21, <1>22, <1>23
    DEF Next, ReaderStep, CoordinatorStep

-----------------------------------------------------------------------------
(* The theorems.                                                           *)

\* The initial states satisfy the inductive invariant.
LEMMA InitIInv == Init => IInv
<1>1. SUFFICES ASSUME Init PROVE IInv
    OBVIOUS
<1>2. /\ read = 0 /\ kind = [i \in Req |-> NoKind] /\ rd = "head" /\ err = "none"
      /\ pipe = <<>> /\ chan = [i \in Req |-> 0] /\ decision = [i \in Req |-> "none"]
      /\ co = "recv" /\ cur = 0 /\ reply = [accept |-> FALSE, close |-> FALSE]
      /\ out = <<>> /\ result = "none"
    BY <1>1 DEF Init
<1>3. Len(<<>>) = 0 /\ 0 \in 0..MaxReq /\ NoKind \in Kind /\ \A S : <<>> \in Seq(S)
    BY MaxReqAssumption, EmptySeq DEF NoKind, Kind
<1>4. TypeOK
    BY <1>2, <1>3 DEF TypeOK, Reading
<1>5. ReaderInv
    BY <1>2, MaxReqAssumption DEF ReaderInv, NothingParsedPast, Req
<1>6. PipeInv
    BY <1>2, <1>3 DEF PipeInv, Faulted, Queued
<1>7. DecisionInv /\ CoordinatorInv /\ EndInv
    BY <1>2 DEF DecisionInv, CoordinatorInv, EndInv, EndsAgree, Serving
<1>8. OutInv
    <2>1. \A n : Answered(0) = {} /\ 1..0 = {} /\ DOMAIN out = {}
        BY <1>2 DEF Answered
    <2>2. QED
        BY <1>2, <1>3, <2>1 DEF OutInv, InOrder, Served
<1>9. QED
    BY <1>4, <1>5, <1>6, <1>7, <1>8 DEF IInv

\* However far the reader reads ahead of the coordinator, and wherever either
\* task fails, every state of the connection satisfies the invariant.
THEOREM Invariance == Spec => []IInv
<1>1. Init => IInv
    BY InitIInv
<1>2. IInv /\ [Next]_vars => IInv'
    <2>1. SUFFICES ASSUME IInv, [Next]_vars PROVE IInv'
        OBVIOUS
    <2>2. /\ TypeOK /\ ReaderInv /\ PipeInv /\ DecisionInv /\ CoordinatorInv /\ EndInv /\ OutInv
        BY <2>1 DEF IInv
    <2>3. TypeOK' /\ ReaderInv' /\ PipeInv' /\ DecisionInv'
        BY <2>1, <2>2, TypeStep, ReaderInvStep, PipeStep, DecisionStep
    <2>4. CoordinatorInv' /\ EndInv' /\ OutInv'
        BY <2>1, <2>2, <2>3, CoordinatorInvStep, EndStep, OutStep
    <2>5. QED
        BY <2>3, <2>4 DEF IInv
<1>3. QED
    BY <1>1, <1>2, PTL DEF Spec

\* serve_connection answers what the client pipelines in the order in which it
\* was sent, parses nothing past an undecided upgrade or a last request, and its
\* two tasks end the connection in the same way.
THEOREM ServesInOrderHolds == Spec => []ServesInOrder
<1>1. IInv => ServesInOrder
    BY DEF IInv, ReaderInv, EndInv, OutInv, ServesInOrder
<1>2. QED
    BY <1>1, Invariance, PTL

\* The coordinator writes nothing after a response that closes the connection
\* or hands it over, whatever the reader has queued behind it.
THEOREM SilentAfterEndHolds == Spec => SilentAfterEnd
<1>1. IInv /\ [Next]_vars => [reply.accept \/ reply.close => out' = out]_vars
    <2>1. SUFFICES ASSUME IInv, Next, reply.accept \/ reply.close PROVE out' = out
        BY DEF vars
    <2>2. co \in {"write", "upgraded", "stop", "error", "dropped"}
        BY <2>1 DEF IInv, CoordinatorInv
    <2>3. CASE ReaderStep
        BY <2>3 DEF ReaderStep, ReadHead, ReadEof, HeadFault, Enqueue, BodyFrame, BodyEnd,
           BodyFault, Report, AwaitDecision, coordinator
    <2>4. CASE CoordinatorStep
        BY <2>2, <2>4 DEF CoordinatorStep, RecvRequest, RecvError, RecvClosed, WriteContinue,
           ServiceReads, ServiceFails, Respond, FinishResponse, BadRequest, WriteFails, Abort,
           Join, coordinator
    <2>5. CASE Drop
        BY <2>5 DEF Drop
    <2>6. QED
        BY <2>1, <2>3, <2>4, <2>5 DEF Next
<1>2. QED
    BY <1>1, Invariance, PTL DEF Spec, SilentAfterEnd
=============================================================================
