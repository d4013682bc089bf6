----------------------------- MODULE WireGuardProofs -----------------------------
(* Proofs about the two halves of the WireGuard endpoint that have a module  *)
(* each.  WgTunnel: for every capacity of the two channels, any number of    *)
(* packets and any set of peer addresses.  UdpFlows, which also serves the   *)
(* UDP proxies: for every set of connections and of DNS packets, any number  *)
(* of flows and exchanges and every capacity of the channels.                *)
EXTENDS WgTunnel, UdpFlows, SequenceTheorems, TLAPS

-----------------------------------------------------------------------------
(* The inductive invariant.                                                *)

\* What a loop holds between two awaits: one packet, or none.
Sinking   == IF bridge = "sink" THEN 1 ELSE 0
Pushing   == IF wg = "push" THEN 1 ELSE 0
Returning == IF bridge = "push" THEN 1 ELSE 0

\* The packets between the tunnel and the stack, counted and in order.
InwardInv ==
    /\ stacked + Sinking + Len(decrypted) + Pushing = arrived
    /\ \A i \in 1..Len(decrypted) : decrypted[i] = stacked + Sinking + i

\* The packets between the stack and the tunnel, counted and in order.
OutwardInv ==
    /\ sent + Len(encrypted) + Returning = produced
    /\ \A i \in 1..Len(encrypted) : encrypted[i] = sent + i

\* Until serve stops, every task that ended did so by itself, and the replay
\* task, which obeys the token alone, did not.
ServeInv ==
    /\ serve = "running" =>
          /\ result = "none"
          /\ task["replay"] = "run"
          /\ \A t \in Task : task[t] # "aborted"
    /\ ErrorHasCause

WgIInv == WgTypeOK /\ InwardInv /\ OutwardInv /\ ServeInv

-----------------------------------------------------------------------------
(* One step keeps each part.                                               *)

\* Every step of the loops, of serve and of the stack keeps the types.
LEMMA WgTypeStep ==
    ASSUME WgTypeOK, InwardInv, OutwardInv, [WgNext]_wgVars
    PROVE  WgTypeOK'
<1> USE WgCapAssumption, WgBoundAssumption, AddrAssumption DEF WgTypeOK, InwardInv, OutwardInv, Sinking, Pushing, Returning, Task
<1>1. ASSUME NEW a \in Addr, Datagram(a) PROVE WgTypeOK'
    BY <1>1 DEF Datagram, inward, outward, rest
<1>2. CASE Reject
    BY <1>2 DEF Reject, inward, outward, rest
<1>3. CASE AnswerPeer
    BY <1>3 DEF AnswerPeer, inward, outward, rest, End
<1>4. CASE Decrypt
    BY <1>4 DEF Decrypt, inward, outward, rest
<1>5. CASE PushDecrypted
    <2>1. CASE Runs("bridge")
        <3>1. /\ decrypted' = Append(decrypted, arrived) /\ Len(decrypted) < Cap
              /\ wg = "push" /\ wg' = "select"
              /\ UNCHANGED <<task, from, endpoint, arrived, bridge, stacked>>
              /\ UNCHANGED <<produced, encrypted, sent, replays, serve, result>>
            BY <1>5, <2>1 DEF PushDecrypted, outward, rest, DecryptedRoom
        <3>2. arrived \in 1..MaxIn
            <4>1. Len(decrypted) \in Nat
                OBVIOUS
            <4>2. QED
                BY <3>1, <4>1
        <3>3. decrypted' \in Seq(1..MaxIn) /\ Len(decrypted') <= Cap
            BY <3>1, <3>2, AppendProperties
        <3>4. QED
            BY <3>1, <3>3
    <2>2. CASE ~Runs("bridge")
        BY <1>5, <2>2 DEF PushDecrypted, outward, rest, End
    <2>3. QED
        BY <2>1, <2>2
<1>6. CASE Encrypt
    BY <1>6 DEF Encrypt, inward, outward, rest, End
<1>7. CASE WgEnds
    BY <1>7 DEF WgEnds, inward, outward, rest, End, Cancelled
<1>8. CASE TakeDecrypted
    BY <1>8 DEF TakeDecrypted, inward, outward, rest
<1>9. CASE Sink
    BY <1>9 DEF Sink, inward, outward, rest
<1>10. CASE FromStack
    BY <1>10 DEF FromStack, inward, outward, rest
<1>11. CASE PushEncrypted
    <2>1. CASE Runs("wg")
        <3>1. /\ encrypted' = Append(encrypted, produced) /\ Len(encrypted) < Cap
              /\ bridge = "push" /\ bridge' = "select"
              /\ UNCHANGED <<task, wg, from, endpoint, arrived, decrypted, stacked>>
              /\ UNCHANGED <<produced, sent, replays, serve, result>>
            BY <1>11, <2>1 DEF PushEncrypted, inward, rest, PushBack
        <3>2. produced \in 1..MaxOut
            <4>1. Len(encrypted) \in Nat
                OBVIOUS
            <4>2. QED
                BY <3>1, <4>1
        <3>3. encrypted' \in Seq(1..MaxOut) /\ Len(encrypted') <= Cap
            BY <3>1, <3>2, AppendProperties
        <3>4. QED
            BY <3>1, <3>3
    <2>2. CASE ~Runs("wg")
        BY <1>11, <2>2 DEF PushEncrypted, inward, rest, End
    <2>3. QED
        BY <2>1, <2>2
<1>12. CASE BridgeEnds
    BY <1>12 DEF BridgeEnds, inward, outward, rest, End
<1>13. ASSUME NEW t \in Task, OtherEnds(t) PROVE WgTypeOK'
    BY <1>13 DEF OtherEnds, inward, outward, rest, End
<1>14. CASE DropReplays
    BY <1>14 DEF DropReplays, inward, outward, rest
<1>15. CASE ReplayEnds
    BY <1>15 DEF ReplayEnds, inward, outward, rest, End, ReplayDone
<1>16. CASE Shutdown
    BY <1>16 DEF Shutdown, inward, outward, rest
<1>17. CASE TaskStopped
    BY <1>17 DEF TaskStopped, inward, outward, rest, Noticed
<1>18. CASE AbortAll
    BY <1>18 DEF AbortAll, inward, outward, rest
<1>19. CASE UNCHANGED wgVars
    BY <1>19 DEF wgVars
<1>20. QED
    BY <1>1, <1>2, <1>3, <1>4, <1>5, <1>6, <1>7, <1>8, <1>9, <1>10, <1>11,
       <1>12, <1>13, <1>14, <1>15, <1>16, <1>17, <1>18, <1>19
    DEF WgNext, WgStep, BridgeStep

\* Packets towards the stack keep their number and their place.
LEMMA InwardStep ==
    ASSUME WgTypeOK, InwardInv, [WgNext]_wgVars
    PROVE  InwardInv'
<1> USE WgCapAssumption, WgBoundAssumption, AddrAssumption DEF InwardInv, Sinking, Pushing, WgTypeOK
<1>1. ASSUME NEW a \in Addr, Datagram(a) PROVE InwardInv'
    BY <1>1 DEF Datagram, inward, outward, rest
<1>2. CASE Reject
    BY <1>2 DEF Reject, inward, outward, rest
<1>3. CASE AnswerPeer
    BY <1>3 DEF AnswerPeer, inward, outward, rest, End
<1>4. CASE Decrypt
    <2>1. /\ arrived' = arrived + 1 /\ wg = "process" /\ wg' = "push"
          /\ decrypted' = decrypted /\ bridge' = bridge /\ stacked' = stacked
        BY <1>4 DEF Decrypt
    <2>2. Len(decrypted) \in Nat
        OBVIOUS
    <2>3. QED
        BY <2>1, <2>2
<1>5. CASE PushDecrypted
    <2>1. CASE Runs("bridge")
        <3>1. /\ decrypted' = Append(decrypted, arrived)
              /\ wg = "push" /\ wg' = "select"
              /\ arrived' = arrived /\ bridge' = bridge /\ stacked' = stacked
            BY <1>5, <2>1 DEF PushDecrypted
        <3>2. /\ Len(decrypted) \in Nat
              /\ stacked + Sinking + Len(decrypted) + 1 = arrived
            BY <3>1
        <3>3. /\ Len(decrypted') = Len(decrypted) + 1
              /\ \A i \in 1..Len(decrypted) : decrypted'[i] = decrypted[i]
              /\ decrypted'[Len(decrypted) + 1] = arrived
            <4>1. arrived \in Nat /\ decrypted \in Seq(Nat)
                OBVIOUS
            <4>2. QED
                BY <3>1, <4>1, AppendProperties
        <3>4. /\ Sinking \in Nat /\ Sinking' = Sinking
              /\ Pushing' = 0
            BY <3>1
        <3> HIDE DEF Sinking, Pushing
        <3>5. stacked' + Sinking' + Len(decrypted') + Pushing' = arrived'
            BY <3>1, <3>2, <3>3, <3>4
        <3>6. ASSUME NEW i \in 1..Len(decrypted')
              PROVE  decrypted'[i] = stacked' + Sinking' + i
            <4>1. CASE i = Len(decrypted) + 1
                BY <3>1, <3>2, <3>3, <3>4, <4>1
            <4>2. CASE i \in 1..Len(decrypted)
                BY <3>1, <3>3, <3>4, <4>2
            <4>3. QED
                BY <3>2, <3>3, <4>1, <4>2
        <3>7. QED
            BY <3>5, <3>6
    <2>2. CASE ~Runs("bridge")
        BY <1>5, <2>2 DEF PushDecrypted
    <2>3. QED
        BY <2>1, <2>2
<1>6. CASE Encrypt
    BY <1>6 DEF Encrypt, inward, outward, rest, End
<1>7. CASE WgEnds
    BY <1>7 DEF WgEnds, inward, outward, rest, End, Cancelled
<1>8. CASE TakeDecrypted
    <2>1. /\ decrypted # <<>> /\ decrypted' = Tail(decrypted)
          /\ bridge = "select" /\ bridge' = "sink"
          /\ arrived' = arrived /\ wg' = wg /\ stacked' = stacked
        BY <1>8 DEF TakeDecrypted
    <2>2. /\ Len(decrypted) \in Nat \ {0}
          /\ Len(decrypted') = Len(decrypted) - 1
          /\ \A i \in 1..Len(decrypted') : decrypted'[i] = decrypted[i + 1]
        BY <2>1, HeadTailProperties, EmptySeq
    <2>3. /\ Sinking = 0 /\ Sinking' = 1 /\ Pushing \in Nat /\ Pushing' = Pushing
          /\ stacked \in Nat /\ stacked + Sinking + Len(decrypted) + Pushing = arrived
        BY <2>1
    <2> HIDE DEF Sinking, Pushing, WgTypeOK
    <2>4. stacked' + Sinking' + Len(decrypted') + Pushing' = arrived'
        BY <2>1, <2>2, <2>3
    <2>5. ASSUME NEW i \in 1..Len(decrypted')
          PROVE  decrypted'[i] = stacked' + Sinking' + i
        BY <2>1, <2>2, <2>3
    <2>6. QED
        BY <2>4, <2>5
<1>9. CASE Sink
    BY <1>9 DEF Sink, inward, outward, rest
<1>10. CASE FromStack
    BY <1>10 DEF FromStack, inward, outward, rest
<1>11. CASE PushEncrypted
    BY <1>11 DEF PushEncrypted, inward, outward, rest, PushBack, End
<1>12. CASE BridgeEnds
    BY <1>12 DEF BridgeEnds, inward, outward, rest, End
<1>13. ASSUME NEW t \in Task, OtherEnds(t) PROVE InwardInv'
    BY <1>13 DEF OtherEnds, inward, outward, rest, End
<1>14. CASE DropReplays
    BY <1>14 DEF DropReplays, inward, outward, rest
<1>15. CASE ReplayEnds
    BY <1>15 DEF ReplayEnds, inward, outward, rest, End, ReplayDone
<1>16. CASE Shutdown
    BY <1>16 DEF Shutdown, inward, outward, rest
<1>17. CASE TaskStopped
    BY <1>17 DEF TaskStopped, inward, outward, rest, Noticed
<1>18. CASE AbortAll
    BY <1>18 DEF AbortAll, inward, outward, rest
<1>19. CASE UNCHANGED wgVars
    BY <1>19 DEF wgVars
<1>20. QED
    BY <1>1, <1>2, <1>3, <1>4, <1>5, <1>6, <1>7, <1>8, <1>9, <1>10, <1>11,
       <1>12, <1>13, <1>14, <1>15, <1>16, <1>17, <1>18, <1>19
    DEF WgNext, WgStep, BridgeStep

\* Packets towards the peer keep their number and their place.
LEMMA OutwardStep ==
    ASSUME WgTypeOK, OutwardInv, [WgNext]_wgVars
    PROVE  OutwardInv'
<1> USE WgCapAssumption, WgBoundAssumption, AddrAssumption DEF OutwardInv, Returning, WgTypeOK
<1>1. ASSUME NEW a \in Addr, Datagram(a) PROVE OutwardInv'
    BY <1>1 DEF Datagram, inward, outward, rest
<1>2. CASE Reject
    BY <1>2 DEF Reject, inward, outward, rest
<1>3. CASE AnswerPeer
    BY <1>3 DEF AnswerPeer, inward, outward, rest, End
<1>4. CASE Decrypt
    BY <1>4 DEF Decrypt, inward, outward, rest
<1>5. CASE PushDecrypted
    BY <1>5 DEF PushDecrypted, inward, outward, rest, DecryptedRoom, End
<1>6. CASE Encrypt
    <2>1. /\ encrypted # <<>> /\ encrypted' = Tail(encrypted)
          /\ sent' = encrypted[1]
          /\ bridge' = bridge /\ produced' = produced
        BY <1>6 DEF Encrypt
    <2>2. /\ Len(encrypted) \in Nat \ {0}
          /\ Len(encrypted') = Len(encrypted) - 1
          /\ \A i \in 1..Len(encrypted') : encrypted'[i] = encrypted[i + 1]
        BY <2>1, HeadTailProperties, EmptySeq
    <2>3. sent' = sent + 1
        BY <2>1, <2>2
    <2>4. /\ Returning \in Nat /\ Returning' = Returning
          /\ sent \in Nat /\ sent + Len(encrypted) + Returning = produced
        BY <2>1
    <2> HIDE DEF Returning, WgTypeOK
    <2>5. sent' + Len(encrypted') + Returning' = produced'
        BY <2>1, <2>2, <2>3, <2>4
    <2>6. ASSUME NEW i \in 1..Len(encrypted') PROVE encrypted'[i] = sent' + i
        BY <2>2, <2>3, <2>4
    <2>7. QED
        BY <2>5, <2>6
<1>7. CASE WgEnds
    BY <1>7 DEF WgEnds, inward, outward, rest, End, Cancelled
<1>8. CASE TakeDecrypted
    BY <1>8 DEF TakeDecrypted, inward, outward, rest
<1>9. CASE Sink
    BY <1>9 DEF Sink, inward, outward, rest
<1>10. CASE FromStack
    BY <1>10 DEF FromStack, inward, outward, rest
<1>11. CASE PushEncrypted
    <2>1. CASE Runs("wg")
        <3>1. /\ encrypted' = Append(encrypted, produced)
              /\ bridge = "push" /\ bridge' = "select"
              /\ sent' = sent /\ produced' = produced
            BY <1>11, <2>1 DEF PushEncrypted, PushBack
        <3>2. Len(encrypted) \in Nat /\ sent + Len(encrypted) + 1 = produced
            BY <3>1
        <3>3. /\ Len(encrypted') = Len(encrypted) + 1
              /\ \A i \in 1..Len(encrypted) : encrypted'[i] = encrypted[i]
              /\ encrypted'[Len(encrypted) + 1] = produced
            <4>1. produced \in Nat /\ encrypted \in Seq(Nat)
                OBVIOUS
            <4>2. QED
                BY <3>1, <4>1, AppendProperties
        <3>4. Returning' = 0
            BY <3>1
        <3> HIDE DEF Returning
        <3>5. sent' + Len(encrypted') + Returning' = produced'
            BY <3>1, <3>2, <3>3, <3>4
        <3>6. ASSUME NEW i \in 1..Len(encrypted') PROVE encrypted'[i] = sent' + i
            BY <3>1, <3>2, <3>3
        <3>7. QED
            BY <3>5, <3>6
    <2>2. CASE ~Runs("wg")
        BY <1>11, <2>2 DEF PushEncrypted
    <2>3. QED
        BY <2>1, <2>2
<1>12. CASE BridgeEnds
    BY <1>12 DEF BridgeEnds, inward, outward, rest, End
<1>13. ASSUME NEW t \in Task, OtherEnds(t) PROVE OutwardInv'
    BY <1>13 DEF OtherEnds, inward, outward, rest, End
<1>14. CASE DropReplays
    BY <1>14 DEF DropReplays, inward, outward, rest
<1>15. CASE ReplayEnds
    BY <1>15 DEF ReplayEnds, inward, outward, rest, End, ReplayDone
<1>16. CASE Shutdown
    BY <1>16 DEF Shutdown, inward, outward, rest
<1>17. CASE TaskStopped
    BY <1>17 DEF TaskStopped, inward, outward, rest, Noticed
<1>18. CASE AbortAll
    BY <1>18 DEF AbortAll, inward, outward, rest
<1>19. CASE UNCHANGED wgVars
    BY <1>19 DEF wgVars
<1>20. QED
    BY <1>1, <1>2, <1>3, <1>4, <1>5, <1>6, <1>7, <1>8, <1>9, <1>10, <1>11,
       <1>12, <1>13, <1>14, <1>15, <1>16, <1>17, <1>18, <1>19
    DEF WgNext, WgStep, BridgeStep

\* Until serve stops a task ends only by itself, and it stays ended.
LEMMA ServeStep ==
    ASSUME WgTypeOK, ServeInv, [WgNext]_wgVars
    PROVE  ServeInv'
<1> USE DEF ServeInv, ErrorHasCause, WgTypeOK, Task, Runs
<1>1. ASSUME NEW a \in Addr, Datagram(a) PROVE ServeInv'
    BY <1>1 DEF Datagram, inward, outward, rest
<1>2. CASE Reject
    BY <1>2 DEF Reject, inward, outward, rest
<1>3. CASE AnswerPeer
    BY <1>3 DEF AnswerPeer, inward, outward, rest, End
<1>4. CASE Decrypt
    BY <1>4 DEF Decrypt, inward, outward, rest
<1>5. CASE PushDecrypted
    BY <1>5 DEF PushDecrypted, inward, outward, rest, DecryptedRoom, End
<1>6. CASE Encrypt
    BY <1>6 DEF Encrypt, inward, outward, rest, End
<1>7. CASE WgEnds
    BY <1>7 DEF WgEnds, inward, outward, rest, End, Cancelled
<1>8. CASE TakeDecrypted
    BY <1>8 DEF TakeDecrypted, inward, outward, rest
<1>9. CASE Sink
    BY <1>9 DEF Sink, inward, outward, rest
<1>10. CASE FromStack
    BY <1>10 DEF FromStack, inward, outward, rest
<1>11. CASE PushEncrypted
    BY <1>11 DEF PushEncrypted, inward, outward, rest, PushBack, End
<1>12. CASE BridgeEnds
    BY <1>12 DEF BridgeEnds, inward, outward, rest, End
<1>13. ASSUME NEW t \in Task, OtherEnds(t) PROVE ServeInv'
    BY <1>13 DEF OtherEnds, inward, outward, rest, End
<1>14. CASE DropReplays
    BY <1>14 DEF DropReplays, inward, outward, rest
<1>15. CASE ReplayEnds
    <2>1. serve # "running" /\ serve' = serve /\ result' = result
        BY <1>15 DEF ReplayEnds, ReplayDone, Cancelled, rest
    <2>2. \A t \in Task \ {"replay"} : task'[t] = task[t]
        BY <1>15 DEF ReplayEnds, End
    <2>3. QED
        BY <2>1, <2>2
<1>16. CASE Shutdown
    BY <1>16 DEF Shutdown, inward, outward, rest
<1>17. CASE TaskStopped
    BY <1>17 DEF TaskStopped, inward, outward, rest, Noticed
<1>18. CASE AbortAll
    BY <1>18 DEF AbortAll, inward, outward, rest
<1>19. CASE UNCHANGED wgVars
    BY <1>19 DEF wgVars
<1>20. QED
    BY <1>1, <1>2, <1>3, <1>4, <1>5, <1>6, <1>7, <1>8, <1>9, <1>10, <1>11,
       <1>12, <1>13, <1>14, <1>15, <1>16, <1>17, <1>18, <1>19
    DEF WgNext, WgStep, BridgeStep

-----------------------------------------------------------------------------
(* The theorems.                                                           *)

\* The endpoint starts with empty channels and all its tasks running.
LEMMA WgInitIInv == WgInit => WgIInv
<1> SUFFICES ASSUME WgInit PROVE WgIInv
    OBVIOUS
<1> USE WgCapAssumption, WgBoundAssumption DEF WgInit
<1>1. Len(decrypted) = 0 /\ Len(encrypted) = 0
    OBVIOUS
<1>2. WgTypeOK
    BY <1>1 DEF WgTypeOK
<1>3. InwardInv /\ OutwardInv
    BY <1>1 DEF InwardInv, OutwardInv, Sinking, Pushing, Returning
<1>4. ServeInv
    BY DEF ServeInv, ErrorHasCause, Task
<1>5. QED
    BY <1>2, <1>3, <1>4 DEF WgIInv

\* Counting, order and causes are kept together with the types.
LEMMA WgIInvStep == WgIInv /\ [WgNext]_wgVars => WgIInv'
BY WgTypeStep, InwardStep, OutwardStep, ServeStep DEF WgIInv

\* Whichever task ends, and in whatever order, the invariant holds.
THEOREM WgInvariance == WgSpec => []WgIInv
BY WgInitIInv, WgIInvStep, PTL DEF WgSpec

\* The packets of s are those that come after number n.
After(s, n) == \A i \in 1..Len(s) : s[i] = n + i

\* x, y and z together are the packets after number a up to number b.
Splits(x, y, z, a, b) ==
    /\ a + Len(x) + Len(y) + Len(z) = b
    /\ After(x, a) /\ After(y, a + Len(x)) /\ After(z, a + Len(x) + Len(y))

\* A run of consecutive numbers, split in three, is what its parts make it.
LEMMA Consecutive ==
    ASSUME NEW a \in Nat, NEW b \in Nat,
           NEW x \in Seq(Nat), NEW y \in Seq(Nat), NEW z \in Seq(Nat),
           Splits(x, y, z, a, b)
    PROVE  x \o y \o z = Numbers(a, b)
<1> USE DEF Splits
<1>1. /\ Len(x) \in Nat /\ Len(y) \in Nat /\ Len(z) \in Nat
      /\ x \o y \in Seq(Nat)
      /\ (x \o y) \o z \in Seq(Nat)
    BY ConcatProperties
<1>2. /\ Len(x \o y) = Len(x) + Len(y)
      /\ \A i \in 1..Len(x) + Len(y) :
            (x \o y)[i] = IF i <= Len(x) THEN x[i] ELSE y[i - Len(x)]
    BY ConcatProperties
<1>3. ASSUME NEW i \in 1..Len(x) + Len(y) PROVE (x \o y)[i] = a + i
    <2>1. CASE i <= Len(x)
        BY <1>1, <1>2, <2>1 DEF After
    <2>2. CASE ~(i <= Len(x))
        <3>1. i - Len(x) \in 1..Len(y)
            BY <1>1, <2>2
        <3>2. QED
            BY <1>1, <1>2, <2>2, <3>1 DEF After
    <2>3. QED
        BY <2>1, <2>2
<1>4. /\ Len((x \o y) \o z) = Len(x \o y) + Len(z)
      /\ \A i \in 1..Len(x \o y) + Len(z) :
            ((x \o y) \o z)[i] = IF i <= Len(x \o y) THEN (x \o y)[i] ELSE z[i - Len(x \o y)]
    BY <1>1, ConcatProperties
<1>5. b - a \in Nat /\ Len((x \o y) \o z) = b - a
    BY <1>1, <1>2, <1>4
<1>6. ASSUME NEW i \in 1..(b - a) PROVE ((x \o y) \o z)[i] = a + i
    <2>1. CASE i <= Len(x \o y)
        BY <1>1, <1>2, <1>3, <1>4, <1>5, <2>1
    <2>2. CASE ~(i <= Len(x \o y))
        <3>1. i - Len(x \o y) \in 1..Len(z)
            BY <1>1, <1>2, <1>4, <1>5, <2>2
        <3>2. QED
            BY <1>1, <1>2, <1>4, <1>5, <2>2, <3>1 DEF After
    <2>3. QED
        BY <2>1, <2>2
<1>7. /\ Numbers(a, b) \in Seq(Nat)
      /\ Len(Numbers(a, b)) = b - a
      /\ \A i \in 1..(b - a) : Numbers(a, b)[i] = a + i
    BY <1>5, IsASeq DEF Numbers
<1>8. Len((x \o y) \o z) = Len(Numbers(a, b))
    BY <1>5, <1>7
<1>9. \A i \in 1..Len((x \o y) \o z) : ((x \o y) \o z)[i] = Numbers(a, b)[i]
    BY <1>5, <1>6, <1>7
<1>10. QED
    BY <1>1, <1>7, <1>8, <1>9, SeqEqual

\* One packet in a loop's hands, as a sequence, and none.
LEMMA OneInHand ==
    \A n \in Nat : /\ <<n>> \in Seq(Nat) /\ Len(<<n>>) = 1
                   /\ \A i \in 1..1 : <<n>>[i] = n
OBVIOUS

\* Nothing in hand: the empty sequence says nothing of any element.
LEMMA NoneInHand ==
    /\ <<>> \in Seq(Nat) /\ Len(<<>>) = 0
    /\ \A n : \A i \in 1..0 : <<>>[i] = n
OBVIOUS

\* The counting invariant is the equation between sequences.
LEMMA NothingLost == WgIInv => NothingLostInside
<1> SUFFICES ASSUME WgIInv PROVE NothingLostInside
    OBVIOUS
<1>1. /\ stacked \in Nat /\ arrived \in Nat /\ sent \in Nat /\ produced \in Nat
      /\ decrypted \in Seq(Nat) /\ encrypted \in Seq(Nat)
    BY WgBoundAssumption DEF WgIInv, WgTypeOK
<1>2. InHand(bridge = "sink", stacked + 1) \o decrypted \o InHand(wg = "push", arrived)
         = Numbers(stacked, arrived)
    <2> DEFINE x == InHand(bridge = "sink", stacked + 1)
               z == InHand(wg = "push", arrived)
    <2>1. /\ x \in Seq(Nat) /\ Len(x) = Sinking
          /\ \A i \in 1..Len(x) : x[i] = stacked + i
        <3>1. CASE bridge = "sink"
            <4>1. x = <<stacked + 1>> /\ Sinking = 1
                BY <3>1 DEF InHand, Sinking
            <4> HIDE DEF x
            <4>2. QED
                BY <1>1, <4>1, OneInHand
        <3>2. CASE bridge # "sink"
            <4>1. x = <<>> /\ Sinking = 0
                BY <3>2 DEF InHand, Sinking
            <4> HIDE DEF x
            <4>2. QED
                BY <4>1, NoneInHand
        <3>3. QED
            BY <3>1, <3>2
    <2>2. /\ z \in Seq(Nat) /\ Len(z) = Pushing
          /\ \A i \in 1..Len(z) : z[i] = arrived
        <3>1. CASE wg = "push"
            <4>1. z = <<arrived>> /\ Pushing = 1
                BY <3>1 DEF InHand, Pushing
            <4> HIDE DEF z
            <4>2. QED
                BY <1>1, <4>1, OneInHand
        <3>2. CASE wg # "push"
            <4>1. z = <<>> /\ Pushing = 0
                BY <3>2 DEF InHand, Pushing
            <4> HIDE DEF z
            <4>2. QED
                BY <4>1, NoneInHand
        <3>3. QED
            BY <3>1, <3>2
    <2> HIDE DEF x, z
    <2>3. /\ stacked + Len(x) + Len(decrypted) + Len(z) = arrived
          /\ \A i \in 1..Len(decrypted) : decrypted[i] = stacked + Len(x) + i
        BY <2>1, <2>2 DEF WgIInv, InwardInv
    <2>4. Len(x) \in Nat /\ Len(decrypted) \in Nat /\ Len(z) \in {0, 1}
        BY <1>1, <2>1, <2>2 DEF Pushing
    <2>5. /\ After(x, stacked) /\ After(decrypted, stacked + Len(x))
          /\ After(z, stacked + Len(x) + Len(decrypted))
        <3>1. After(x, stacked) /\ After(decrypted, stacked + Len(x))
            BY <2>1, <2>3 DEF After
        <3>2. ASSUME NEW i \in 1..Len(z) PROVE z[i] = stacked + Len(x) + Len(decrypted) + i
            BY <1>1, <2>2, <2>3, <2>4
        <3>3. QED
            BY <3>1, <3>2 DEF After
    <2>6. x \o decrypted \o z = Numbers(stacked, arrived)
        <3>1. Splits(x, decrypted, z, stacked, arrived)
            BY <2>3, <2>5 DEF Splits
        <3>2. /\ stacked \in Nat /\ arrived \in Nat
              /\ x \in Seq(Nat) /\ decrypted \in Seq(Nat) /\ z \in Seq(Nat)
            BY <1>1, <2>1, <2>2
        <3>3. QED
            BY <3>1, <3>2, Consecutive
    <2>7. QED
        BY <2>6 DEF x, z
<1>3. encrypted \o InHand(bridge = "push", produced) = Numbers(sent, produced)
    <2> DEFINE e == <<>>
               z == InHand(bridge = "push", produced)
    <2>1. e \in Seq(Nat) /\ Len(e) = 0 /\ e \o encrypted = encrypted
        BY <1>1, ConcatEmptySeq
    <2>2. /\ z \in Seq(Nat) /\ Len(z) = Returning
          /\ \A i \in 1..Len(z) : z[i] = produced
        <3>1. CASE bridge = "push"
            <4>1. z = <<produced>> /\ Returning = 1
                BY <3>1 DEF InHand, Returning
            <4> HIDE DEF z
            <4>2. QED
                BY <1>1, <4>1, OneInHand
        <3>2. CASE bridge # "push"
            <4>1. z = <<>> /\ Returning = 0
                BY <3>2 DEF InHand, Returning
            <4> HIDE DEF z
            <4>2. QED
                BY <4>1, NoneInHand
        <3>3. QED
            BY <3>1, <3>2
    <2> HIDE DEF e, z
    <2>3. /\ sent + Len(encrypted) + Len(z) = produced
          /\ \A i \in 1..Len(encrypted) : encrypted[i] = sent + i
        BY <2>2 DEF WgIInv, OutwardInv
    <2>4. Len(encrypted) \in Nat /\ Len(z) \in {0, 1}
        BY <1>1, <2>2 DEF Returning
    <2>5. sent + Len(e) + Len(encrypted) + Len(z) = produced
        BY <1>1, <2>1, <2>3, <2>4
    <2>6. /\ After(e, sent) /\ After(encrypted, sent + Len(e))
          /\ After(z, sent + Len(e) + Len(encrypted))
        <3>1. After(e, sent)
            BY <2>1 DEF After
        <3>2. After(encrypted, sent + Len(e))
            BY <1>1, <2>1, <2>3 DEF After
        <3>3. ASSUME NEW i \in 1..Len(z) PROVE z[i] = sent + Len(e) + Len(encrypted) + i
            BY <1>1, <2>1, <2>2, <2>3, <2>4
        <3>4. QED
            BY <3>1, <3>2, <3>3 DEF After
    <2>7. e \o encrypted \o z = Numbers(sent, produced)
        <3>1. Splits(e, encrypted, z, sent, produced)
            BY <2>5, <2>6 DEF Splits
        <3>2. /\ sent \in Nat /\ produced \in Nat
              /\ e \in Seq(Nat) /\ encrypted \in Seq(Nat) /\ z \in Seq(Nat)
            BY <1>1, <2>1, <2>2
        <3>3. QED
            BY <3>1, <3>2, Consecutive
    <2>8. QED
        BY <2>1, <2>7 DEF z
<1>4. QED
    BY <1>2, <1>3 DEF NothingLostInside

\* For every capacity of the channels and every number of packets: none is lost,
\* doubled or overtaken between the tunnel and the stack, also when a loop ends
\* with one in its hands, and an error of serve names a task that ended by itself.
THEOREM TunnelIsSoundHolds == WgSpec => []TunnelIsSound
<1>1. WgIInv => TunnelIsSound
    BY NothingLost DEF WgIInv, ServeInv, TunnelIsSound
<1>2. QED
    BY <1>1, WgInvariance, PTL

-----------------------------------------------------------------------------
(* The inductive invariant: the table, the flows and their completions.    *)

FlowTypes ==
    /\ setup \in Setups
    /\ table \in [Key -> 0..MaxGen]
    /\ loop \in {"select", "starting", "dispatch", "writing", "ended"}
    /\ at \in Key \cup {NoKey}
    /\ next \in 0..MaxGen
    /\ flow \in [Gen -> {"none", "live", "replying", "finish", "sent", "gone"}]
    /\ key \in [Gen -> Key \cup {NoKey}]
    /\ inbox \in [Gen -> 0..InboxCap]
    /\ completed \in Seq(Gen) /\ Len(completed) <= DoneCap
    /\ responses \in 0..ReplyCap

Completed(g) == \E i \in 1..Len(completed) : completed[i] = g

\* Where the loop stands between two datagrams: the flow it starts has the
\* newest generation and its key is not listed yet.
LoopInv ==
    /\ loop \in {"starting", "dispatch"} => at \in Key /\ next \in Gen /\ table[at] = 0
    /\ loop = "starting" => flow[next] = "none"
    /\ loop = "dispatch" =>
          /\ flow[next] # "none" /\ key[next] = at
          /\ Running(next) \/ flow[next] = "finish" \/ Completed(next)
    /\ loop = "ended" => \A k \in Key : table[k] = 0

\* Generations are used once, in order, and each for one key.
GenInv ==
    \A g \in Gen :
        /\ flow[g] = "none" <=> key[g] = NoKey
        /\ flow[g] # "none" => g <= next

\* A working flow is listed under its key, or is about to be.
RunningInv ==
    \A g \in Gen :
        Running(g) /\ loop # "ended" => table[key[g]] = g \/ (loop = "dispatch" /\ next = g)

\* Only flows that have ended announce it.
CompletedInv ==
    \A g \in Gen : Completed(g) => flow[g] \in {"sent", "gone"}

EntryInv ==
    \A k \in Key : table[k] # 0 =>
        Running(table[k]) \/ flow[table[k]] = "finish" \/ Completed(table[k])

TableInv ==
    LoopInv /\ GenInv /\ RunningInv /\ CompletedInv /\ EntryInv /\ OneFlowPerKey /\ ListedIsNewest

-----------------------------------------------------------------------------
(* The inductive invariant: the exchanges.                                 *)

Event == {"UdpExchange", "DnsQuery", "overridden", "resolved", "empty"}

Record ==
    [at : {"new", "deciding", "waiting", "answering", "gone"}, of : Key,
     packet : Packet, asked : BOOLEAN, trail : Seq(Event)]

\* A query that may still be asked of the resolver, or has been.
Askable(x) == ~Overrides(x.packet) /\ x.packet.parses

\* A datagram that goes to its destination: it is reported with its result.
UdpHonest(x) ==
    /\ x.at # "deciding"
    /\ x.at = "new" => ~x.asked
    /\ x.at \in {"waiting", "answering"} => x.asked
    /\ x.trail = IF x.at = "waiting" \/ ~x.asked THEN <<>> ELSE <<"UdpExchange">>

\* A query: reported before anything is decided about it, and its answer, the
\* resolver's or an override, before it is sent back.
DnsHonest(x) ==
    /\ x.at = "new" => x.trail = <<>>
    /\ x.at \in {"deciding", "waiting"} => x.trail = <<"DnsQuery">> /\ Askable(x)
    /\ x.at \in {"new", "deciding"} => ~x.asked
    /\ x.at = "waiting" => x.asked
    /\ x.asked =>
          /\ Askable(x)
          /\ x.trail \in {<<"DnsQuery">>, <<"DnsQuery", "resolved">>, <<"DnsQuery", "empty">>}
    /\ x.at = "answering" =>
          IF x.asked THEN x.trail \in {<<"DnsQuery", answers>> : answers \in parse_answers}
          ELSE x.trail = <<"DnsQuery", "overridden">>

Honest(x) == IF IsDns(x.of) THEN DnsHonest(x) ELSE UdpHonest(x)

ExchangeInv ==
    /\ exchange \in Seq(Record)
    /\ Len(exchange) <= setup.exchanges
    /\ \A e \in 1..Len(exchange) : Honest(exchange[e])

IInv == FlowTypes /\ TableInv /\ ExchangeInv

-----------------------------------------------------------------------------
(* What the constants allow, and what the exchanges leave alone.           *)

\* The capacities are positive and the bounds are naturals.
LEMMA Capacities ==
    /\ InboxCap \in Nat \ {0} /\ DoneCap \in Nat \ {0} /\ ReplyCap \in Nat \ {0}
    /\ MaxGen \in Nat /\ MaxExchange \in Nat
BY CapAssumption, BoundAssumption

\* A setup stays inside the bounds.
LEMMA SetupBounds ==
    ASSUME setup \in Setups
    PROVE  /\ setup.keys \subseteq Key
           /\ setup.flows \in 0..MaxGen /\ setup.exchanges \in 0..MaxExchange
BY SetupAssumption

\* A step of an exchange, or a datagram of the other proxies.
Others ==
    /\ UNCHANGED <<setup, working, flows>>
    /\ responses' \in 0..ReplyCap

\* The steps that admit or decide a datagram leave the exchanges under way alone.
LEMMA ExchangesApart ==
    ASSUME FlowTypes,
           \/ \E k \in setup.keys : Receive(k)
           \/ \E e \in Exchange : ExchangeMoves(e) \/ Decide(e)
    PROVE  Others
<1> USE DEF Others, FlowTypes
<1>1. ASSUME NEW k \in setup.keys, Receive(k) PROVE Others
    BY <1>1 DEF Receive
<1>2. ASSUME NEW e \in Exchange, Decide(e) PROVE Others
    BY <1>2 DEF Decide, Goes
<1>3. ASSUME NEW e \in Exchange, Respond(e) PROVE Others
    BY <1>3, Capacities DEF Respond
<1>4. ASSUME NEW e \in Exchange, ExchangeMoves(e), ~Respond(e) PROVE Others
    BY <1>4 DEF ExchangeMoves, UdpAsk, UdpResult, Resolve, Forwarded, SendTo, Goes
<1>5. QED
    BY <1>1, <1>2, <1>3, <1>4

-----------------------------------------------------------------------------
(* The completion channel.                                                 *)

\* A completion is queued behind those that are there.
LEMMA Queued ==
    ASSUME completed \in Seq(Gen), NEW g \in Gen, completed' = Append(completed, g)
    PROVE  /\ completed' \in Seq(Gen) /\ Len(completed') = Len(completed) + 1
           /\ \A i \in 1..Len(completed) : completed'[i] = completed[i] /\ completed[i] \in Gen
           /\ completed'[Len(completed) + 1] = g
           /\ Completed(g)'
           /\ \A h : Completed(h) => Completed(h)'
           /\ \A i \in 1..Len(completed') : completed'[i] = g \/ Completed(completed'[i])
<1>1. /\ completed' \in Seq(Gen) /\ Len(completed') = Len(completed) + 1
      /\ \A i \in 1..Len(completed) : completed'[i] = completed[i]
      /\ completed'[Len(completed) + 1] = g
    BY AppendProperties
<1>2. Len(completed) \in Nat /\ \A i \in 1..Len(completed) : completed[i] \in Gen
    OBVIOUS
<1>3. Len(completed) + 1 \in 1..Len(completed')
    BY <1>1, <1>2
<1>4. \A h : Completed(h) => Completed(h)'
    BY <1>1, <1>2 DEF Completed
<1>5. ASSUME NEW i \in 1..Len(completed') PROVE completed'[i] = g \/ Completed(completed'[i])
    <2>1. CASE i = Len(completed) + 1
        BY <1>1, <2>1
    <2>2. CASE i \in 1..Len(completed)
        BY <1>1, <2>2 DEF Completed
    <2>3. QED
        BY <1>1, <1>2, <2>1, <2>2
<1>6. QED
    BY <1>1, <1>2, <1>3, <1>4, <1>5 DEF Completed

\* The oldest completion leaves, the others stay.
LEMMA Unqueued ==
    ASSUME completed \in Seq(Gen), completed # <<>>, completed' = Tail(completed)
    PROVE  /\ completed' \in Seq(Gen) /\ Len(completed') = Len(completed) - 1
           /\ Head(completed) \in Gen /\ Completed(Head(completed))
           /\ \A h : Completed(h) => h = Head(completed) \/ Completed(h)'
           /\ \A h : Completed(h)' => Completed(h)
<1>1. /\ Len(completed) \in Nat \ {0}
      /\ completed' \in Seq(Gen) /\ Len(completed') = Len(completed) - 1
      /\ \A i \in 1..Len(completed') : completed'[i] = completed[i + 1]
      /\ Head(completed) = completed[1] /\ Head(completed) \in Gen
    BY HeadTailProperties, EmptySeq
<1>2. Completed(Head(completed))
    BY <1>1 DEF Completed
<1>3. ASSUME NEW h, Completed(h) PROVE h = Head(completed) \/ Completed(h)'
    <2>1. PICK i \in 1..Len(completed) : completed[i] = h
        BY <1>3 DEF Completed
    <2>2. CASE i = 1
        BY <1>1, <2>1, <2>2
    <2>3. CASE i # 1
        <3>1. i - 1 \in 1..Len(completed') /\ (i - 1) + 1 = i
            BY <1>1, <2>1, <2>3
        <3>2. completed'[i - 1] = h
            BY <1>1, <2>1, <3>1
        <3>3. QED
            BY <3>1, <3>2 DEF Completed
    <2>4. QED
        BY <2>2, <2>3
<1>4. ASSUME NEW h, Completed(h)' PROVE Completed(h)
    <2>1. PICK i \in 1..Len(completed') : completed'[i] = h
        BY <1>4 DEF Completed
    <2>2. i + 1 \in 1..Len(completed)
        BY <1>1
    <2>3. QED
        BY <1>1, <2>1, <2>2 DEF Completed
<1>5. QED
    BY <1>1, <1>2, <1>3, <1>4

\* A datagram is counted, up to the capacity of the channel.
LEMMA Dispatched ==
    ASSUME FlowTypes, NEW g \in Gen, Dispatch(g)
    PROVE  inbox' \in [Gen -> 0..InboxCap]
<1>1. CASE inbox[g] < InboxCap
    BY <1>1, Capacities DEF Dispatch, FlowTypes
<1>2. CASE ~(inbox[g] < InboxCap)
    BY <1>2 DEF Dispatch, FlowTypes
<1>3. QED
    BY <1>1, <1>2

\* What one step of a flow's task does to the phases.
LEMMA Moved ==
    ASSUME FlowTypes, NEW g \in Gen, NEW old, NEW to, Move(g, old, to)
    PROVE  /\ flow[g] = old
           /\ \A h \in Gen : flow'[h] = IF h = g THEN to ELSE flow[h]
BY DEF Move, FlowTypes

-----------------------------------------------------------------------------
(* One step keeps each part.                                               *)

\* Every step keeps the types of the table, the flows and the channels.
LEMMA TypeStep ==
    ASSUME FlowTypes, TableInv, [Next]_vars
    PROVE  FlowTypes'
<1> USE Capacities, SetupBounds DEF FlowTypes, TableInv, LoopInv, Gen
<1>1. ASSUME NEW k \in Key, ToFlow(k) PROVE FlowTypes'
    <2>1. table[k] \in Gen
        BY <1>1 DEF ToFlow
    <2>2. inbox' \in [Gen -> 0..InboxCap]
        BY <1>1, <2>1, Dispatched DEF ToFlow
    <2>3. QED
        BY <1>1, <2>2 DEF ToFlow, working
<1>2. ASSUME NEW k \in Key, NEW initial \in BOOLEAN, ToNobody(k, initial) PROVE FlowTypes'
    BY SMTT(30), <1>2 DEF ToNobody, Unlist, Closed, working
<1>3. CASE StartFlow
    BY <1>3 DEF StartFlow
<1>4. CASE StartFails
    BY <1>4 DEF StartFails, flows
<1>5. CASE DispatchInitial
    <2>1. at \in Key /\ next \in Gen
        BY <1>5 DEF DispatchInitial
    <2>2. inbox' \in [Gen -> 0..InboxCap]
        BY <1>5, <2>1, Dispatched DEF DispatchInitial
    <2>3. QED
        BY <1>5, <2>1, <2>2 DEF DispatchInitial
<1>6. CASE TakeCompletion
    <2>1. completed # <<>> /\ completed' = Tail(completed)
        BY <1>6 DEF TakeCompletion
    <2>2. completed' \in Seq(Gen) /\ Len(completed') <= DoneCap
        <3>1. Len(completed) \in Nat
            OBVIOUS
        <3>2. QED
            BY <2>1, <3>1, Unqueued
    <2>3. key[Head(completed)] \in Key
        BY <2>1, Unqueued DEF CompletedInv, GenInv
    <2>4. table' \in [Key -> 0..MaxGen]
        <3>1. table' = table \/ table' = [table EXCEPT ![key[Head(completed)]] = 0]
            BY <1>6 DEF TakeCompletion, Unlist
        <3>2. CASE table' = [table EXCEPT ![key[Head(completed)]] = 0]
            <4> DEFINE k == key[Head(completed)]
            <4>1. k \in Key /\ table' = [table EXCEPT ![k] = 0]
                BY <2>3, <3>2
            <4> HIDE DEF k
            <4>2. QED
                BY <4>1
        <3>3. QED
            BY <3>1, <3>2
    <2>5. QED
        BY <1>6, <2>2, <2>4 DEF TakeCompletion, working
<1>7. CASE TakeResponse
    BY SMTT(30), <1>7 DEF TakeResponse
<1>8. CASE Written
    BY <1>8 DEF Written
<1>9. CASE LoopEnds
    BY <1>9 DEF LoopEnds
<1>10. ASSUME NEW g \in Gen, TakeDatagram(g) PROVE FlowTypes'
    <2>1. inbox' \in [Gen -> 0..InboxCap]
        BY SMTT(30), <1>10 DEF TakeDatagram
    <2>2. QED
        BY <1>10, <2>1 DEF TakeDatagram, working
<1>11. ASSUME NEW g \in Gen, Reply(g) PROVE FlowTypes'
    BY <1>11 DEF Reply, Move, working
<1>12. ASSUME NEW g \in Gen, PushResponse(g) PROVE FlowTypes'
    <2>1. responses' \in 0..ReplyCap
        BY <1>12 DEF PushResponse
    <2>2. flow' \in [Gen -> {"none", "live", "replying", "finish", "sent", "gone"}]
        BY <1>12 DEF PushResponse, Move
    <2>3. QED
        BY <1>12, <2>1, <2>2 DEF PushResponse, working
<1>13. ASSUME NEW g \in Gen, FlowEnds(g) PROVE FlowTypes'
    BY <1>13 DEF FlowEnds, Move, working
<1>14. ASSUME NEW g \in Gen, HandleDropped(g) PROVE FlowTypes'
    BY <1>14 DEF HandleDropped, Move, working
<1>15. ASSUME NEW g \in Gen, SendCompletion(g) PROVE FlowTypes'
    <2>1. flow' \in [Gen -> {"none", "live", "replying", "finish", "sent", "gone"}]
        BY <1>15 DEF SendCompletion, Move
    <2>2. completed' \in Seq(Gen) /\ Len(completed') <= DoneCap
        <3>1. CASE loop = "ended"
            BY <1>15, <3>1 DEF SendCompletion
        <3>2. CASE loop # "ended"
            <4>1. completed' = Append(completed, g) /\ Len(completed) < DoneCap
                BY <1>15, <3>2 DEF SendCompletion, PushCompletion
            <4>2. Len(completed) \in Nat
                OBVIOUS
            <4>3. QED
                BY <4>1, <4>2, Queued
        <3>3. QED
            BY <3>1, <3>2
    <2>3. QED
        BY <1>15, <2>1, <2>2 DEF SendCompletion, working
<1>16. ASSUME NEW g \in Gen, Return(g) PROVE FlowTypes'
    BY <1>16 DEF Return, Move, working
<1>17. CASE Others
    BY <1>17 DEF Others, working, flows
<1>18. CASE UNCHANGED vars
    BY <1>18 DEF vars
<1>19. QED
    BY <1>1, <1>2, <1>3, <1>4, <1>5, <1>6, <1>7, <1>8, <1>9, <1>10, <1>11,
       <1>12, <1>13, <1>14, <1>15, <1>16, <1>17, <1>18, ExchangesApart
    DEF Next, FlowStep, FlowMoves

\* The loop starts a flow for a key that is not listed, under a new generation.
LEMMA LoopStep ==
    ASSUME FlowTypes, TableInv, [Next]_vars
    PROVE  LoopInv'
<1> USE Capacities, SetupBounds DEF FlowTypes, TableInv, LoopInv, GenInv, Gen, Running, Completed
<1>1. ASSUME NEW k \in Key, ToFlow(k) PROVE LoopInv'
    BY <1>1 DEF ToFlow, Dispatch, Closed, working
<1>2. ASSUME NEW k \in Key, NEW initial \in BOOLEAN, ToNobody(k, initial) PROVE LoopInv'
    BY <1>2 DEF ToNobody, Unlist, Closed, working
<1>3. CASE StartFlow
    BY <1>3 DEF StartFlow
<1>4. CASE StartFails
    BY <1>4 DEF StartFails, flows
<1>5. CASE DispatchInitial
    BY <1>5 DEF DispatchInitial, Dispatch
<1>6. CASE TakeCompletion
    BY <1>6 DEF TakeCompletion, Own, Unlist, working
<1>7. CASE TakeResponse
    BY <1>7 DEF TakeResponse
<1>8. CASE Written
    BY <1>8 DEF Written
<1>9. CASE LoopEnds
    BY <1>9 DEF LoopEnds
<1>10. ASSUME NEW g \in Gen, TakeDatagram(g) PROVE LoopInv'
    BY <1>10 DEF TakeDatagram, working
<1>11. ASSUME NEW g \in Gen, Reply(g) PROVE LoopInv'
    BY <1>11 DEF Reply, Move, working
<1>12. ASSUME NEW g \in Gen, PushResponse(g) PROVE LoopInv'
    BY <1>12 DEF PushResponse, Move, working
<1>13. ASSUME NEW g \in Gen, FlowEnds(g) PROVE LoopInv'
    BY <1>13 DEF FlowEnds, Move, working
<1>14. ASSUME NEW g \in Gen, HandleDropped(g) PROVE LoopInv'
    BY <1>14 DEF HandleDropped, Move, working
<1>15. ASSUME NEW g \in Gen, SendCompletion(g) PROVE LoopInv'
    <2>1. loop' = loop /\ at' = at /\ next' = next /\ table' = table /\ key' = key
        BY <1>15 DEF SendCompletion, working
    <2>2. \A h \in Gen \ {g} : flow'[h] = flow[h]
        BY SMTT(30), <1>15, Moved DEF SendCompletion
    <2>3. flow[g] = "finish" /\ flow'[g] \in {"sent", "gone"}
        BY <1>15, Moved DEF SendCompletion
    <2>4. /\ \A h : Completed(h) => Completed(h)'
          /\ loop # "ended" => Completed(g)'
        <3>1. CASE loop = "ended"
            BY <1>15, <3>1 DEF SendCompletion
        <3>2. CASE loop # "ended"
            BY <1>15, <3>2, Queued DEF SendCompletion, PushCompletion
        <3>3. QED
            BY <3>1, <3>2
    <2> HIDE DEF Completed
    <2>5. QED
        BY <2>1, <2>2, <2>3, <2>4
<1>16. ASSUME NEW g \in Gen, Return(g) PROVE LoopInv'
    BY <1>16 DEF Return, Move, working
<1>17. CASE Others
    BY <1>17 DEF Others, working, flows
<1>18. CASE UNCHANGED vars
    BY <1>18 DEF vars
<1>19. QED
    BY <1>1, <1>2, <1>3, <1>4, <1>5, <1>6, <1>7, <1>8, <1>9, <1>10, <1>11,
       <1>12, <1>13, <1>14, <1>15, <1>16, <1>17, <1>18, ExchangesApart
    DEF Next, FlowStep, FlowMoves

\* No generation is used twice.
LEMMA GenStep ==
    ASSUME FlowTypes, TableInv, [Next]_vars
    PROVE  GenInv'
<1> USE Capacities, SetupBounds DEF FlowTypes, TableInv, LoopInv, GenInv, Gen
<1>1. ASSUME NEW k \in Key, ToFlow(k) PROVE GenInv'
    BY <1>1 DEF ToFlow, Dispatch, Closed, working
<1>2. ASSUME NEW k \in Key, NEW initial \in BOOLEAN, ToNobody(k, initial) PROVE GenInv'
    BY <1>2 DEF ToNobody, Unlist, Closed, working
<1>3. CASE StartFlow
    <2>1. /\ at \in Key /\ next \in Gen /\ flow[next] = "none"
          /\ flow' = [flow EXCEPT ![next] = "live"] /\ key' = [key EXCEPT ![next] = at]
          /\ next' = next
        BY <1>3 DEF StartFlow
    <2>2. ASSUME NEW g \in Gen
          PROVE  /\ flow'[g] = "none" <=> key'[g] = NoKey
                 /\ flow'[g] # "none" => g <= next
        <3>1. CASE g = next
            BY <2>1, <3>1, KeyAssumption
        <3>2. CASE g # next
            BY <2>1, <3>2
        <3>3. QED
            BY <3>1, <3>2
    <2>3. QED
        BY <2>1, <2>2
<1>4. CASE StartFails
    BY <1>4 DEF StartFails, flows
<1>5. CASE DispatchInitial
    BY <1>5 DEF DispatchInitial, Dispatch
<1>6. CASE TakeCompletion
    BY <1>6 DEF TakeCompletion, Own, Unlist, working
<1>7. CASE TakeResponse
    BY <1>7 DEF TakeResponse
<1>8. CASE Written
    BY <1>8 DEF Written
<1>9. CASE LoopEnds
    BY <1>9 DEF LoopEnds
<1>10. ASSUME NEW g \in Gen, TakeDatagram(g) PROVE GenInv'
    BY <1>10 DEF TakeDatagram, working
<1>11. ASSUME NEW g \in Gen, Reply(g) PROVE GenInv'
    BY <1>11 DEF Reply, Move, working
<1>12. ASSUME NEW g \in Gen, PushResponse(g) PROVE GenInv'
    BY SMTT(30), <1>12 DEF PushResponse, Move, working
<1>13. ASSUME NEW g \in Gen, FlowEnds(g) PROVE GenInv'
    BY <1>13 DEF FlowEnds, Move, working
<1>14. ASSUME NEW g \in Gen, HandleDropped(g) PROVE GenInv'
    BY <1>14 DEF HandleDropped, Move, working
<1>15. ASSUME NEW g \in Gen, SendCompletion(g) PROVE GenInv'
    BY SMTT(30), <1>15 DEF SendCompletion, Move, PushCompletion, working
<1>16. ASSUME NEW g \in Gen, Return(g) PROVE GenInv'
    BY <1>16 DEF Return, Move, working
<1>17. CASE Others
    BY <1>17 DEF Others, working, flows
<1>18. CASE UNCHANGED vars
    BY <1>18 DEF vars
<1>19. QED
    BY <1>1, <1>2, <1>3, <1>4, <1>5, <1>6, <1>7, <1>8, <1>9, <1>10, <1>11,
       <1>12, <1>13, <1>14, <1>15, <1>16, <1>17, <1>18, ExchangesApart
    DEF Next, FlowStep, FlowMoves

\* A working flow leaves the table only with the loop.
LEMMA RunningStep ==
    ASSUME FlowTypes, TableInv, [Next]_vars
    PROVE  RunningInv'
<1> USE Capacities, SetupBounds DEF FlowTypes, TableInv, LoopInv, GenInv, RunningInv, CompletedInv, Gen, Running
<1>1. ASSUME NEW k \in Key, ToFlow(k) PROVE RunningInv'
    BY <1>1 DEF ToFlow, Dispatch, Closed, working
<1>2. ASSUME NEW k \in Key, NEW initial \in BOOLEAN, ToNobody(k, initial) PROVE RunningInv'
    BY <1>2 DEF ToNobody, Unlist, Closed, working
<1>3. CASE StartFlow
    BY <1>3 DEF StartFlow
<1>4. CASE StartFails
    BY <1>4 DEF StartFails, flows
<1>5. CASE DispatchInitial
    BY <1>5 DEF DispatchInitial, Dispatch
<1>6. CASE TakeCompletion
    <2> DEFINE h == Head(completed)
    <2>1. h \in Gen /\ Completed(h)
        BY <1>6, Unqueued DEF TakeCompletion
    <2>2. ~Running(h)
        BY <2>1
    <2>3. /\ loop' = loop /\ next' = next /\ flow' = flow /\ key' = key
          /\ table' = IF table[key[h]] = h THEN [table EXCEPT ![key[h]] = 0] ELSE table
        BY <1>6 DEF TakeCompletion, Own, Unlist, working
    <2> HIDE DEF h
    <2>4. QED
        BY <2>1, <2>2, <2>3
<1>7. CASE TakeResponse
    BY <1>7 DEF TakeResponse
<1>8. CASE Written
    BY <1>8 DEF Written
<1>9. CASE LoopEnds
    BY <1>9 DEF LoopEnds
<1>10. ASSUME NEW g \in Gen, TakeDatagram(g) PROVE RunningInv'
    BY <1>10 DEF TakeDatagram, working
<1>11. ASSUME NEW g \in Gen, Reply(g) PROVE RunningInv'
    BY <1>11 DEF Reply, Move, working
<1>12. ASSUME NEW g \in Gen, PushResponse(g) PROVE RunningInv'
    BY <1>12 DEF PushResponse, Move, working
<1>13. ASSUME NEW g \in Gen, FlowEnds(g) PROVE RunningInv'
    BY <1>13 DEF FlowEnds, Move, working
<1>14. ASSUME NEW g \in Gen, HandleDropped(g) PROVE RunningInv'
    BY <1>14 DEF HandleDropped, Move, working
<1>15. ASSUME NEW g \in Gen, SendCompletion(g) PROVE RunningInv'
    BY <1>15 DEF SendCompletion, Move, PushCompletion, working
<1>16. ASSUME NEW g \in Gen, Return(g) PROVE RunningInv'
    BY <1>16 DEF Return, Move, working
<1>17. CASE Others
    BY <1>17 DEF Others, working, flows
<1>18. CASE UNCHANGED vars
    BY <1>18 DEF vars
<1>19. QED
    BY <1>1, <1>2, <1>3, <1>4, <1>5, <1>6, <1>7, <1>8, <1>9, <1>10, <1>11,
       <1>12, <1>13, <1>14, <1>15, <1>16, <1>17, <1>18, ExchangesApart
    DEF Next, FlowStep, FlowMoves

\* A completion is sent by a flow at its end, and the flow has ended for good.
LEMMA CompletedStep ==
    ASSUME FlowTypes, TableInv, [Next]_vars
    PROVE  CompletedInv'
<1> USE SetupBounds DEF FlowTypes, TableInv, LoopInv, GenInv, CompletedInv, Completed
<1>1. ASSUME NEW k \in Key, ToFlow(k) PROVE CompletedInv'
    BY <1>1 DEF ToFlow, Dispatch, Closed, working
<1>2. ASSUME NEW k \in Key, NEW initial \in BOOLEAN, ToNobody(k, initial) PROVE CompletedInv'
    BY <1>2 DEF ToNobody, Unlist, Closed, working
<1>3. CASE StartFlow
    BY <1>3 DEF StartFlow
<1>4. CASE StartFails
    BY <1>4 DEF StartFails, flows
<1>5. CASE DispatchInitial
    BY <1>5 DEF DispatchInitial, Dispatch
<1>6. CASE TakeCompletion
    BY <1>6 DEF TakeCompletion, Own, Unlist, working
<1>7. CASE TakeResponse
    BY <1>7 DEF TakeResponse
<1>8. CASE Written
    BY <1>8 DEF Written
<1>9. CASE LoopEnds
    BY <1>9 DEF LoopEnds
<1>10. ASSUME NEW g \in Gen, TakeDatagram(g) PROVE CompletedInv'
    BY <1>10 DEF TakeDatagram, working
<1>11. ASSUME NEW g \in Gen, Reply(g) PROVE CompletedInv'
    BY <1>11 DEF Reply, Move, working
<1>12. ASSUME NEW g \in Gen, PushResponse(g) PROVE CompletedInv'
    BY <1>12 DEF PushResponse, Move, working
<1>13. ASSUME NEW g \in Gen, FlowEnds(g) PROVE CompletedInv'
    BY <1>13 DEF FlowEnds, Move, working
<1>14. ASSUME NEW g \in Gen, HandleDropped(g) PROVE CompletedInv'
    BY <1>14 DEF HandleDropped, Move, working
<1>15. ASSUME NEW g \in Gen, SendCompletion(g) PROVE CompletedInv'
    <2>1. flow[g] = "finish" /\ flow'[g] \in {"sent", "gone"}
        BY <1>15, Moved DEF SendCompletion
    <2>2. \A h \in Gen \ {g} : flow'[h] = flow[h]
        BY <1>15, Moved DEF SendCompletion
    <2>3. \A h \in Gen : Completed(h)' => h = g \/ Completed(h)
        <3>1. CASE loop = "ended"
            BY <1>15, <3>1 DEF SendCompletion
        <3>2. CASE loop # "ended"
            <4>1. completed' = Append(completed, g)
                BY <1>15, <3>2 DEF SendCompletion, PushCompletion
            <4>2. \A i \in 1..Len(completed') : completed'[i] = g \/ Completed(completed'[i])
                BY <4>1, Queued
            <4>3. QED
                BY SMTT(30), <4>2
        <3>3. QED
            BY <3>1, <3>2
    <2> HIDE DEF Completed
    <2>4. QED
        BY <2>1, <2>2, <2>3
<1>16. ASSUME NEW g \in Gen, Return(g) PROVE CompletedInv'
    BY <1>16 DEF Return, Move, working
<1>17. CASE Others
    BY <1>17 DEF Others, working, flows
<1>18. CASE UNCHANGED vars
    BY <1>18 DEF vars
<1>19. QED
    BY <1>1, <1>2, <1>3, <1>4, <1>5, <1>6, <1>7, <1>8, <1>9, <1>10, <1>11,
       <1>12, <1>13, <1>14, <1>15, <1>16, <1>17, <1>18, ExchangesApart
    DEF Next, FlowStep, FlowMoves

\* What is listed works, or its completion is on its way.
LEMMA EntryStep ==
    ASSUME FlowTypes, TableInv, [Next]_vars
    PROVE  EntryInv'
<1> USE Capacities, SetupBounds DEF FlowTypes, TableInv, LoopInv, GenInv, EntryInv, ListedIsNewest, Gen, Running, Completed
<1>1. ASSUME NEW k \in Key, ToFlow(k) PROVE EntryInv'
    BY <1>1 DEF ToFlow, Dispatch, Closed, working
<1>2. ASSUME NEW k \in Key, NEW initial \in BOOLEAN, ToNobody(k, initial) PROVE EntryInv'
    BY SMTT(30), <1>2 DEF ToNobody, Unlist, Closed, working
<1>3. CASE StartFlow
    BY <1>3 DEF StartFlow
<1>4. CASE StartFails
    BY <1>4 DEF StartFails, flows
<1>5. CASE DispatchInitial
    <2>1. at \in Key /\ next \in Gen /\ table[at] = 0
        BY <1>5 DEF DispatchInitial
    <2>2. Running(next) \/ flow[next] = "finish" \/ Completed(next)
        BY <1>5 DEF DispatchInitial
    <2>3. /\ flow' = flow /\ completed' = completed
          /\ table' = table \/ table' = [table EXCEPT ![at] = next]
        BY <1>5 DEF DispatchInitial
    <2>4. ASSUME NEW k \in Key, table'[k] # 0
          PROVE  Running(table'[k]) \/ flow[table'[k]] = "finish" \/ Completed(table'[k])
        <3>1. CASE table'[k] = table[k]
            BY <2>4, <3>1
        <3>2. CASE table'[k] = next
            BY <2>2, <3>2
        <3>3. QED
            BY <2>1, <2>3, <3>1, <3>2
    <2>5. QED
        BY <2>3, <2>4
<1>6. CASE TakeCompletion
    <2> DEFINE h == Head(completed)
    <2>1. h \in Gen /\ Completed(h) /\ \A f : Completed(f) => f = h \/ Completed(f)'
        BY <1>6, Unqueued DEF TakeCompletion
    <2>2. /\ flow' = flow
          /\ table' = IF table[key[h]] = h THEN [table EXCEPT ![key[h]] = 0] ELSE table
        BY <1>6 DEF TakeCompletion, Own, Unlist
    <2> HIDE DEF h, Completed
    <2>3. SUFFICES ASSUME NEW k \in Key, table'[k] # 0
                   PROVE  (Running(table[k]) \/ flow[table[k]] = "finish" \/ Completed(table[k])') /\ table'[k] = table[k]
        BY <2>2
    <2>4. table'[k] = table[k] /\ table[k] # h
        BY <2>1, <2>2, <2>3
    <2>5. QED
        BY <2>1, <2>3, <2>4
<1>7. CASE TakeResponse
    BY <1>7 DEF TakeResponse
<1>8. CASE Written
    BY <1>8 DEF Written
<1>9. CASE LoopEnds
    BY <1>9 DEF LoopEnds
<1>10. ASSUME NEW g \in Gen, TakeDatagram(g) PROVE EntryInv'
    BY <1>10 DEF TakeDatagram, working
<1>11. ASSUME NEW g \in Gen, Reply(g) PROVE EntryInv'
    BY <1>11 DEF Reply, Move, working
<1>12. ASSUME NEW g \in Gen, PushResponse(g) PROVE EntryInv'
    <2>1. table' = table /\ completed' = completed
        BY <1>12 DEF PushResponse
    <2>2. /\ flow[g] = "replying" /\ flow'[g] \in {"live", "finish"}
          /\ \A h \in Gen \ {g} : flow'[h] = flow[h]
        BY <1>12, Moved DEF PushResponse
    <2>3. QED
        <3>1. SUFFICES ASSUME NEW k \in Key, table[k] # 0
                       PROVE  (Running(table[k]) \/ flow[table[k]] = "finish" \/ Completed(table[k]))'
            BY <2>1
        <3>2. table[k] \in Gen /\ table'[k] = table[k]
            BY <2>1, <3>1
        <3>3. CASE table[k] = g
            <4>1. flow'[table[k]] \in {"live", "finish"}
                BY <2>2, <3>3
            <4>2. QED
                BY <3>2, <4>1
        <3>4. CASE table[k] # g
            <4>1. flow'[table[k]] = flow[table[k]]
                BY <2>2, <3>2, <3>4
            <4>2. Running(table[k]) \/ flow[table[k]] = "finish" \/ Completed(table[k])
                BY <3>1
            <4>3. QED
                BY <2>1, <3>2, <4>1, <4>2
        <3>5. QED
            BY <3>3, <3>4
<1>13. ASSUME NEW g \in Gen, FlowEnds(g) PROVE EntryInv'
    BY <1>13 DEF FlowEnds, Move, working
<1>14. ASSUME NEW g \in Gen, HandleDropped(g) PROVE EntryInv'
    BY <1>14 DEF HandleDropped, Move, working
<1>15. ASSUME NEW g \in Gen, SendCompletion(g) PROVE EntryInv'
    <2>1. CASE loop = "ended"
        BY <1>15, <2>1 DEF SendCompletion
    <2>2. CASE loop # "ended"
        <3>1. table' = table
            BY <1>15 DEF SendCompletion
        <3>2. flow[g] = "finish" /\ \A h \in Gen \ {g} : flow'[h] = flow[h]
            BY <1>15, Moved DEF SendCompletion
        <3>3. Completed(g)' /\ \A h : Completed(h) => Completed(h)'
            BY <1>15, <2>2, Queued DEF SendCompletion, PushCompletion
        <3> HIDE DEF Completed
        <3>4. ASSUME NEW h \in Gen, Running(h) \/ flow[h] = "finish" \/ Completed(h)
              PROVE  Running(h)' \/ flow'[h] = "finish" \/ Completed(h)'
            <4>1. CASE h = g
                BY <3>3, <4>1
            <4>2. CASE h # g
                BY <3>2, <3>3, <3>4, <4>2
            <4>3. QED
                BY <4>1, <4>2
        <3>5. QED
            BY <3>1, <3>4
    <2>3. QED
        BY <2>1, <2>2
<1>16. ASSUME NEW g \in Gen, Return(g) PROVE EntryInv'
    BY SMTT(30), <1>16 DEF Return, Move, working
<1>17. CASE Others
    BY <1>17 DEF Others, working, flows
<1>18. CASE UNCHANGED vars
    BY <1>18 DEF vars
<1>19. QED
    BY <1>1, <1>2, <1>3, <1>4, <1>5, <1>6, <1>7, <1>8, <1>9, <1>10, <1>11,
       <1>12, <1>13, <1>14, <1>15, <1>16, <1>17, <1>18, ExchangesApart
    DEF Next, FlowStep, FlowMoves

\* A second flow of the same key starts only when the first is not listed.
LEMMA OneStep ==
    ASSUME FlowTypes, TableInv, [Next]_vars
    PROVE  OneFlowPerKey'
<1> USE Capacities, SetupBounds DEF FlowTypes, TableInv, LoopInv, GenInv, RunningInv, OneFlowPerKey, Gen, Running
<1>1. ASSUME NEW k \in Key, ToFlow(k) PROVE OneFlowPerKey'
    BY <1>1 DEF ToFlow, Dispatch, Closed, working
<1>2. ASSUME NEW k \in Key, NEW initial \in BOOLEAN, ToNobody(k, initial) PROVE OneFlowPerKey'
    BY <1>2 DEF ToNobody, Unlist, Closed, working
<1>3. CASE StartFlow
    BY <1>3 DEF StartFlow
<1>4. CASE StartFails
    BY <1>4 DEF StartFails, flows
<1>5. CASE DispatchInitial
    BY <1>5 DEF DispatchInitial, Dispatch
<1>6. CASE TakeCompletion
    BY <1>6 DEF TakeCompletion, Own, Unlist, working
<1>7. CASE TakeResponse
    BY <1>7 DEF TakeResponse
<1>8. CASE Written
    BY <1>8 DEF Written
<1>9. CASE LoopEnds
    BY <1>9 DEF LoopEnds
<1>10. ASSUME NEW g \in Gen, TakeDatagram(g) PROVE OneFlowPerKey'
    BY <1>10 DEF TakeDatagram, working
<1>11. ASSUME NEW g \in Gen, Reply(g) PROVE OneFlowPerKey'
    BY <1>11 DEF Reply, Move, working
<1>12. ASSUME NEW g \in Gen, PushResponse(g) PROVE OneFlowPerKey'
    BY ZenonT(30), <1>12 DEF PushResponse, Move, working
<1>13. ASSUME NEW g \in Gen, FlowEnds(g) PROVE OneFlowPerKey'
    BY <1>13 DEF FlowEnds, Move, working
<1>14. ASSUME NEW g \in Gen, HandleDropped(g) PROVE OneFlowPerKey'
    BY <1>14 DEF HandleDropped, Move, working
<1>15. ASSUME NEW g \in Gen, SendCompletion(g) PROVE OneFlowPerKey'
    BY ZenonT(30), <1>15 DEF SendCompletion, Move, PushCompletion, working
<1>16. ASSUME NEW g \in Gen, Return(g) PROVE OneFlowPerKey'
    BY <1>16 DEF Return, Move, working
<1>17. CASE Others
    BY <1>17 DEF Others, working, flows
<1>18. CASE UNCHANGED vars
    BY <1>18 DEF vars
<1>19. QED
    BY <1>1, <1>2, <1>3, <1>4, <1>5, <1>6, <1>7, <1>8, <1>9, <1>10, <1>11,
       <1>12, <1>13, <1>14, <1>15, <1>16, <1>17, <1>18, ExchangesApart
    DEF Next, FlowStep, FlowMoves

\* Only the newest generation is ever entered.
LEMMA NewestStep ==
    ASSUME FlowTypes, TableInv, [Next]_vars
    PROVE  ListedIsNewest'
<1> USE Capacities, SetupBounds DEF FlowTypes, TableInv, LoopInv, GenInv, ListedIsNewest, Gen
<1>1. ASSUME NEW k \in Key, ToFlow(k) PROVE ListedIsNewest'
    BY <1>1 DEF ToFlow, Dispatch, Closed, working
<1>2. ASSUME NEW k \in Key, NEW initial \in BOOLEAN, ToNobody(k, initial) PROVE ListedIsNewest'
    BY <1>2 DEF ToNobody, Unlist, Closed, working
<1>3. CASE StartFlow
    <2>1. /\ at \in Key /\ next \in Gen /\ flow[next] = "none" /\ table[at] = 0
          /\ key' = [key EXCEPT ![next] = at] /\ table' = table
        BY <1>3 DEF StartFlow
    <2>2. ASSUME NEW k \in Key, table[k] # 0
          PROVE  key'[table[k]] = k /\ \A g \in Gen : key'[g] = k => g <= table[k]
        <3>1. k # at /\ key[table[k]] = k /\ table[k] \in Gen
            BY <2>1, <2>2
        <3>2. table[k] # next
            BY <2>1, <3>1, KeyAssumption
        <3>3. QED
            BY <2>1, <2>2, <3>1, <3>2
    <2>3. QED
        BY <2>1, <2>2
<1>4. CASE StartFails
    BY <1>4 DEF StartFails, flows
<1>5. CASE DispatchInitial
    <2>1. at \in Key /\ next \in Gen /\ key[next] = at /\ key' = key
        BY <1>5 DEF DispatchInitial
    <2>2. \A k \in Key : table'[k] = table[k] \/ (k = at /\ table'[k] = next)
        BY <1>5 DEF DispatchInitial
    <2>3. \A g \in Gen : key[g] # NoKey => g <= next
        BY <2>1
    <2>4. ASSUME NEW k \in Key, table'[k] # 0
          PROVE  key[table'[k]] = k /\ \A g \in Gen : key[g] = k => g <= table'[k]
        <3>1. CASE table'[k] = table[k]
            BY <2>4, <3>1
        <3>2. CASE k = at /\ table'[k] = next
            BY <2>1, <2>3, <3>2, KeyAssumption
        <3>3. QED
            BY <2>2, <3>1, <3>2
    <2>5. QED
        BY <2>1, <2>4
<1>6. CASE TakeCompletion
    BY <1>6 DEF TakeCompletion, Own, Unlist, working
<1>7. CASE TakeResponse
    BY <1>7 DEF TakeResponse
<1>8. CASE Written
    BY <1>8 DEF Written
<1>9. CASE LoopEnds
    BY <1>9 DEF LoopEnds
<1>10. ASSUME NEW g \in Gen, TakeDatagram(g) PROVE ListedIsNewest'
    BY <1>10 DEF TakeDatagram, working
<1>11. ASSUME NEW g \in Gen, Reply(g) PROVE ListedIsNewest'
    BY <1>11 DEF Reply, Move, working
<1>12. ASSUME NEW g \in Gen, PushResponse(g) PROVE ListedIsNewest'
    BY <1>12 DEF PushResponse, Move, working
<1>13. ASSUME NEW g \in Gen, FlowEnds(g) PROVE ListedIsNewest'
    BY <1>13 DEF FlowEnds, Move, working
<1>14. ASSUME NEW g \in Gen, HandleDropped(g) PROVE ListedIsNewest'
    BY <1>14 DEF HandleDropped, Move, working
<1>15. ASSUME NEW g \in Gen, SendCompletion(g) PROVE ListedIsNewest'
    BY <1>15 DEF SendCompletion, Move, PushCompletion, working
<1>16. ASSUME NEW g \in Gen, Return(g) PROVE ListedIsNewest'
    BY <1>16 DEF Return, Move, working
<1>17. CASE Others
    BY <1>17 DEF Others, working, flows
<1>18. CASE UNCHANGED vars
    BY <1>18 DEF vars
<1>19. QED
    BY SMTT(30), <1>1, <1>2, <1>3, <1>4, <1>5, <1>6, <1>7, <1>8, <1>9, <1>10, <1>11,
       <1>12, <1>13, <1>14, <1>15, <1>16, <1>17, <1>18, ExchangesApart
    DEF Next, FlowStep, FlowMoves

-----------------------------------------------------------------------------
(* The exchanges: one step keeps what they have reported.                  *)

\* An event follows those that were reported.
LEMMA Follows ==
    ASSUME NEW S, NEW a \in S, NEW b \in S
    PROVE  /\ <<>> \o <<a>> = <<a>> /\ <<>> \o <<a, b>> = <<a, b>>
           /\ <<a>> \o <<b>> = <<a, b>>
           /\ <<a>> \in Seq(S) /\ <<a, b>> \in Seq(S)
<1>1. <<a>> \in Seq(S) /\ <<b>> \in Seq(S) /\ <<a, b>> \in Seq(S)
    OBVIOUS
<1>2. <<>> \o <<a>> = <<a>> /\ <<>> \o <<a, b>> = <<a, b>>
    BY <1>1, ConcatEmptySeq
<1>3. <<a>> \o <<b>> = <<a, b>>
    <2>1. /\ <<a>> \o <<b>> \in Seq(S)
          /\ Len(<<a>> \o <<b>>) = Len(<<a>>) + Len(<<b>>)
          /\ \A i \in 1..Len(<<a>>) + Len(<<b>>) :
                (<<a>> \o <<b>>)[i] = IF i <= Len(<<a>>) THEN <<a>>[i] ELSE <<b>>[i - Len(<<a>>)]
        BY <1>1, ConcatProperties
    <2>2. Len(<<a>> \o <<b>>) = 2 /\ Len(<<a, b>>) = 2
        BY <2>1
    <2>3. ASSUME NEW i \in 1..Len(<<a>> \o <<b>>) PROVE (<<a>> \o <<b>>)[i] = <<a, b>>[i]
        <3>1. CASE i = 1
            BY <2>1, <3>1
        <3>2. CASE i = 2
            BY <2>1, <3>2
        <3>3. QED
            BY <2>2, <3>1, <3>2
    <2>4. QED
        BY <1>1, <2>1, <2>2, <2>3, SeqEqual
<1>4. QED
    BY <1>1, <1>2, <1>3

\* One exchange goes on: what it becomes decides.
LEMMA Goes1 ==
    ASSUME FlowTypes, ExchangeInv, NEW e \in 1..Len(exchange), NEW old, NEW x,
           Goes(e, old, x), x \in Record, Honest(x)
    PROVE  ExchangeInv'
<1>1. exchange' = [exchange EXCEPT ![e] = x] /\ setup' = setup
    BY DEF Goes
<1>2. /\ exchange' \in Seq(Record) /\ Len(exchange') = Len(exchange)
      /\ \A i \in 1..Len(exchange) : exchange'[i] = IF i = e THEN x ELSE exchange[i]
    BY <1>1, ExceptSeq DEF ExchangeInv
<1>3. \A y : Honest(y) <=> Honest(y)'
    BY <1>1 DEF Honest, IsDns
<1>4. QED
    BY <1>1, <1>2, <1>3 DEF ExchangeInv

\* The literal trails an exchange can have.
LEMMA Trails ==
    /\ <<>> \o <<"UdpExchange">> = <<"UdpExchange">> /\ <<"UdpExchange">> \in Seq(Event)
    /\ <<>> \o <<"DnsQuery">> = <<"DnsQuery">> /\ <<"DnsQuery">> \in Seq(Event)
    /\ <<>> \o <<"DnsQuery", "overridden">> = <<"DnsQuery", "overridden">>
    /\ \A last \in {"overridden", "resolved", "empty"} :
          /\ <<"DnsQuery">> \o <<last>> = <<"DnsQuery", last>>
          /\ <<"DnsQuery", last>> \in Seq(Event)
<1>1. "UdpExchange" \in Event /\ {"DnsQuery", "overridden", "resolved", "empty"} \subseteq Event
    BY DEF Event
<1>2. /\ <<>> \o <<"UdpExchange">> = <<"UdpExchange">>
      /\ <<"UdpExchange">> \in Seq(Event)
    BY <1>1, Follows
<1>3. ASSUME NEW last \in {"overridden", "resolved", "empty"}
      PROVE  /\ <<>> \o <<"DnsQuery">> = <<"DnsQuery">> /\ <<"DnsQuery">> \in Seq(Event)
             /\ <<>> \o <<"DnsQuery", last>> = <<"DnsQuery", last>>
             /\ <<"DnsQuery">> \o <<last>> = <<"DnsQuery", last>>
             /\ <<"DnsQuery", last>> \in Seq(Event)
    <2>1. "DnsQuery" \in Event /\ last \in Event
        BY <1>1
    <2>2. QED
        BY <2>1, Follows
<1>4. QED
    BY <1>2, <1>3

\* A datagram starts an exchange that has reported nothing.
LEMMA SpawnStep ==
    ASSUME FlowTypes, ExchangeInv, NEW k \in Key, Spawn(k), UNCHANGED setup
    PROVE  ExchangeInv'
<1>1. PICK packet \in Packet :
          exchange' = IF Len(exchange) < setup.exchanges
                      THEN Append(exchange, Fresh(k, packet)) ELSE exchange
    BY DEF Spawn
<1>2. \A y : Honest(y) <=> Honest(y)'
    BY DEF Honest, IsDns
<1>3. Fresh(k, packet) \in Record /\ Honest(Fresh(k, packet))
    BY DEF Fresh, Record, Honest, DnsHonest, UdpHonest
<1>4. CASE Len(exchange) < setup.exchanges
    <2>1. exchange' = Append(exchange, Fresh(k, packet))
        BY <1>1, <1>4
    <2>2. /\ exchange' \in Seq(Record) /\ Len(exchange') = Len(exchange) + 1
          /\ \A i \in 1..Len(exchange) : exchange'[i] = exchange[i]
          /\ exchange'[Len(exchange) + 1] = Fresh(k, packet)
        BY <1>3, <2>1, AppendProperties DEF ExchangeInv
    <2>3. Len(exchange) \in Nat /\ setup.exchanges \in Nat
        BY SetupBounds DEF ExchangeInv, FlowTypes
    <2>4. ASSUME NEW i \in 1..Len(exchange') PROVE Honest(exchange'[i])
        <3>1. CASE i = Len(exchange) + 1
            BY <1>3, <2>2, <3>1
        <3>2. CASE i \in 1..Len(exchange)
            BY <2>2, <3>2 DEF ExchangeInv
        <3>3. QED
            BY <2>2, <2>3, <3>1, <3>2
    <2>5. QED
        BY <1>2, <1>4, <2>2, <2>3, <2>4 DEF ExchangeInv
<1>5. CASE ~(Len(exchange) < setup.exchanges)
    BY <1>1, <1>2, <1>5 DEF ExchangeInv
<1>6. QED
    BY <1>4, <1>5

\* Every step of an exchange reports what it sends, before it sends it.
LEMMA ExchangeStep ==
    ASSUME FlowTypes, ExchangeInv, NEW e \in 1..Len(exchange), ExchangeMoves(e) \/ Decide(e)
    PROVE  ExchangeInv'
<1> DEFINE x == exchange[e]
<1>1. x \in Record /\ Honest(x)
    BY DEF ExchangeInv
<1>2. ASSUME UdpAsk(e) PROVE ExchangeInv'
    <2>1. ~IsDns(x.of) /\ (Goes(e, "new", Gone(e)) \/ Goes(e, "new", Waiting(e)))
        BY <1>2 DEF UdpAsk
    <2>2. x.at = "new"
        BY <2>1 DEF Goes
    <2>3. /\ Gone(e) \in Record /\ Honest(Gone(e))
          /\ Waiting(e) \in Record /\ Honest(Waiting(e))
        BY <1>1, <2>1, <2>2 DEF Gone, Waiting, Record, Honest, UdpHonest
    <2>4. QED
        BY <2>1, <2>3, Goes1
<1>3. ASSUME UdpResult(e) PROVE ExchangeInv'
    <2>1. PICK to \in {"answering", "gone"} :
              Goes(e, "waiting", [x EXCEPT !.at = to, !.trail = Reports(e, <<"UdpExchange">>)])
        BY <1>3 DEF UdpResult
    <2>2. ~IsDns(x.of) /\ x.at = "waiting"
        BY <1>3, <2>1 DEF UdpResult, Goes
    <2>3. x.trail = <<>> /\ x.asked
        BY <1>1, <2>2 DEF Honest, UdpHonest
    <2>4. Reports(e, <<"UdpExchange">>) = <<"UdpExchange">>
        BY <2>3, Trails DEF Reports
    <2>5. [x EXCEPT !.at = to, !.trail = Reports(e, <<"UdpExchange">>)] \in Record
        BY <1>1, <2>4, Trails DEF Record
    <2>6. Honest([x EXCEPT !.at = to, !.trail = Reports(e, <<"UdpExchange">>)])
        BY <1>1, <2>2, <2>3, <2>4 DEF Honest, UdpHonest, Record
    <2>7. QED
        BY <2>1, <2>5, <2>6, Goes1
<1>4. ASSUME Resolve(e) PROVE ExchangeInv'
    <2>1. IsDns(x.of) /\ x.at = "new"
        BY <1>4 DEF Resolve, Goes
    <2>2. x.trail = <<>> /\ ~x.asked
        BY <1>1, <2>1 DEF Honest, DnsHonest
    <2>3. CASE ~x.packet.parses
        <3>1. Gone(e) \in Record /\ Honest(Gone(e))
            BY <1>1, <2>1, <2>2 DEF Gone, Record, Honest, DnsHonest
        <3>2. QED
            BY <1>4, <2>3, <3>1, Goes1 DEF Resolve
    <2>4. CASE x.packet.parses /\ Overrides(x.packet)
        <3>1. Goes(e, "new", Answered(e, <<"DnsQuery", "overridden">>))
            BY <1>4, <2>4 DEF Resolve
        <3>2. Answered(e, <<"DnsQuery", "overridden">>)
                 = [x EXCEPT !.at = "answering", !.trail = <<"DnsQuery", "overridden">>]
            BY <2>2, Trails DEF Answered, Reports
        <3>3. /\ Answered(e, <<"DnsQuery", "overridden">>) \in Record
              /\ Honest(Answered(e, <<"DnsQuery", "overridden">>))
            BY <1>1, <2>1, <2>2, <3>2, Trails DEF Record, Honest, DnsHonest
        <3>4. QED
            BY <3>1, <3>3, Goes1
    <2>5. CASE x.packet.parses /\ ~Overrides(x.packet)
        <3> DEFINE y == [x EXCEPT !.at = "deciding", !.trail = Reports(e, <<"DnsQuery">>)]
        <3>1. Goes(e, "new", y)
            BY <1>4, <2>5 DEF Resolve
        <3>2. y = [x EXCEPT !.at = "deciding", !.trail = <<"DnsQuery">>]
            BY <2>2, Trails DEF Reports
        <3>3. y \in Record /\ Honest(y)
            BY <1>1, <2>1, <2>2, <2>5, <3>2, Trails DEF Record, Honest, DnsHonest, Askable
        <3>4. QED
            BY <3>1, <3>3, Goes1
    <2>6. QED
        BY <2>3, <2>4, <2>5
<1>5. ASSUME Decide(e) PROVE ExchangeInv'
    <2>1. x.at = "deciding"
        BY <1>5 DEF Decide, Goes
    <2>2. IsDns(x.of) /\ x.trail = <<"DnsQuery">> /\ ~x.asked /\ Askable(x)
        BY <1>1, <2>1 DEF Honest, UdpHonest, DnsHonest
    <2>3. /\ Gone(e) \in Record /\ Honest(Gone(e))
          /\ Waiting(e) \in Record /\ Honest(Waiting(e))
        BY <1>1, <2>1, <2>2 DEF Gone, Waiting, Record, Honest, DnsHonest, Askable
    <2>4. Answered(e, <<"overridden">>)
             = [x EXCEPT !.at = "answering", !.trail = <<"DnsQuery", "overridden">>]
        BY <2>2, Trails DEF Answered, Reports
    <2>5. /\ Answered(e, <<"overridden">>) \in Record
          /\ Honest(Answered(e, <<"overridden">>))
        BY <1>1, <2>1, <2>2, <2>4, Trails DEF Record, Honest, DnsHonest
    <2>6. QED
        BY <1>5, <2>3, <2>5, Goes1 DEF Decide
<1>6. ASSUME Forwarded(e) PROVE ExchangeInv'
    <2>1. IsDns(x.of) /\ x.at = "waiting"
        BY <1>6 DEF Forwarded, Goes
    <2>2. x.trail = <<"DnsQuery">> /\ x.asked /\ Askable(x)
        BY <1>1, <2>1 DEF Honest, DnsHonest
    <2>3. Gone(e) \in Record /\ Honest(Gone(e))
        BY <1>1, <2>1, <2>2 DEF Gone, Record, Honest, DnsHonest, Askable
    <2>4. ASSUME NEW answers \in parse_answers
          PROVE  Answered(e, <<answers>>) \in Record /\ Honest(Answered(e, <<answers>>))
        <3>1. Answered(e, <<answers>>)
                 = [x EXCEPT !.at = "answering", !.trail = <<"DnsQuery", answers>>]
            BY <2>2, Trails DEF Answered, Reports, parse_answers
        <3>2. <<"DnsQuery", answers>> \in Seq(Event)
            BY Trails DEF parse_answers
        <3> DEFINE y == [x EXCEPT !.at = "answering", !.trail = <<"DnsQuery", answers>>]
        <3>3. y \in Record
            BY <1>1, <3>2 DEF Record
        <3>4. /\ y.of = x.of /\ y.at = "answering" /\ y.asked = x.asked
              /\ y.trail = <<"DnsQuery", answers>> /\ y.packet = x.packet
            BY <1>1 DEF Record
        <3>5. y.trail \in {<<"DnsQuery", "resolved">>, <<"DnsQuery", "empty">>}
            BY <3>4 DEF parse_answers
        <3>6. Askable(y)
            BY <2>2, <3>4 DEF Askable
        <3> HIDE DEF y
        <3>7. DnsHonest(y)
            BY <2>2, <3>4, <3>5, <3>6 DEF DnsHonest
        <3>8. Honest(y)
            BY <2>1, <3>4, <3>7 DEF Honest
        <3>9. QED
            BY <3>1, <3>3, <3>8 DEF y
    <2>5. QED
        BY <1>6, <2>3, <2>4, Goes1 DEF Forwarded
<1>7. ASSUME Respond(e) \/ SendTo(e) PROVE ExchangeInv'
    <2>1. x.at = "answering"
        BY <1>7 DEF Respond, SendTo, Goes
    <2>2. Gone(e) \in Record /\ Honest(Gone(e))
        BY <1>1, <2>1 DEF Gone, Record, Honest, DnsHonest, UdpHonest, Askable, parse_answers
    <2>3. exchange' = [exchange EXCEPT ![e] = Gone(e)] /\ setup' = setup
        BY <1>7 DEF Respond, SendTo, Goes
    <2>4. /\ exchange' \in Seq(Record) /\ Len(exchange') = Len(exchange)
          /\ \A i \in 1..Len(exchange) : exchange'[i] = IF i = e THEN Gone(e) ELSE exchange[i]
        BY <2>2, <2>3, ExceptSeq DEF ExchangeInv
    <2>5. \A y : Honest(y) <=> Honest(y)'
        BY <2>3 DEF Honest, IsDns
    <2>6. QED
        BY <2>2, <2>3, <2>4, <2>5 DEF ExchangeInv
<1>8. QED
    BY <1>2, <1>3, <1>4, <1>5, <1>6, <1>7 DEF ExchangeMoves

-----------------------------------------------------------------------------
(* Every state.                                                            *)

\* In the beginning there is neither a flow nor an exchange.
LEMMA InitIInv == Init => IInv
<1> SUFFICES ASSUME Init PROVE IInv
    OBVIOUS
<1> USE Capacities DEF Init
<1>1. FlowTypes
    BY DEF FlowTypes
<1>2. LoopInv /\ GenInv /\ RunningInv /\ OneFlowPerKey
    BY DEF LoopInv, GenInv, RunningInv, OneFlowPerKey, Running
<1>3. CompletedInv /\ EntryInv /\ ListedIsNewest
    BY DEF CompletedInv, Completed, EntryInv, ListedIsNewest
<1>4. ExchangeInv
    <2>1. setup.exchanges \in Nat
        BY SetupBounds
    <2>2. QED
        BY <2>1 DEF ExchangeInv
<1>5. QED
    BY <1>1, <1>2, <1>3, <1>4 DEF IInv, TableInv

\* Every step keeps the exchanges honest: udp_loop starts some and touches none.
LEMMA ExchangesStep ==
    ASSUME FlowTypes, TableInv, ExchangeInv, [Next]_vars
    PROVE  ExchangeInv'
<1>1. ASSUME UNCHANGED <<setup, exchange>> PROVE ExchangeInv'
    BY <1>1 DEF ExchangeInv, Honest, IsDns
<1>2. ASSUME NEW k \in Key, Spawn(k), UNCHANGED setup PROVE ExchangeInv'
    BY <1>2, SpawnStep
<1>3. ASSUME NEW k \in Key, NEW initial \in BOOLEAN, ToNobody(k, initial) PROVE ExchangeInv'
    BY <1>1, <1>2, <1>3 DEF ToNobody
<1>4. CASE StartFails \/ DispatchInitial
    <2>1. at \in Key
        BY <1>4 DEF TableInv, LoopInv, StartFails, DispatchInitial
    <2>2. QED
        BY <1>1, <1>2, <1>4, <2>1 DEF StartFails, DispatchInitial
<1>5. ASSUME NEW k \in Key, Receive(k) PROVE ExchangeInv'
    BY <1>2, <1>5 DEF Receive
<1>6. ASSUME NEW e \in Exchange, ExchangeMoves(e) \/ Decide(e) PROVE ExchangeInv'
    <2>1. e \in 1..Len(exchange)
        BY <1>6 DEF ExchangeMoves, Decide, ExchangeInv
    <2>2. QED
        BY <1>6, <2>1, ExchangeStep
<1>7. ASSUME NEW k \in Key, ToFlow(k) PROVE ExchangeInv'
    BY <1>1, <1>7 DEF ToFlow
<1>8. CASE StartFlow \/ TakeCompletion \/ TakeResponse \/ Written \/ LoopEnds
    BY <1>1, <1>8 DEF StartFlow, TakeCompletion, TakeResponse, Written, LoopEnds
<1>9. ASSUME NEW g \in Gen, FlowStep(g) PROVE ExchangeInv'
    BY <1>1, <1>9 DEF FlowStep, FlowMoves, TakeDatagram, Reply, FlowEnds, PushResponse,
                      HandleDropped, SendCompletion, Return
<1>10. CASE UNCHANGED vars
    BY <1>1, <1>10 DEF vars
<1>11. setup.keys \subseteq Key
    BY SetupBounds DEF FlowTypes
<1>12. QED
    BY <1>3, <1>4, <1>5, <1>6, <1>7, <1>8, <1>9, <1>10, <1>11 DEF Next

\* The invariant holds in every state.
THEOREM Invariance == Spec => []IInv
<1>1. IInv /\ [Next]_vars => IInv'
    <2> SUFFICES ASSUME IInv, [Next]_vars PROVE IInv'
        OBVIOUS
    <2>1. FlowTypes /\ TableInv /\ ExchangeInv
        BY DEF IInv
    <2>2. FlowTypes' /\ ExchangeInv'
        BY <2>1, TypeStep, ExchangesStep
    <2>3. TableInv'
        BY <2>1, LoopStep, GenStep, RunningStep, CompletedStep, EntryStep, OneStep, NewestStep
        DEF TableInv
    <2>4. QED
        BY <2>2, <2>3 DEF IInv
<1>2. QED
    BY InitIInv, <1>1, PTL DEF Spec

-----------------------------------------------------------------------------
(* What the table and the exchanges promise.                               *)

\* What an exchange has reported is what AnswersAreReported asks of it.
LEMMA HonestIsReported ==
    ASSUME NEW x \in Record, Honest(x)
    PROVE  /\ x.trail \in Reported(x)
           /\ IsDns(x.of) /\ x.asked => ~Overrides(x.packet) /\ x.packet.parses
           /\ \A i \in DOMAIN x.trail : x.trail[i] = "overridden" => ~x.asked
<1>1. CASE ~IsDns(x.of)
    <2>1. UdpHonest(x)
        BY <1>1 DEF Honest
    <2>2. \A i \in DOMAIN x.trail : x.trail[i] # "overridden"
        BY <2>1 DEF UdpHonest
    <2>3. x.trail \in Reported(x)
        BY <1>1, <2>1 DEF UdpHonest, Reported
    <2>4. QED
        BY <1>1, <2>2, <2>3
<1>2. CASE IsDns(x.of)
    <2>1. DnsHonest(x)
        BY <1>2 DEF Honest
    <2>2. CASE x.asked
        <3>1. \/ x.trail = <<"DnsQuery">>
              \/ x.trail = <<"DnsQuery", "resolved">> \/ x.trail = <<"DnsQuery", "empty">>
            BY <2>1, <2>2 DEF DnsHonest
        <3>2. \A i \in DOMAIN x.trail : x.trail[i] # "overridden"
            BY <3>1
        <3>3. Askable(x)
            BY <2>1, <2>2 DEF DnsHonest
        <3>4. x.trail \in Reported(x)
            <4>1. x.at \in {"waiting", "answering", "gone"}
                BY <2>1, <2>2 DEF DnsHonest, Record
            <4>2. CASE x.at = "waiting"
                BY <1>2, <2>1, <4>2 DEF DnsHonest, Reported
            <4>3. CASE x.at = "answering"
                BY <1>2, <2>1, <2>2, <4>3 DEF DnsHonest, Reported
            <4>4. CASE x.at = "gone"
                BY <1>2, <4>4 DEF Reported
            <4>5. QED
                BY <4>1, <4>2, <4>3, <4>4
        <3>5. QED
            BY <3>2, <3>3, <3>4 DEF Askable
    <2>3. CASE ~x.asked
        <3>1. x.trail \in Reported(x)
            <4>1. x.at \in {"new", "deciding", "answering", "gone"}
                BY <2>1, <2>3 DEF DnsHonest, Record
            <4>2. CASE x.at = "new" \/ x.at = "deciding"
                BY <1>2, <2>1, <4>2 DEF DnsHonest, Reported
            <4>3. CASE x.at = "answering"
                BY <1>2, <2>1, <2>3, <4>3 DEF DnsHonest, Reported
            <4>4. CASE x.at = "gone"
                BY <1>2, <4>4 DEF Reported
            <4>5. QED
                BY <4>1, <4>2, <4>3, <4>4
        <3>2. QED
            BY <2>3, <3>1
    <2>4. QED
        BY <2>2, <2>3 DEF Record
<1>3. QED
    BY <1>1, <1>2

\* TableIsSound: there is at most one working flow per source and destination,
\* the table lists the newest one and forgets none that has ended, and an exchange
\* has reported what it has sent or passed on (udp_loop, run_h3_flow, exchange and
\* resolve_packet).
THEOREM TableIsSoundHolds == Spec => []TableIsSound
<1>1. IInv => TableIsSound
    <2> SUFFICES ASSUME IInv PROVE TableIsSound
        OBVIOUS
    <2>1. DOMAIN exchange = 1..Len(exchange) /\ \A e \in DOMAIN exchange : exchange[e] \in Record
        BY DEF IInv, ExchangeInv
    <2>2. TypeOK
        <3>1. \A e \in DOMAIN exchange :
                 exchange[e].at \in {"new", "deciding", "waiting", "answering", "gone"}
            BY <2>1 DEF Record
        <3>2. QED
            BY <3>1 DEF IInv, FlowTypes, ExchangeInv, TypeOK
    <2>3. OneFlowPerKey /\ ListedIsNewest
        BY DEF IInv, TableInv
    <2>4. EntryHasCompletion
        <3>1. DOMAIN completed = 1..Len(completed)
            BY DEF IInv, FlowTypes
        <3>2. QED
            BY <3>1 DEF IInv, TableInv, EntryInv, Completed, EntryHasCompletion
    <2>5. AnswersAreReported
        <3>1. \A e \in DOMAIN exchange : Honest(exchange[e])
            BY <2>1 DEF IInv, ExchangeInv
        <3>2. QED
            BY <2>1, <3>1, HonestIsReported DEF AnswersAreReported
    <2>6. QED
        BY <2>2, <2>3, <2>4, <2>5 DEF TableIsSound
<1>2. QED
    BY Invariance, <1>1, PTL

\* CompletionIsOwn: no step takes a working flow out of the table, or another
\* one into its place, before the loop ends.
THEOREM CompletionIsOwnHolds == Spec => CompletionIsOwn
<1>1. ASSUME IInv, [Next]_vars,
             NEW k \in Key, table[k] # 0, Running(table[k]), loop' # "ended"
      PROVE  table'[k] = table[k]
    <2> FlowTypes /\ LoopInv /\ CompletedInv
        BY <1>1 DEF IInv, TableInv
    <2> USE DEF FlowTypes
    <2>1. ASSUME NEW j \in Key, NEW initial \in BOOLEAN, ToNobody(j, initial)
          PROVE  table'[k] = table[k]
        BY <1>1, <2>1 DEF ToNobody, Closed, Unlist, Running
    <2>2. CASE TakeCompletion
        <3> DEFINE g == Head(completed)
        <3>1. g \in Gen /\ Completed(g)
            BY <2>2, Unqueued DEF TakeCompletion
        <3>2. ~Running(g)
            BY <3>1 DEF CompletedInv, Running
        <3>3. \/ table' = [table EXCEPT ![key[g]] = 0] /\ table[key[g]] = g
              \/ table' = table
            BY <2>2 DEF TakeCompletion, Own, Unlist
        <3> HIDE DEF g
        <3>4. QED
            BY <1>1, <3>2, <3>3
    <2>3. CASE DispatchInitial
        BY <1>1, <2>3 DEF DispatchInitial, LoopInv
    <2>4. CASE LoopEnds
        BY <1>1, <2>4 DEF LoopEnds
    <2>5. ASSUME NEW j \in Key, ToFlow(j) PROVE table'[k] = table[k]
        BY <2>5 DEF ToFlow
    <2>6. CASE StartFlow \/ StartFails \/ TakeResponse \/ Written
        BY <2>6 DEF StartFlow, StartFails, TakeResponse, Written, flows
    <2>7. ASSUME NEW g \in Gen, FlowStep(g) PROVE table'[k] = table[k]
        BY <2>7 DEF FlowStep, FlowMoves, TakeDatagram, Reply, FlowEnds, PushResponse,
                    HandleDropped, SendCompletion, Return
    <2>8. CASE Others \/ UNCHANGED vars
        BY <2>8 DEF Others, flows, vars
    <2>9. setup.keys \subseteq Key
        BY SetupBounds
    <2>10. QED
        BY <1>1, <2>1, <2>2, <2>3, <2>4, <2>5, <2>6, <2>7, <2>8, <2>9, ExchangesApart DEF Next
<1>2. IInv /\ [Next]_vars =>
          [\A k \in Key :
             table[k] # 0 /\ Running(table[k]) /\ loop' # "ended" => table'[k] = table[k]]_vars
    BY <1>1
<1>3. QED
    BY Invariance, <1>2, PTL DEF Spec, CompletionIsOwn

=============================================================================
