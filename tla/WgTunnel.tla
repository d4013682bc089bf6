------------------------------ MODULE WgTunnel ------------------------------
(***************************************************************************)
(* The WireGuard endpoint (proxyapi/src/proxy/wireguard.rs): serve and the *)
(* tasks it supervises.  wireguard_loop owns the socket and the tunnel,    *)
(* stack_bridge the userspace network stack; two bounded channels connect  *)
(* them, and each loop awaits a full one inside its select! arm.  The      *)
(* other four tasks matter here only by how they end.                      *)
(* An IP packet is its number, in the order it was decrypted or produced.  *)
(* What every specification has carries Wg here: WireGuardProofs extends   *)
(* this module and UdpFlows, the loop behind the stack.                    *)
(***************************************************************************)
EXTENDS Naturals, Sequences

CONSTANTS
    Addr,   \* addresses a peer may send from
    NoAddr, \* "no endpoint yet"
    Cap,    \* capacity of the two channels, 1_024 in serve
    MaxIn,  \* bound: IP packets that arrive through the tunnel
    MaxOut  \* bound: IP packets the network stack produces

ASSUME AddrAssumption    == NoAddr \notin Addr
ASSUME WgCapAssumption   == Cap \in Nat \ {0}
ASSUME WgBoundAssumption == MaxIn \in Nat /\ MaxOut \in Nat

VARIABLES
    task,      \* how each task of the JoinSet stands
    wg,        \* where wireguard_loop is
    from,      \* source of the datagram it processes
    endpoint,  \* Peer.endpoint
    arrived,   \* packets decrypted so far; the last may be in its hands
    decrypted, \* channel to stack_bridge
    bridge,    \* where stack_bridge is
    stacked,   \* packets the network stack has taken
    produced,  \* packets the stack has produced; the last may be in the bridge
    encrypted, \* channel to wireguard_loop
    sent,      \* packets it has taken to encrypt
    replays,   \* the interface still holds the replay sender
    serve,     \* serve: "running", "stopping", "returned"
    result     \* and its result

wgVars == <<task, wg, from, endpoint, arrived, decrypted, bridge, stacked,
          produced, encrypted, sent, replays, serve, result>>

inward   == <<from, endpoint, arrived, decrypted, stacked>>
outward  == <<produced, encrypted, sent>>
rest     == <<replays, serve, result>>

Task == {"wg", "bridge", "runner", "tcp", "udp", "replay"}

Cancelled == serve # "running"

Runs(t) == task[t] = "run"

End(t, how) == task' = [task EXCEPT ![t] = how]

WgInit ==
    /\ task = [t \in Task |-> "run"]
    /\ wg = "select" /\ bridge = "select"
    /\ from = NoAddr /\ endpoint = NoAddr
    /\ arrived = 0 /\ decrypted = <<>> /\ stacked = 0
    /\ produced = 0 /\ encrypted = <<>> /\ sent = 0
    /\ replays = TRUE
    /\ serve = "running" /\ result = "none"

-----------------------------------------------------------------------------
(* wireguard_loop.                                                         *)

Datagram(a) ==
    /\ Runs("wg") /\ wg = "select"
    /\ from' = a
    /\ wg' = "process"
    /\ UNCHANGED <<task, endpoint, arrived, decrypted, bridge, stacked, outward, rest>>

\* decapsulate says Done, or rejects the packet.
Reject ==
    /\ Runs("wg") /\ wg = "process"
    /\ wg' = "select"
    /\ UNCHANGED <<task, inward, bridge, outward, rest>>

\* WriteToNetwork: the source becomes the endpoint; then decapsulate again, or
\* the answer cannot be sent and the task ends with the error.
AnswerPeer ==
    /\ Runs("wg") /\ wg = "process"
    /\ endpoint' = from
    /\ task' = task \/ End("wg", "failed")
    /\ UNCHANGED <<wg, from, arrived, decrypted, bridge, stacked, outward, rest>>

\* WriteToTunnel: an IP packet for the stack.
Decrypt ==
    /\ Runs("wg") /\ wg = "process"
    /\ arrived < MaxIn
    /\ endpoint' = from
    /\ arrived' = arrived + 1
    /\ wg' = "push"
    /\ UNCHANGED <<task, from, decrypted, bridge, stacked, outward, rest>>

DecryptedRoom == Len(decrypted) < Cap

\* decrypted_tx.send: nothing else of the loop runs while it waits for room.
PushDecrypted ==
    /\ Runs("wg") /\ wg = "push"
    /\ IF Runs("bridge")
       THEN /\ DecryptedRoom
            /\ decrypted' = Append(decrypted, arrived)
            /\ wg' = "select"
            /\ UNCHANGED task
       ELSE End("wg", "failed") /\ UNCHANGED <<decrypted, wg>>
    /\ UNCHANGED <<from, endpoint, arrived, bridge, stacked, outward, rest>>

\* process_outgoing: sent to the endpoint, or dropped when there is none, when
\* it is too large or when the tunnel has no session.
Encrypt ==
    /\ Runs("wg") /\ wg = "select"
    /\ encrypted # <<>>
    /\ sent' = Head(encrypted)
    /\ encrypted' = Tail(encrypted)
    /\ task' = task \/ (endpoint # NoAddr /\ End("wg", "failed"))
    /\ UNCHANGED <<wg, inward, bridge, produced, rest>>

\* recv_from or the send of process_timer fails, the channel from the bridge
\* is closed, or the token is cancelled.
WgEnds ==
    /\ Runs("wg") /\ wg = "select"
    /\ \/ End("wg", "failed")
       \/ (Cancelled \/ (encrypted = <<>> /\ ~Runs("bridge"))) /\ End("wg", "ok")
    /\ UNCHANGED <<wg, inward, bridge, outward, rest>>

-----------------------------------------------------------------------------
(* stack_bridge.                                                           *)

TakeDecrypted ==
    /\ Runs("bridge") /\ bridge = "select"
    /\ decrypted # <<>>
    /\ decrypted' = Tail(decrypted)
    /\ bridge' = "sink"
    /\ UNCHANGED <<task, wg, from, endpoint, arrived, stacked, outward, rest>>

\* The stack takes the packet, or refuses it as invalid.
Sink ==
    /\ Runs("bridge") /\ bridge = "sink"
    /\ stacked' = stacked + 1
    /\ bridge' = "select"
    /\ UNCHANGED <<task, wg, from, endpoint, arrived, decrypted, outward, rest>>

FromStack ==
    /\ Runs("bridge") /\ bridge = "select"
    /\ produced < MaxOut
    /\ produced' = produced + 1
    /\ bridge' = "push"
    /\ UNCHANGED <<task, wg, inward, encrypted, sent, rest>>

BugPushFront(p) == encrypted' = <<p>> \o encrypted

PushBack(p) == encrypted' = Append(encrypted, p)

\* encrypted_tx.send: likewise.
PushEncrypted ==
    /\ Runs("bridge") /\ bridge = "push"
    /\ IF Runs("wg")
       THEN /\ Len(encrypted) < Cap
            /\ PushBack(produced)
            /\ bridge' = "select"
            /\ UNCHANGED task
       ELSE End("bridge", "failed") /\ UNCHANGED <<encrypted, bridge>>
    /\ UNCHANGED <<wg, inward, produced, sent, rest>>

\* The stream of the stack ends or fails, the channel from wireguard_loop is
\* closed, or the token is cancelled.
BridgeEnds ==
    /\ Runs("bridge") /\ bridge = "select"
    /\ \/ \E how \in {"ok", "failed"} : End("bridge", how)
       \/ (Cancelled \/ (decrypted = <<>> /\ ~Runs("wg"))) /\ End("bridge", "ok")
    /\ UNCHANGED <<wg, inward, bridge, outward, rest>>

-----------------------------------------------------------------------------
(* The other tasks, and serve.                                             *)

\* tcp_loop and udp_loop end with their sockets, the runner with an error.
OtherEnds(t) ==
    /\ t \in {"runner", "tcp", "udp"}
    /\ Runs(t)
    /\ \E how \in {"ok", "failed"} : End(t, how)
    /\ UNCHANGED <<wg, inward, bridge, outward, rest>>

\* The interface is gone and drops its end of the replay channel.
DropReplays ==
    /\ replays
    /\ replays' = FALSE
    /\ UNCHANGED <<task, wg, inward, bridge, outward, serve, result>>

\* receive_replay stays pending on a closed channel: only the token ends it.
ReplayDone == Cancelled

ReplayEnds ==
    /\ Runs("replay")
    /\ ReplayDone
    /\ End("replay", "ok")
    /\ UNCHANGED <<wg, inward, bridge, outward, rest>>

Shutdown ==
    /\ serve = "running"
    /\ serve' = "stopping"
    /\ result' = "ok"
    /\ UNCHANGED <<task, wg, inward, bridge, outward, replays>>

BugNoticed == {t \in Task : task[t] = "failed"}

\* tasks.join_next: a task that ends before shutdown is an error, whatever it
\* returned.
Noticed == {t \in Task : ~Runs(t)}

TaskStopped ==
    /\ serve = "running"
    /\ Noticed # {}
    /\ serve' = "stopping"
    /\ result' = "error"
    /\ UNCHANGED <<task, wg, inward, bridge, outward, replays>>

\* abort_all, at whatever await each task is; then they are joined.
AbortAll ==
    /\ serve = "stopping"
    /\ task' = [t \in Task |-> IF Runs(t) THEN "aborted" ELSE task[t]]
    /\ serve' = "returned"
    /\ UNCHANGED <<wg, inward, bridge, outward, replays, result>>

-----------------------------------------------------------------------------
WgStep == Reject \/ AnswerPeer \/ Decrypt \/ PushDecrypted \/ Encrypt

BridgeStep == TakeDecrypted \/ Sink \/ PushEncrypted

WgNext ==
    \/ \E a \in Addr : Datagram(a)
    \/ WgStep \/ WgEnds
    \/ BridgeStep \/ FromStack \/ BridgeEnds
    \/ \E t \in Task : OtherEnds(t)
    \/ DropReplays \/ ReplayEnds
    \/ Shutdown \/ TaskStopped \/ AbortAll

WgSpec == WgInit /\ [][WgNext]_wgVars

\* The two loops go on as far as their channels let them, the stack takes what
\* it is given, and serve is polled.  A decapsulation ends, one way or another.
WgFairSpec ==
    /\ WgSpec
    /\ WF_wgVars(Reject \/ Decrypt) /\ WF_wgVars(PushDecrypted) /\ WF_wgVars(Encrypt)
    /\ WF_wgVars(BridgeStep)
    /\ WF_wgVars(TaskStopped \/ AbortAll)

-----------------------------------------------------------------------------
WgTypeOK ==
    /\ task \in [Task -> {"run", "ok", "failed", "aborted"}]
    /\ wg \in {"select", "process", "push"}
    /\ bridge \in {"select", "sink", "push"}
    /\ from \in Addr \cup {NoAddr} /\ endpoint \in Addr \cup {NoAddr}
    /\ arrived \in 0..MaxIn /\ stacked \in 0..MaxIn
    /\ produced \in 0..MaxOut /\ sent \in 0..MaxOut
    /\ decrypted \in Seq(1..MaxIn) /\ Len(decrypted) <= Cap
    /\ encrypted \in Seq(1..MaxOut) /\ Len(encrypted) <= Cap
    /\ replays \in BOOLEAN
    /\ serve \in {"running", "stopping", "returned"}
    /\ result \in {"none", "ok", "error"}

Numbers(a, b) == [k \in 1..(b - a) |-> a + k]

InHand(h, n) == IF h THEN <<n>> ELSE <<>>

\* Between tunnel and stack nothing is lost, doubled or overtaken: in the
\* bridge, the channel and the loop are exactly the packets not yet delivered.
NothingLostInside ==
    /\ InHand(bridge = "sink", stacked + 1) \o decrypted \o InHand(wg = "push", arrived)
         = Numbers(stacked, arrived)
    /\ encrypted \o InHand(bridge = "push", produced) = Numbers(sent, produced)

\* serve reports an error only for a task that ended by itself: neither the
\* end of the interface nor a task that obeys the token is one.
ErrorHasCause ==
    result = "error" =>
        \E t \in Task \ {"replay"} : task[t] \in {"ok", "failed"}

\* The endpoint relays what it was given and reports what went wrong, whichever
\* task stops first.
TunnelIsSound == WgTypeOK /\ NothingLostInside /\ ErrorHasCause

\* A stopped part stops the whole endpoint, also when the two loops wait for
\* each other and never see the token.
StopsTogether == (\E t \in Task : ~Runs(t)) ~> serve = "returned"
=============================================================================
