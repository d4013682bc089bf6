--------------------------- MODULE ExchangeProofs ---------------------------
(* Proofs about the two models of an exchange: Http1Pool, for every number   *)
(* of senders and connections; then Relay, for every message.                *)
EXTENDS Http1Pool, Relay, SequenceTheorems, FiniteSetTheorems, TLAPS

-----------------------------------------------------------------------------
(* Http1Pool: the inductive invariant.                                     *)

\* The places of a sender before its command is in the channel.
Unsent == {"start", "lock", "connect", "claim", "publish", "queue", "wait", "reserved"}

\* What each connection holds, and for whom.
ConnInv ==
    \A c \in Conn :
        /\ phase[c] = "unused" => permit[c] = "free" /\ c \notin pool
        /\ cur[c] # "none" <=> Busy(c)
        /\ permit[c] = "cmd" <=> queue[c] # "none"
        /\ permit[c] = "driver" <=> Busy(c)
        /\ permit[c] \in Sender =>
              conn[permit[c]] = c /\ pc[permit[c]] \in {"publish", "wait", "reserved"}

\* A command that nobody has answered belongs to a sender that waits for it
\* or has been cancelled; it is unwritten until its head is.
CommandInv ==
    \A c \in Conn :
        /\ queue[c] # "none" =>
              /\ conn[queue[c]] = c
              /\ pc[queue[c]] \in {"await", "cancelled"}
              /\ reply[queue[c]] = "none"
              /\ written[queue[c]] = {}
        /\ phase[c] \in {"encode", "exchange"} =>
              /\ conn[cur[c]] = c
              /\ pc[cur[c]] \in {"await", "cancelled"}
              /\ reply[cur[c]] = "none"
              /\ written[cur[c]] = IF phase[c] = "encode" THEN {} ELSE {c}
              /\ unread[c] \in {"none", cur[c]}

\* Where each sender can be, given what it holds and what was written for it.
SenderInv ==
    \A s \in Sender :
        /\ conn[s] # NoConn => phase[conn[s]] # "unused"
        /\ pc[s] \in {"claim", "publish", "queue", "wait", "reserved", "await",
                      "failed", "notsent"} => conn[s] # NoConn
        /\ pc[s] \in {"publish", "reserved"} => permit[conn[s]] = s
        /\ pc[s] = "claim" => permit[conn[s]] = "free"
        /\ pc[s] \in {"claim", "publish"} =>
              conn[s] \notin pool /\ \A t \in Sender \ {s} : conn[t] # conn[s]
        /\ pc[s] \in Unsent => reply[s] = "none" /\ written[s] = {}
        /\ pc[s] = "notsent" => written[s] = {}
        /\ pc[s] = "await" /\ reply[s] = "notsent" => written[s] = {}
        /\ pc[s] = "await" /\ reply[s] = "ok" => written[s] # {}
        /\ written[s] \in {{}, {conn[s]}}
        /\ answer[s] \in {"none", s}

\* The connect lock is held from the decision to connect until the connection
\* is in the pool, and the pool has room for it all that time.
LockInv ==
    \A s \in Sender : pc[s] \in {"connect", "claim", "publish"} <=> connectLock = s

CountInv ==
    /\ Cardinality(pool) <= MaxPerKey
    /\ connectLock # "none" => Cardinality(pool) < MaxPerKey

IInv == TypeOK /\ ConnInv /\ CommandInv /\ SenderInv /\ LockInv /\ CountInv

\* No connection, no command and no holder exists at the start.
LEMMA InitIInv == Init => IInv
  BY SenderAssumption, ConnAssumption, MaxAssumption, FS_EmptySet
  DEF Init, IInv, TypeOK, ConnInv, CommandInv, SenderInv, LockInv, CountInv,
      Location, Phase, Busy, Unsent

\* Every step of a sender or a driver keeps the types; SenderInv says that a
\* sender past choosing has a connection.
LEMMA TypeStep == TypeOK /\ SenderInv /\ [Next]_vars => TypeOK'
<1> SUFFICES ASSUME TypeOK, SenderInv, [Next]_vars PROVE TypeOK'
    OBVIOUS
<1> USE SenderAssumption, ConnAssumption DEF TypeOK, Location, Phase, pooling, history
<1>1. ASSUME NEW s \in Sender, NEW c \in Conn, ChooseReserved(s, c) PROVE TypeOK'
    BY <1>1 DEF ChooseReserved, Choosing, LiveClients, FreeClients
<1>2. ASSUME NEW s \in Sender, NEW c \in Conn, ChooseWait(s, c) PROVE TypeOK'
    BY <1>2 DEF ChooseWait, Choosing, LiveClients, FreeClients
<1>3. ASSUME NEW s \in Sender, NEW c \in Conn, Connected(s, c) PROVE TypeOK'
    BY <1>3 DEF Connected
<1>4. ASSUME NEW s \in Sender, ChooseConnect(s) PROVE TypeOK'
    BY <1>4 DEF ChooseConnect, Choosing, LiveClients, FreeClients
<1>5. ASSUME NEW s \in Sender, ConnectFails(s) PROVE TypeOK'
    BY <1>5 DEF ConnectFails
<1>6. ASSUME NEW s \in Sender, Claim(s) PROVE TypeOK'
    BY <1>6 DEF Claim, SenderInv
<1>7. ASSUME NEW s \in Sender, ClaimFails(s) PROVE TypeOK'
    BY <1>7 DEF ClaimFails
<1>8. ASSUME NEW s \in Sender, Publish(s) PROVE TypeOK'
    BY <1>8 DEF Publish, SenderInv
<1>9. ASSUME NEW s \in Sender, Enqueue(s) PROVE TypeOK'
    BY <1>9 DEF Enqueue
<1>10. ASSUME NEW s \in Sender, Granted(s) PROVE TypeOK'
    BY <1>10 DEF Granted
<1>11. ASSUME NEW s \in Sender, Refused(s) PROVE TypeOK'
    BY <1>11 DEF Refused
<1>12. ASSUME NEW s \in Sender, SendCommand(s) PROVE TypeOK'
    BY <1>12 DEF SendCommand
<1>13. ASSUME NEW s \in Sender, SendRefused(s) PROVE TypeOK'
  <2>1. PICK h \in Waiting(conn[s]) \cup {"free"} : permit' = [permit EXCEPT ![conn[s]] = h]
    BY <1>13 DEF SendRefused, Release
  <2>2. h = "free" \/ (h \in Sender /\ pc[h] = "wait" /\ conn[h] = conn[s])
    BY <2>1 DEF Waiting
  <2> QED
    BY <1>13, <2>1, <2>2 DEF SendRefused
<1>14. ASSUME NEW s \in Sender, Receive(s) PROVE TypeOK'
    BY <1>14 DEF Receive
<1>15. ASSUME NEW s \in Sender, ReportFailure(s) PROVE TypeOK'
    BY <1>15 DEF ReportFailure
<1>16. ASSUME NEW s \in Sender, RetryOrGiveUp(s) PROVE TypeOK'
    BY <1>16 DEF RetryOrGiveUp
<1>17. ASSUME NEW s \in Sender, Cancel(s) PROVE TypeOK'
  <2>1. CASE conn[s] # NoConn /\ permit[conn[s]] = s
    <3>1. PICK h \in (Waiting(conn[s]) \ {s}) \cup {"free"} :
             permit' = [permit EXCEPT ![conn[s]] = h]
      BY <1>17, <2>1 DEF Cancel, Release
    <3>2. h = "free" \/ (h \in Sender \ {s} /\ pc[h] = "wait" /\ conn[h] = conn[s])
      BY <3>1 DEF Waiting
    <3> QED
      BY <1>17, <2>1, <3>1, <3>2 DEF Cancel
  <2>2. CASE ~(conn[s] # NoConn /\ permit[conn[s]] = s)
    BY <1>17, <2>2 DEF Cancel
  <2> QED
    BY <2>1, <2>2
<1>18. ASSUME NEW c \in Conn, IdleBreak(c) PROVE TypeOK'
    BY <1>18 DEF IdleBreak, Stop
<1>19. ASSUME NEW c \in Conn, Take(c) PROVE TypeOK'
    BY <1>19 DEF Take, Quiet
<1>20. ASSUME NEW c \in Conn, EncodeFails(c) PROVE TypeOK'
  <2>1. PICK h \in Waiting(c) \cup {"free"} : permit' = [permit EXCEPT ![c] = h]
    BY <1>20 DEF EncodeFails, EndExchange, Release
  <2>2. h = "free" \/ (h \in Sender /\ pc[h] = "wait" /\ conn[h] = c)
    BY <2>1 DEF Waiting
  <2> QED
    BY <1>20, <2>1, <2>2 DEF EncodeFails, Stop, Answer, EndExchange
<1>21. ASSUME NEW c \in Conn, WriteHead(c) PROVE TypeOK'
    BY <1>21 DEF WriteHead
<1>22. ASSUME NEW c \in Conn, ExchangeFails(c) PROVE TypeOK'
  <2>1. PICK h \in Waiting(c) \cup {"free"} : permit' = [permit EXCEPT ![c] = h]
    BY <1>22 DEF ExchangeFails, EndExchange, Release
  <2>2. h = "free" \/ (h \in Sender /\ pc[h] = "wait" /\ conn[h] = c)
    BY <2>1 DEF Waiting
  <2> QED
    BY <1>22, <2>1, <2>2 DEF ExchangeFails, Stop, Answer, EndExchange, AfterWrite
<1>23. ASSUME NEW c \in Conn, Respond(c) PROVE TypeOK'
    BY <1>23 DEF Respond, ReadHead, Answer
<1>24. ASSUME NEW c \in Conn, Upgrade(c) PROVE TypeOK'
  <2>1. PICK h \in Waiting(c) \cup {"free"} : permit' = [permit EXCEPT ![c] = h]
    BY <1>24 DEF Upgrade, EndExchange, Release
  <2>2. h = "free" \/ (h \in Sender /\ pc[h] = "wait" /\ conn[h] = c)
    BY <2>1 DEF Waiting
  <2> QED
    BY <1>24, <2>1, <2>2 DEF Upgrade, ReadHead, Answer, Stop, EndExchange
<1>25. ASSUME NEW c \in Conn, KeepAlive(c) PROVE TypeOK'
  <2>1. PICK h \in Waiting(c) \cup {"free"} : permit' = [permit EXCEPT ![c] = h]
    BY <1>25 DEF KeepAlive, EndExchange, Release
  <2>2. h = "free" \/ (h \in Sender /\ pc[h] = "wait" /\ conn[h] = c)
    BY <2>1 DEF Waiting
  <2> QED
    BY <1>25, <2>1, <2>2 DEF KeepAlive, EndExchange
<1>26. ASSUME NEW c \in Conn, BodyBreak(c) PROVE TypeOK'
  <2>1. PICK h \in Waiting(c) \cup {"free"} : permit' = [permit EXCEPT ![c] = h]
    BY <1>26 DEF BodyBreak, EndExchange, Release
  <2>2. h = "free" \/ (h \in Sender /\ pc[h] = "wait" /\ conn[h] = c)
    BY <2>1 DEF Waiting
  <2> QED
    BY <1>26, <2>1, <2>2 DEF BodyBreak, EndExchange, Stop
<1>27. ASSUME NEW c \in Conn, CloseCommands(c) PROVE TypeOK'
    BY <1>27 DEF CloseCommands
<1>28. ASSUME NEW c \in Conn, CloseAvailability(c) PROVE TypeOK'
    BY <1>28 DEF CloseAvailability
<1>29. ASSUME NEW c \in Conn, ReturnQueued(c) PROVE TypeOK'
    BY <1>29 DEF ReturnQueued
<1>30. ASSUME NEW c \in Conn, DriverEnds(c) PROVE TypeOK'
    BY <1>30 DEF DriverEnds
<1>31. ASSUME NEW c \in Conn, Arrive(c) PROVE TypeOK'
    BY <1>31 DEF Arrive
<1>32. CASE UNCHANGED vars
    BY <1>32 DEF vars
<1>33. QED
    BY <1>1, <1>2, <1>3, <1>4, <1>5, <1>6, <1>7, <1>8, <1>9, <1>10, <1>11,
       <1>12, <1>13, <1>14, <1>15, <1>16, <1>17, <1>18, <1>19, <1>20, <1>21, <1>22,
       <1>23, <1>24, <1>25, <1>26, <1>27, <1>28, <1>29, <1>30, <1>31, <1>32
    DEF Next, SenderStep, DriverStep

\* The permit, the command slot and the current command of a connection change
\* hands together: sender to channel, channel to driver, driver to a waiter.
LEMMA ConnStep == TypeOK /\ ConnInv /\ SenderInv /\ [Next]_vars => ConnInv'
<1> SUFFICES ASSUME TypeOK, ConnInv, SenderInv, [Next]_vars PROVE ConnInv'
    OBVIOUS
<1> USE SenderAssumption, ConnAssumption
    DEF TypeOK, Location, Phase, ConnInv, pooling, history, Accepting, Acquirable,
        Busy
<1>1. ASSUME NEW s \in Sender, NEW c \in Conn, ChooseReserved(s, c) PROVE ConnInv'
    BY <1>1 DEF ChooseReserved, Choosing, LiveClients, FreeClients, SenderInv
<1>2. ASSUME NEW s \in Sender, NEW c \in Conn, ChooseWait(s, c) PROVE ConnInv'
    BY <1>2 DEF ChooseWait, Choosing, LiveClients, FreeClients, SenderInv
<1>3. ASSUME NEW s \in Sender, NEW c \in Conn, Connected(s, c) PROVE ConnInv'
    BY <1>3 DEF Connected, SenderInv
<1>4. ASSUME NEW s \in Sender, ChooseConnect(s) PROVE ConnInv'
    BY <1>4 DEF ChooseConnect, Choosing, LiveClients, FreeClients, SenderInv
<1>5. ASSUME NEW s \in Sender, ConnectFails(s) PROVE ConnInv'
    BY <1>5 DEF ConnectFails, SenderInv
<1>6. ASSUME NEW s \in Sender, Claim(s) PROVE ConnInv'
    BY <1>6 DEF Claim, SenderInv
<1>7. ASSUME NEW s \in Sender, ClaimFails(s) PROVE ConnInv'
    BY <1>7 DEF ClaimFails, SenderInv
<1>8. ASSUME NEW s \in Sender, Publish(s) PROVE ConnInv'
    BY <1>8 DEF Publish, SenderInv
<1>9. ASSUME NEW s \in Sender, Enqueue(s) PROVE ConnInv'
    BY <1>9 DEF Enqueue, SenderInv
<1>10. ASSUME NEW s \in Sender, Granted(s) PROVE ConnInv'
    BY <1>10 DEF Granted, SenderInv
<1>11. ASSUME NEW s \in Sender, Refused(s) PROVE ConnInv'
    BY <1>11 DEF Refused, SenderInv
<1>12. ASSUME NEW s \in Sender, SendCommand(s) PROVE ConnInv'
    BY <1>12 DEF SendCommand, SenderInv
<1>13. ASSUME NEW s \in Sender, SendRefused(s) PROVE ConnInv'
  <2>1. PICK h \in Waiting(conn[s]) \cup {"free"} : permit' = [permit EXCEPT ![conn[s]] = h]
    BY ZenonT(30), <1>13 DEF SendRefused, Release
  <2>2. h = "free" \/ (h \in Sender /\ pc[h] = "wait" /\ conn[h] = conn[s])
    BY <2>1 DEF Waiting
  <2> QED
    BY <1>13, <2>1, <2>2 DEF SendRefused, SenderInv
<1>14. ASSUME NEW s \in Sender, Receive(s) PROVE ConnInv'
    BY <1>14 DEF Receive, SenderInv
<1>15. ASSUME NEW s \in Sender, ReportFailure(s) PROVE ConnInv'
    BY <1>15 DEF ReportFailure, SenderInv
<1>16. ASSUME NEW s \in Sender, RetryOrGiveUp(s) PROVE ConnInv'
    BY <1>16 DEF RetryOrGiveUp, SenderInv
<1>17. ASSUME NEW s \in Sender, Cancel(s) PROVE ConnInv'
  <2>1. CASE conn[s] # NoConn /\ permit[conn[s]] = s
    <3>1. PICK h \in (Waiting(conn[s]) \ {s}) \cup {"free"} :
             permit' = [permit EXCEPT ![conn[s]] = h]
      BY <1>17, <2>1 DEF Cancel, Release
    <3>2. h = "free" \/ (h \in Sender \ {s} /\ pc[h] = "wait" /\ conn[h] = conn[s])
      BY <3>1 DEF Waiting
    <3> QED
      BY <1>17, <2>1, <3>1, <3>2 DEF Cancel
  <2>2. CASE ~(conn[s] # NoConn /\ permit[conn[s]] = s)
    BY <1>17, <2>2 DEF Cancel
  <2> QED
    BY <2>1, <2>2
<1>18. ASSUME NEW c \in Conn, IdleBreak(c) PROVE ConnInv'
    BY <1>18 DEF IdleBreak, Stop
<1>19. ASSUME NEW c \in Conn, Take(c) PROVE ConnInv'
    BY <1>19 DEF Take, Quiet
<1>20. ASSUME NEW c \in Conn, EncodeFails(c) PROVE ConnInv'
  <2>1. PICK h \in Waiting(c) \cup {"free"} : permit' = [permit EXCEPT ![c] = h]
    BY <1>20 DEF EncodeFails, EndExchange, Release
  <2>2. h = "free" \/ (h \in Sender /\ pc[h] = "wait" /\ conn[h] = c)
    BY <2>1 DEF Waiting
  <2> QED
    BY <1>20, <2>1, <2>2 DEF EncodeFails, Stop, Answer, EndExchange
<1>21. ASSUME NEW c \in Conn, WriteHead(c) PROVE ConnInv'
    BY <1>21 DEF WriteHead
<1>22. ASSUME NEW c \in Conn, ExchangeFails(c) PROVE ConnInv'
  <2>1. PICK h \in Waiting(c) \cup {"free"} : permit' = [permit EXCEPT ![c] = h]
    BY <1>22 DEF ExchangeFails, EndExchange, Release
  <2>2. h = "free" \/ (h \in Sender /\ pc[h] = "wait" /\ conn[h] = c)
    BY <2>1 DEF Waiting
  <2> QED
    BY <1>22, <2>1, <2>2 DEF ExchangeFails, Stop, Answer, EndExchange, AfterWrite
<1>23. ASSUME NEW c \in Conn, Respond(c) PROVE ConnInv'
    BY <1>23 DEF Respond, ReadHead, Answer
<1>24. ASSUME NEW c \in Conn, Upgrade(c) PROVE ConnInv'
  <2>1. PICK h \in Waiting(c) \cup {"free"} : permit' = [permit EXCEPT ![c] = h]
    BY <1>24 DEF Upgrade, EndExchange, Release
  <2>2. h = "free" \/ (h \in Sender /\ pc[h] = "wait" /\ conn[h] = c)
    BY <2>1 DEF Waiting
  <2> QED
    BY <1>24, <2>1, <2>2 DEF Upgrade, ReadHead, Answer, Stop, EndExchange
<1>25. ASSUME NEW c \in Conn, KeepAlive(c) PROVE ConnInv'
  <2>1. PICK h \in Waiting(c) \cup {"free"} : permit' = [permit EXCEPT ![c] = h]
    BY <1>25 DEF KeepAlive, EndExchange, Release
  <2>2. h = "free" \/ (h \in Sender /\ pc[h] = "wait" /\ conn[h] = c)
    BY <2>1 DEF Waiting
  <2> QED
    BY <1>25, <2>1, <2>2 DEF KeepAlive, EndExchange
<1>26. ASSUME NEW c \in Conn, BodyBreak(c) PROVE ConnInv'
  <2>1. PICK h \in Waiting(c) \cup {"free"} : permit' = [permit EXCEPT ![c] = h]
    BY <1>26 DEF BodyBreak, EndExchange, Release
  <2>2. h = "free" \/ (h \in Sender /\ pc[h] = "wait" /\ conn[h] = c)
    BY <2>1 DEF Waiting
  <2> QED
    BY <1>26, <2>1, <2>2 DEF BodyBreak, EndExchange, Stop
<1>27. ASSUME NEW c \in Conn, CloseCommands(c) PROVE ConnInv'
    BY <1>27 DEF CloseCommands
<1>28. ASSUME NEW c \in Conn, CloseAvailability(c) PROVE ConnInv'
    BY <1>28 DEF CloseAvailability
<1>29. ASSUME NEW c \in Conn, ReturnQueued(c) PROVE ConnInv'
    BY <1>29 DEF ReturnQueued
<1>30. ASSUME NEW c \in Conn, DriverEnds(c) PROVE ConnInv'
    BY <1>30 DEF DriverEnds
<1>31. ASSUME NEW c \in Conn, Arrive(c) PROVE ConnInv'
    BY <1>31 DEF Arrive
<1>32. CASE UNCHANGED vars
    BY <1>32 DEF vars
<1>33. QED
    BY <1>1, <1>2, <1>3, <1>4, <1>5, <1>6, <1>7, <1>8, <1>9, <1>10, <1>11,
       <1>12, <1>13, <1>14, <1>15, <1>16, <1>17, <1>18, <1>19, <1>20, <1>21, <1>22,
       <1>23, <1>24, <1>25, <1>26, <1>27, <1>28, <1>29, <1>30, <1>31, <1>32
    DEF Next, SenderStep, DriverStep

\* s is the sender of the command the driver of c works on.
OwnedBy(c, s) ==
    /\ s \in Sender
    /\ conn[s] = c
    /\ pc[s] \in {"await", "cancelled"}
    /\ reply[s] = "none"
    /\ unread[c] \in {"none", s}
    /\ permit[c] = "driver"

\* The command a driver holds has exactly one owner, who waits or was cancelled.
LEMMA OwnedCommand ==
    ASSUME TypeOK, ConnInv, CommandInv,
           NEW c \in Conn, phase[c] \in {"encode", "exchange"}
    PROVE  /\ OwnedBy(c, cur[c])
           /\ written[cur[c]] = IF phase[c] = "encode" THEN {} ELSE {c}
<1>1. Busy(c) /\ cur[c] # "none" /\ permit[c] = "driver"
    BY DEF ConnInv, Busy
<1>2. cur[c] \in Sender
    BY <1>1 DEF TypeOK
<1> QED
    BY <1>1, <1>2 DEF CommandInv, OwnedBy

\* The command in a channel is owned the same way, and is unwritten.
LEMMA QueuedCommand ==
    ASSUME TypeOK, ConnInv, CommandInv, NEW c \in Conn, queue[c] # "none"
    PROVE  /\ queue[c] \in Sender
           /\ conn[queue[c]] = c
           /\ pc[queue[c]] \in {"await", "cancelled"}
           /\ reply[queue[c]] = "none"
           /\ written[queue[c]] = {}
           /\ permit[c] = "cmd"
<1>1. queue[c] \in Sender
    BY DEF TypeOK
<1> QED
    BY ZenonT(30), <1>1 DEF ConnInv, CommandInv

\* A step of a sender that has no command outstanding, and that touches no
\* other sender, leaves the commands as they are.
LEMMA CommandFrame ==
    ASSUME TypeOK, ConnInv, CommandInv, NEW s \in Sender,
           pc[s] \notin {"await", "cancelled"},
           \A t \in Sender \ {s} :
               pc'[t] = pc[t] /\ conn'[t] = conn[t] /\ reply'[t] = reply[t],
           UNCHANGED <<phase, queue, cur, unread, written>>
    PROVE  CommandInv'
<1> SUFFICES ASSUME NEW c \in Conn PROVE CommandInv!(c)'
    BY DEF CommandInv
<1>1. queue[c] # "none" => queue[c] \in Sender \ {s}
    BY QueuedCommand
<1>2. phase[c] \in {"encode", "exchange"} => cur[c] \in Sender \ {s}
    BY OwnedCommand DEF OwnedBy
<1> QED
    BY <1>1, <1>2 DEF CommandInv

\* A command keeps its owner and stays unanswered until the driver answers it,
\* and written only where that driver runs.
LEMMA CommandStep ==
    TypeOK /\ ConnInv /\ CommandInv /\ SenderInv /\ [Next]_vars => CommandInv'
<1> SUFFICES ASSUME TypeOK, ConnInv, CommandInv, SenderInv, [Next]_vars PROVE CommandInv'
    OBVIOUS
<1> USE SenderAssumption, ConnAssumption
    DEF TypeOK, Location, Phase, pooling, history, Accepting, Acquirable, Busy
<1>1. ASSUME NEW s \in Sender, NEW c \in Conn, ChooseReserved(s, c) PROVE CommandInv'
    BY <1>1 DEF ChooseReserved, Choosing, LiveClients, FreeClients, CommandInv
<1>2. ASSUME NEW s \in Sender, NEW c \in Conn, ChooseWait(s, c) PROVE CommandInv'
    BY <1>2 DEF ChooseWait, Choosing, LiveClients, FreeClients, CommandInv
<1>3. ASSUME NEW s \in Sender, NEW c \in Conn, Connected(s, c) PROVE CommandInv'
    BY <1>3 DEF Connected, CommandInv
<1>4. ASSUME NEW s \in Sender, ChooseConnect(s) PROVE CommandInv'
  <2>1. /\ pc[s] \notin {"await", "cancelled"}
        /\ \A t \in Sender \ {s} :
               pc'[t] = pc[t] /\ conn'[t] = conn[t] /\ reply'[t] = reply[t]
        /\ UNCHANGED <<phase, queue, cur, unread, written>>
    BY <1>4 DEF ChooseConnect, Choosing
  <2> QED
    BY <2>1, CommandFrame
<1>5. ASSUME NEW s \in Sender, ConnectFails(s) PROVE CommandInv'
    BY <1>5 DEF ConnectFails, CommandInv
<1>6. ASSUME NEW s \in Sender, Claim(s) PROVE CommandInv'
    BY <1>6 DEF Claim, CommandInv
<1>7. ASSUME NEW s \in Sender, ClaimFails(s) PROVE CommandInv'
    BY <1>7 DEF ClaimFails, CommandInv
<1>8. ASSUME NEW s \in Sender, Publish(s) PROVE CommandInv'
    BY <1>8 DEF Publish, CommandInv
<1>9. ASSUME NEW s \in Sender, Enqueue(s) PROVE CommandInv'
  <2>1. /\ pc[s] \notin {"await", "cancelled"}
        /\ \A t \in Sender \ {s} :
               pc'[t] = pc[t] /\ conn'[t] = conn[t] /\ reply'[t] = reply[t]
        /\ UNCHANGED <<phase, queue, cur, unread, written>>
    BY <1>9 DEF Enqueue
  <2> QED
    BY <2>1, CommandFrame
<1>10. ASSUME NEW s \in Sender, Granted(s) PROVE CommandInv'
    BY <1>10 DEF Granted, CommandInv
<1>11. ASSUME NEW s \in Sender, Refused(s) PROVE CommandInv'
    BY <1>11 DEF Refused, CommandInv
<1>12. ASSUME NEW s \in Sender, SendCommand(s) PROVE CommandInv'
    BY <1>12 DEF SendCommand, CommandInv, SenderInv, ConnInv, Unsent
<1>13. ASSUME NEW s \in Sender, SendRefused(s) PROVE CommandInv'
  <2>1. PICK h \in Waiting(conn[s]) \cup {"free"} : permit' = [permit EXCEPT ![conn[s]] = h]
    BY <1>13 DEF SendRefused, Release
  <2>2. h = "free" \/ (h \in Sender /\ pc[h] = "wait" /\ conn[h] = conn[s])
    BY <2>1 DEF Waiting
  <2> QED
    BY <1>13, <2>1, <2>2 DEF SendRefused, CommandInv
<1>14. ASSUME NEW s \in Sender, Receive(s) PROVE CommandInv'
    BY <1>14 DEF Receive, CommandInv
<1>15. ASSUME NEW s \in Sender, ReportFailure(s) PROVE CommandInv'
    BY <1>15 DEF ReportFailure, CommandInv
<1>16. ASSUME NEW s \in Sender, RetryOrGiveUp(s) PROVE CommandInv'
  <2>1. /\ pc[s] \notin {"await", "cancelled"}
        /\ \A t \in Sender \ {s} :
               pc'[t] = pc[t] /\ conn'[t] = conn[t] /\ reply'[t] = reply[t]
        /\ UNCHANGED <<phase, queue, cur, unread, written>>
    BY <1>16 DEF RetryOrGiveUp
  <2> QED
    BY <2>1, CommandFrame
<1>17. ASSUME NEW s \in Sender, Cancel(s) PROVE CommandInv'
  <2>1. CASE conn[s] # NoConn /\ permit[conn[s]] = s
    <3>1. PICK h \in (Waiting(conn[s]) \ {s}) \cup {"free"} :
             permit' = [permit EXCEPT ![conn[s]] = h]
      BY <1>17, <2>1 DEF Cancel, Release
    <3>2. h = "free" \/ (h \in Sender \ {s} /\ pc[h] = "wait" /\ conn[h] = conn[s])
      BY <3>1 DEF Waiting
    <3> QED
      BY <1>17, <2>1, <3>1, <3>2 DEF Cancel, CommandInv
  <2>2. CASE ~(conn[s] # NoConn /\ permit[conn[s]] = s)
    BY <1>17, <2>2 DEF Cancel, CommandInv
  <2> QED
    BY <2>1, <2>2
<1>18. ASSUME NEW c \in Conn, IdleBreak(c) PROVE CommandInv'
    BY <1>18 DEF IdleBreak, Stop, CommandInv, ConnInv
<1>19. ASSUME NEW c \in Conn, Take(c) PROVE CommandInv'
    BY <1>19 DEF Take, Quiet, CommandInv, ConnInv
<1>20. ASSUME NEW c \in Conn, EncodeFails(c) PROVE CommandInv'
  <2>1. PICK h \in Waiting(c) \cup {"free"} : permit' = [permit EXCEPT ![c] = h]
    BY <1>20 DEF EncodeFails, EndExchange, Release
  <2>2. h = "free" \/ (h \in Sender /\ pc[h] = "wait" /\ conn[h] = c)
    BY <2>1 DEF Waiting
  <2> QED
    BY <1>20, <2>1, <2>2
    DEF EncodeFails, Stop, Answer, EndExchange, CommandInv, ConnInv
<1>21. ASSUME NEW c \in Conn, WriteHead(c) PROVE CommandInv'
    BY <1>21 DEF WriteHead, CommandInv, ConnInv
<1>22. ASSUME NEW c \in Conn, ExchangeFails(c) PROVE CommandInv'
  <2>1. PICK h \in Waiting(c) \cup {"free"} : permit' = [permit EXCEPT ![c] = h]
    BY <1>22 DEF ExchangeFails, EndExchange, Release
  <2>2. h = "free" \/ (h \in Sender /\ pc[h] = "wait" /\ conn[h] = c)
    BY <2>1 DEF Waiting
  <2> QED
    BY <1>22, <2>1, <2>2
    DEF ExchangeFails, Stop, Answer, EndExchange, AfterWrite, CommandInv,
        ConnInv
<1>23. ASSUME NEW c \in Conn, Respond(c) PROVE CommandInv'
    BY <1>23 DEF Respond, ReadHead, Answer, CommandInv, ConnInv
<1>24. ASSUME NEW c \in Conn, Upgrade(c) PROVE CommandInv'
  <2>1. PICK h \in Waiting(c) \cup {"free"} : permit' = [permit EXCEPT ![c] = h]
    BY <1>24 DEF Upgrade, EndExchange, Release
  <2>2. h = "free" \/ (h \in Sender /\ pc[h] = "wait" /\ conn[h] = c)
    BY <2>1 DEF Waiting
  <2> QED
    BY <1>24, <2>1, <2>2
    DEF Upgrade, ReadHead, Answer, Stop, EndExchange, CommandInv, ConnInv
<1>25. ASSUME NEW c \in Conn, KeepAlive(c) PROVE CommandInv'
  <2>1. PICK h \in Waiting(c) \cup {"free"} : permit' = [permit EXCEPT ![c] = h]
    BY <1>25 DEF KeepAlive, EndExchange, Release
  <2>2. h = "free" \/ (h \in Sender /\ pc[h] = "wait" /\ conn[h] = c)
    BY <2>1 DEF Waiting
  <2> QED
    BY <1>25, <2>1, <2>2 DEF KeepAlive, EndExchange, CommandInv, ConnInv
<1>26. ASSUME NEW c \in Conn, BodyBreak(c) PROVE CommandInv'
  <2>1. PICK h \in Waiting(c) \cup {"free"} : permit' = [permit EXCEPT ![c] = h]
    BY <1>26 DEF BodyBreak, EndExchange, Release
  <2>2. h = "free" \/ (h \in Sender /\ pc[h] = "wait" /\ conn[h] = c)
    BY <2>1 DEF Waiting
  <2> QED
    BY <1>26, <2>1, <2>2 DEF BodyBreak, EndExchange, Stop, CommandInv, ConnInv
<1>27. ASSUME NEW c \in Conn, CloseCommands(c) PROVE CommandInv'
    BY <1>27 DEF CloseCommands, CommandInv, ConnInv
<1>28. ASSUME NEW c \in Conn, CloseAvailability(c) PROVE CommandInv'
    BY <1>28 DEF CloseAvailability, CommandInv, ConnInv
<1>29. ASSUME NEW c \in Conn, ReturnQueued(c) PROVE CommandInv'
    BY <1>29 DEF ReturnQueued, CommandInv, ConnInv
<1>30. ASSUME NEW c \in Conn, DriverEnds(c) PROVE CommandInv'
    BY <1>30 DEF DriverEnds, CommandInv, ConnInv
<1>31. ASSUME NEW c \in Conn, Arrive(c) PROVE CommandInv'
    BY <1>31 DEF Arrive, CommandInv, ConnInv
<1>32. CASE UNCHANGED vars
    BY <1>32 DEF vars, CommandInv
<1>33. QED
    BY <1>1, <1>2, <1>3, <1>4, <1>5, <1>6, <1>7, <1>8, <1>9, <1>10, <1>11,
       <1>12, <1>13, <1>14, <1>15, <1>16, <1>17, <1>18, <1>19, <1>20, <1>21, <1>22,
       <1>23, <1>24, <1>25, <1>26, <1>27, <1>28, <1>29, <1>30, <1>31, <1>32
    DEF Next, SenderStep, DriverStep

\* A sender moves through acquire, reservation and await holding what its
\* place says it holds.
LEMMA SenderStepInv ==
    TypeOK /\ ConnInv /\ CommandInv /\ SenderInv /\ [Next]_vars => SenderInv'
<1> SUFFICES ASSUME TypeOK, ConnInv, CommandInv, SenderInv, [Next]_vars PROVE SenderInv'
    OBVIOUS
<1> USE SenderAssumption, ConnAssumption
    DEF TypeOK, Location, Phase, pooling, history, Accepting, Acquirable, Busy,
        Unsent
<1>1. ASSUME NEW s \in Sender, NEW c \in Conn, ChooseReserved(s, c) PROVE SenderInv'
    BY <1>1
    DEF ChooseReserved, Choosing, LiveClients, FreeClients, SenderInv, ConnInv
<1>2. ASSUME NEW s \in Sender, NEW c \in Conn, ChooseWait(s, c) PROVE SenderInv'
    BY <1>2 DEF ChooseWait, Choosing, LiveClients, FreeClients, SenderInv, ConnInv
<1>3. ASSUME NEW s \in Sender, NEW c \in Conn, Connected(s, c) PROVE SenderInv'
    BY <1>3 DEF Connected, SenderInv, ConnInv
<1>4. ASSUME NEW s \in Sender, ChooseConnect(s) PROVE SenderInv'
    BY <1>4
    DEF ChooseConnect, Choosing, LiveClients, FreeClients, SenderInv, ConnInv
<1>5. ASSUME NEW s \in Sender, ConnectFails(s) PROVE SenderInv'
    BY <1>5 DEF ConnectFails, SenderInv, ConnInv
<1>6. ASSUME NEW s \in Sender, Claim(s) PROVE SenderInv'
    BY <1>6 DEF Claim, SenderInv, ConnInv
<1>7. ASSUME NEW s \in Sender, ClaimFails(s) PROVE SenderInv'
    BY <1>7 DEF ClaimFails, SenderInv, ConnInv
<1>8. ASSUME NEW s \in Sender, Publish(s) PROVE SenderInv'
    BY <1>8 DEF Publish, SenderInv, ConnInv
<1>9. ASSUME NEW s \in Sender, Enqueue(s) PROVE SenderInv'
    BY <1>9 DEF Enqueue, SenderInv, ConnInv
<1>10. ASSUME NEW s \in Sender, Granted(s) PROVE SenderInv'
    BY <1>10 DEF Granted, SenderInv, ConnInv
<1>11. ASSUME NEW s \in Sender, Refused(s) PROVE SenderInv'
    BY <1>11 DEF Refused, SenderInv, ConnInv
<1>12. ASSUME NEW s \in Sender, SendCommand(s) PROVE SenderInv'
    BY <1>12 DEF SendCommand, SenderInv, ConnInv
<1>13. ASSUME NEW s \in Sender, SendRefused(s) PROVE SenderInv'
  <2>1. PICK h \in Waiting(conn[s]) \cup {"free"} : permit' = [permit EXCEPT ![conn[s]] = h]
    BY <1>13 DEF SendRefused, Release
  <2>2. h = "free" \/ (h \in Sender /\ pc[h] = "wait" /\ conn[h] = conn[s])
    BY <2>1 DEF Waiting
  <2> QED
    BY <1>13, <2>1, <2>2 DEF SendRefused, SenderInv, ConnInv
<1>14. ASSUME NEW s \in Sender, Receive(s) PROVE SenderInv'
    BY <1>14 DEF Receive, SenderInv, ConnInv
<1>15. ASSUME NEW s \in Sender, ReportFailure(s) PROVE SenderInv'
    BY <1>15 DEF ReportFailure, SenderInv, ConnInv
<1>16. ASSUME NEW s \in Sender, RetryOrGiveUp(s) PROVE SenderInv'
    BY <1>16 DEF RetryOrGiveUp, SenderInv, ConnInv
<1>17. ASSUME NEW s \in Sender, Cancel(s) PROVE SenderInv'
  <2>1. CASE conn[s] # NoConn /\ permit[conn[s]] = s
    <3>1. PICK h \in (Waiting(conn[s]) \ {s}) \cup {"free"} :
             permit' = [permit EXCEPT ![conn[s]] = h]
      BY <1>17, <2>1 DEF Cancel, Release
    <3>2. h = "free" \/ (h \in Sender \ {s} /\ pc[h] = "wait" /\ conn[h] = conn[s])
      BY <3>1 DEF Waiting
    <3> QED
      BY <1>17, <2>1, <3>1, <3>2 DEF Cancel, SenderInv, ConnInv
  <2>2. CASE ~(conn[s] # NoConn /\ permit[conn[s]] = s)
    BY <1>17, <2>2 DEF Cancel, SenderInv, ConnInv
  <2> QED
    BY <2>1, <2>2
<1>18. ASSUME NEW c \in Conn, IdleBreak(c) PROVE SenderInv'
    BY <1>18 DEF IdleBreak, Stop, SenderInv, ConnInv, CommandInv
<1>19. ASSUME NEW c \in Conn, Take(c) PROVE SenderInv'
    BY <1>19 DEF Take, Quiet, SenderInv, ConnInv, CommandInv
<1>20. ASSUME NEW c \in Conn, EncodeFails(c) PROVE SenderInv'
  <2>0. phase[c] = "encode"
    BY <1>20 DEF EncodeFails
  <2>3. OwnedBy(c, cur[c]) /\ written[cur[c]] = {}
    BY <2>0, OwnedCommand
  <2>1. PICK h \in Waiting(c) \cup {"free"} : permit' = [permit EXCEPT ![c] = h]
    BY <1>20 DEF EncodeFails, EndExchange, Release
  <2>2. h = "free" \/ (h \in Sender /\ pc[h] = "wait" /\ conn[h] = c)
    BY <2>1 DEF Waiting
  <2> QED
    BY <1>20, <2>0, <2>1, <2>2, <2>3
    DEF EncodeFails, Stop, Answer, EndExchange, SenderInv, OwnedBy
<1>21. ASSUME NEW c \in Conn, WriteHead(c) PROVE SenderInv'
  <2>0. phase[c] = "encode"
    BY <1>21 DEF WriteHead
  <2>3. OwnedBy(c, cur[c]) /\ written[cur[c]] = {}
    BY <2>0, OwnedCommand
  <2> QED
    BY <1>21, <2>0, <2>3 DEF WriteHead, SenderInv, OwnedBy
<1>22. ASSUME NEW c \in Conn, ExchangeFails(c) PROVE SenderInv'
  <2>0. phase[c] = "exchange"
    BY <1>22 DEF ExchangeFails
  <2>3. OwnedBy(c, cur[c]) /\ written[cur[c]] = {c}
    BY <2>0, OwnedCommand
  <2>1. PICK h \in Waiting(c) \cup {"free"} : permit' = [permit EXCEPT ![c] = h]
    BY <1>22 DEF ExchangeFails, EndExchange, Release
  <2>2. h = "free" \/ (h \in Sender /\ pc[h] = "wait" /\ conn[h] = c)
    BY <2>1 DEF Waiting
  <2> QED
    BY <1>22, <2>0, <2>1, <2>2, <2>3
    DEF ExchangeFails, Stop, Answer, EndExchange, AfterWrite, SenderInv, OwnedBy
<1>23. ASSUME NEW c \in Conn, Respond(c) PROVE SenderInv'
  <2>0. phase[c] = "exchange"
    BY <1>23 DEF Respond, ReadHead
  <2>3. OwnedBy(c, cur[c]) /\ written[cur[c]] = {c}
    BY <2>0, OwnedCommand
  <2>4. unread[c] = cur[c]
    BY <1>23, <2>3 DEF Respond, ReadHead, OwnedBy
  <2>5. /\ reply' = [reply EXCEPT ![cur[c]] = "ok"]
        /\ answer' = [answer EXCEPT ![cur[c]] = cur[c]]
    BY <1>23, <2>4 DEF Respond, ReadHead, Answer
  <2>6. phase'[c] # "unused" /\ \A d \in Conn \ {c} : phase'[d] = phase[d]
    BY <1>23 DEF Respond, ReadHead
  <2>7. \A s \in Sender :
            pc[s] \in {"claim", "publish", "reserved"}
            => permit'[conn[s]] = permit[conn[s]]
    BY <1>23, <2>3 DEF Respond, SenderInv, OwnedBy
  <2>8. UNCHANGED <<pool, pc, conn, written>>
    BY <1>23 DEF Respond
  <2> SUFFICES ASSUME NEW s \in Sender PROVE SenderInv!(s)'
    BY DEF SenderInv
  <2>9. CASE s = cur[c]
    <3>1. /\ pc'[s] \in {"await", "cancelled"} /\ conn'[s] = c
          /\ reply'[s] = "ok" /\ answer'[s] = s
          /\ phase'[c] # "unused"
      BY <2>3, <2>5, <2>6, <2>8, <2>9 DEF OwnedBy
    <3>2. written'[s] = {c} /\ {c} # {}
      BY <2>3, <2>8, <2>9
    <3> QED
      BY <3>1, <3>2
  <2>10. CASE s # cur[c]
    BY <2>5, <2>6, <2>7, <2>8, <2>10 DEF SenderInv
  <2> QED
    BY <2>9, <2>10
<1>24. ASSUME NEW c \in Conn, Upgrade(c) PROVE SenderInv'
  <2>0. phase[c] = "exchange"
    BY <1>24 DEF Upgrade, ReadHead
  <2>3. OwnedBy(c, cur[c]) /\ written[cur[c]] = {c}
    BY <2>0, OwnedCommand
  <2>1. PICK h \in Waiting(c) \cup {"free"} : permit' = [permit EXCEPT ![c] = h]
    BY <1>24 DEF Upgrade, EndExchange, Release
  <2>2. h = "free" \/ (h \in Sender /\ pc[h] = "wait" /\ conn[h] = c)
    BY <2>1 DEF Waiting
  <2>4. unread[c] = cur[c]
    BY <1>24, <2>3 DEF Upgrade, ReadHead, OwnedBy
  <2>5. /\ reply' = [reply EXCEPT ![cur[c]] = "ok"]
        /\ answer' = [answer EXCEPT ![cur[c]] = cur[c]]
    BY <1>24, <2>4 DEF Upgrade, ReadHead, Answer
  <2>6. phase'[c] # "unused" /\ \A d \in Conn \ {c} : phase'[d] = phase[d]
    BY <1>24 DEF Upgrade, ReadHead, Stop
  <2>7. \A s \in Sender :
            pc[s] \in {"claim", "publish", "reserved"}
            => permit'[conn[s]] = permit[conn[s]]
    BY <1>24, <2>3, <2>1, <2>2 DEF Upgrade, SenderInv, OwnedBy
  <2>8. UNCHANGED <<pool, pc, conn, written>>
    BY <1>24 DEF Upgrade, ReadHead, EndExchange
  <2> SUFFICES ASSUME NEW s \in Sender PROVE SenderInv!(s)'
    BY DEF SenderInv
  <2>9. CASE s = cur[c]
    <3>1. /\ pc'[s] \in {"await", "cancelled"} /\ conn'[s] = c
          /\ reply'[s] = "ok" /\ answer'[s] = s
          /\ phase'[c] # "unused"
      BY <2>3, <2>5, <2>6, <2>8, <2>9 DEF OwnedBy
    <3>2. written'[s] = {c} /\ {c} # {}
      BY <2>3, <2>8, <2>9
    <3> QED
      BY <3>1, <3>2
  <2>10. CASE s # cur[c]
    BY <2>5, <2>6, <2>7, <2>8, <2>10 DEF SenderInv
  <2> QED
    BY <2>9, <2>10
<1>25. ASSUME NEW c \in Conn, KeepAlive(c) PROVE SenderInv'
  <2>1. PICK h \in Waiting(c) \cup {"free"} : permit' = [permit EXCEPT ![c] = h]
    BY <1>25 DEF KeepAlive, EndExchange, Release
  <2>2. h = "free" \/ (h \in Sender /\ pc[h] = "wait" /\ conn[h] = c)
    BY <2>1 DEF Waiting
  <2> QED
    BY <1>25, <2>1, <2>2 DEF KeepAlive, EndExchange, SenderInv, ConnInv, CommandInv
<1>26. ASSUME NEW c \in Conn, BodyBreak(c) PROVE SenderInv'
  <2>1. PICK h \in Waiting(c) \cup {"free"} : permit' = [permit EXCEPT ![c] = h]
    BY <1>26 DEF BodyBreak, EndExchange, Release
  <2>2. h = "free" \/ (h \in Sender /\ pc[h] = "wait" /\ conn[h] = c)
    BY <2>1 DEF Waiting
  <2> QED
    BY <1>26, <2>1, <2>2
    DEF BodyBreak, EndExchange, Stop, SenderInv, ConnInv, CommandInv
<1>27. ASSUME NEW c \in Conn, CloseCommands(c) PROVE SenderInv'
    BY <1>27 DEF CloseCommands, SenderInv, ConnInv, CommandInv
<1>28. ASSUME NEW c \in Conn, CloseAvailability(c) PROVE SenderInv'
    BY <1>28 DEF CloseAvailability, SenderInv, ConnInv, CommandInv
<1>29. ASSUME NEW c \in Conn, ReturnQueued(c) PROVE SenderInv'
  <2>1. /\ queue[c] \in Sender /\ conn[queue[c]] = c
        /\ pc[queue[c]] \in {"await", "cancelled"}
        /\ reply[queue[c]] = "none" /\ written[queue[c]] = {}
        /\ permit[c] = "cmd"
    BY <1>29, QueuedCommand DEF ReturnQueued
  <2> QED
    BY <1>29, <2>1 DEF ReturnQueued, SenderInv
<1>30. ASSUME NEW c \in Conn, DriverEnds(c) PROVE SenderInv'
    BY <1>30 DEF DriverEnds, SenderInv, ConnInv, CommandInv
<1>31. ASSUME NEW c \in Conn, Arrive(c) PROVE SenderInv'
    BY <1>31 DEF Arrive, SenderInv, ConnInv, CommandInv
<1>32. CASE UNCHANGED vars
    BY <1>32 DEF vars, SenderInv
<1>33. QED
    BY <1>1, <1>2, <1>3, <1>4, <1>5, <1>6, <1>7, <1>8, <1>9, <1>10, <1>11,
       <1>12, <1>13, <1>14, <1>15, <1>16, <1>17, <1>18, <1>19, <1>20, <1>21, <1>22,
       <1>23, <1>24, <1>25, <1>26, <1>27, <1>28, <1>29, <1>30, <1>31, <1>32
    DEF Next, SenderStep, DriverStep

\* The connect lock is held from the choice to connect to the publication.
LEMMA LockStep == TypeOK /\ LockInv /\ [Next]_vars => LockInv'
<1> SUFFICES ASSUME TypeOK, LockInv, [Next]_vars PROVE LockInv'
    OBVIOUS
<1> USE SenderAssumption, ConnAssumption
    DEF TypeOK, Location, LockInv, pooling, history
<1>1. ASSUME NEW s \in Sender, NEW c \in Conn, ChooseReserved(s, c) PROVE LockInv'
    BY <1>1 DEF ChooseReserved, Choosing
<1>2. ASSUME NEW s \in Sender, NEW c \in Conn, ChooseWait(s, c) PROVE LockInv'
    BY <1>2 DEF ChooseWait, Choosing
<1>3. ASSUME NEW s \in Sender, NEW c \in Conn, Connected(s, c) PROVE LockInv'
    BY <1>3 DEF Connected
<1>4. ASSUME NEW s \in Sender, ChooseConnect(s) PROVE LockInv'
    BY <1>4 DEF ChooseConnect, Choosing
<1>5. ASSUME NEW s \in Sender, ConnectFails(s) PROVE LockInv'
    BY <1>5 DEF ConnectFails
<1>6. ASSUME NEW s \in Sender, Claim(s) PROVE LockInv'
    BY <1>6 DEF Claim
<1>7. ASSUME NEW s \in Sender, ClaimFails(s) PROVE LockInv'
    BY <1>7 DEF ClaimFails
<1>8. ASSUME NEW s \in Sender, Publish(s) PROVE LockInv'
    BY <1>8 DEF Publish
<1>9. ASSUME NEW s \in Sender, Enqueue(s) PROVE LockInv'
    BY <1>9 DEF Enqueue
<1>10. ASSUME NEW s \in Sender, Granted(s) PROVE LockInv'
    BY <1>10 DEF Granted
<1>11. ASSUME NEW s \in Sender, Refused(s) PROVE LockInv'
    BY <1>11 DEF Refused
<1>12. ASSUME NEW s \in Sender, SendCommand(s) PROVE LockInv'
    BY <1>12 DEF SendCommand
<1>13. ASSUME NEW s \in Sender, SendRefused(s) PROVE LockInv'
    BY <1>13 DEF SendRefused
<1>14. ASSUME NEW s \in Sender, Receive(s) PROVE LockInv'
    BY <1>14 DEF Receive
<1>15. ASSUME NEW s \in Sender, ReportFailure(s) PROVE LockInv'
    BY <1>15 DEF ReportFailure
<1>16. ASSUME NEW s \in Sender, RetryOrGiveUp(s) PROVE LockInv'
    BY <1>16 DEF RetryOrGiveUp
<1>17. ASSUME NEW s \in Sender, Cancel(s) PROVE LockInv'
    BY <1>17 DEF Cancel
<1>18. ASSUME NEW c \in Conn, IdleBreak(c) PROVE LockInv'
    BY <1>18 DEF IdleBreak, Stop
<1>19. ASSUME NEW c \in Conn, Take(c) PROVE LockInv'
    BY <1>19 DEF Take, Quiet
<1>20. ASSUME NEW c \in Conn, EncodeFails(c) PROVE LockInv'
    BY <1>20 DEF EncodeFails, Stop, Answer, EndExchange
<1>21. ASSUME NEW c \in Conn, WriteHead(c) PROVE LockInv'
    BY <1>21 DEF WriteHead
<1>22. ASSUME NEW c \in Conn, ExchangeFails(c) PROVE LockInv'
    BY <1>22 DEF ExchangeFails, Stop, Answer, EndExchange, AfterWrite
<1>23. ASSUME NEW c \in Conn, Respond(c) PROVE LockInv'
    BY <1>23 DEF Respond, ReadHead
<1>24. ASSUME NEW c \in Conn, Upgrade(c) PROVE LockInv'
    BY <1>24 DEF Upgrade, ReadHead, Answer, Stop, EndExchange
<1>25. ASSUME NEW c \in Conn, KeepAlive(c) PROVE LockInv'
    BY <1>25 DEF KeepAlive, EndExchange
<1>26. ASSUME NEW c \in Conn, BodyBreak(c) PROVE LockInv'
    BY <1>26 DEF BodyBreak, EndExchange, Stop
<1>27. ASSUME NEW c \in Conn, CloseCommands(c) PROVE LockInv'
    BY <1>27 DEF CloseCommands
<1>28. ASSUME NEW c \in Conn, CloseAvailability(c) PROVE LockInv'
    BY <1>28 DEF CloseAvailability
<1>29. ASSUME NEW c \in Conn, ReturnQueued(c) PROVE LockInv'
    BY <1>29 DEF ReturnQueued
<1>30. ASSUME NEW c \in Conn, DriverEnds(c) PROVE LockInv'
    BY <1>30 DEF DriverEnds
<1>31. ASSUME NEW c \in Conn, Arrive(c) PROVE LockInv'
    BY <1>31 DEF Arrive
<1>32. CASE UNCHANGED vars
    BY <1>32 DEF vars
<1>33. QED
    BY <1>1, <1>2, <1>3, <1>4, <1>5, <1>6, <1>7, <1>8, <1>9, <1>10, <1>11,
       <1>12, <1>13, <1>14, <1>15, <1>16, <1>17, <1>18, <1>19, <1>20, <1>21, <1>22,
       <1>23, <1>24, <1>25, <1>26, <1>27, <1>28, <1>29, <1>30, <1>31, <1>32
    DEF Next, SenderStep, DriverStep

\* Removing an entry keeps the pool within its bound.
LEMMA PoolShrinks ==
    ASSUME TypeOK, pool' \in SUBSET pool
    PROVE  /\ Cardinality(pool') \in Nat
           /\ CountInv /\ connectLock' \in {connectLock, "none"} => CountInv'
<1>1. IsFiniteSet(pool)
    BY ConnAssumption, FS_Subset DEF TypeOK
<1>2. Cardinality(pool') <= Cardinality(pool) /\ IsFiniteSet(pool')
    BY <1>1, FS_Subset
<1>3. Cardinality(pool') \in Nat /\ Cardinality(pool) \in Nat
    BY <1>1, <1>2, FS_CardinalityType
<1> QED
    BY <1>2, <1>3, MaxAssumption DEF CountInv

\* The pool grows only under the lock, after a count that still holds.
LEMMA CountStep ==
    TypeOK /\ SenderInv /\ LockInv /\ CountInv /\ [Next]_vars => CountInv'
<1> SUFFICES ASSUME TypeOK, SenderInv, LockInv, CountInv, [Next]_vars PROVE CountInv'
    OBVIOUS
<1> USE SenderAssumption, ConnAssumption DEF TypeOK, pooling, history
<1>1. ASSUME NEW s \in Sender, NEW c \in Conn, ChooseReserved(s, c) PROVE CountInv'
    BY <1>1, PoolShrinks DEF ChooseReserved, Choosing, LiveClients
<1>2. ASSUME NEW s \in Sender, NEW c \in Conn, ChooseWait(s, c) PROVE CountInv'
    BY <1>2, PoolShrinks DEF ChooseWait, Choosing, LiveClients
<1>3. ASSUME NEW s \in Sender, NEW c \in Conn, Connected(s, c) PROVE CountInv'
    BY <1>3, PoolShrinks DEF Connected
<1>4. ASSUME NEW s \in Sender, ChooseConnect(s) PROVE CountInv'
  <2>1. LiveClients \in SUBSET pool /\ pool' = LiveClients
    BY <1>4 DEF ChooseConnect, LiveClients
  <2>2. Cardinality(pool') \in Nat /\ Cardinality(pool') < MaxPerKey
    BY <1>4, <2>1, PoolShrinks DEF ChooseConnect
  <2> QED
    BY <2>2, MaxAssumption DEF CountInv
<1>5. ASSUME NEW s \in Sender, ConnectFails(s) PROVE CountInv'
    BY <1>5, PoolShrinks DEF ConnectFails
<1>6. ASSUME NEW s \in Sender, Claim(s) PROVE CountInv'
    BY <1>6, PoolShrinks DEF Claim
<1>7. ASSUME NEW s \in Sender, ClaimFails(s) PROVE CountInv'
    BY <1>7, PoolShrinks DEF ClaimFails
<1>8. ASSUME NEW s \in Sender, Publish(s) PROVE CountInv'
  <2>1. connectLock = s /\ conn[s] \in Conn
    BY <1>8 DEF Publish, LockInv, SenderInv
  <2>2. Cardinality(pool) < MaxPerKey /\ IsFiniteSet(pool) /\ Cardinality(pool) \in Nat
    BY <2>1, FS_Subset, FS_CardinalityType DEF CountInv
  <2>3. Cardinality(pool') <= Cardinality(pool) + 1 /\ Cardinality(pool') \in Nat
    <3>1. pool' = pool \cup {conn[s]}
      BY <1>8 DEF Publish
    <3>2. /\ IsFiniteSet(pool \cup {conn[s]})
          /\ Cardinality(pool \cup {conn[s]})
                = IF conn[s] \in pool THEN Cardinality(pool) ELSE Cardinality(pool) + 1
      BY <2>2, FS_AddElement, Zenon
    <3> QED
      BY <2>2, <3>1, <3>2, FS_CardinalityType
  <2> QED
    BY <1>8, <2>2, <2>3, MaxAssumption DEF Publish, CountInv
<1>9. ASSUME NEW s \in Sender, Enqueue(s) PROVE CountInv'
    BY <1>9, PoolShrinks DEF Enqueue
<1>10. ASSUME NEW s \in Sender, Granted(s) PROVE CountInv'
    BY <1>10, PoolShrinks DEF Granted
<1>11. ASSUME NEW s \in Sender, Refused(s) PROVE CountInv'
    BY <1>11, PoolShrinks DEF Refused
<1>12. ASSUME NEW s \in Sender, SendCommand(s) PROVE CountInv'
    BY <1>12, PoolShrinks DEF SendCommand
<1>13. ASSUME NEW s \in Sender, SendRefused(s) PROVE CountInv'
    BY <1>13, PoolShrinks DEF SendRefused
<1>14. ASSUME NEW s \in Sender, Receive(s) PROVE CountInv'
    BY <1>14, PoolShrinks DEF Receive
<1>15. ASSUME NEW s \in Sender, ReportFailure(s) PROVE CountInv'
    BY <1>15, PoolShrinks DEF ReportFailure
<1>16. ASSUME NEW s \in Sender, RetryOrGiveUp(s) PROVE CountInv'
    BY <1>16, PoolShrinks DEF RetryOrGiveUp
<1>17. ASSUME NEW s \in Sender, Cancel(s) PROVE CountInv'
    BY <1>17, PoolShrinks DEF Cancel
<1>18. ASSUME NEW c \in Conn, IdleBreak(c) PROVE CountInv'
    BY <1>18, PoolShrinks DEF IdleBreak, Stop
<1>19. ASSUME NEW c \in Conn, Take(c) PROVE CountInv'
    BY <1>19, PoolShrinks DEF Take, Quiet
<1>20. ASSUME NEW c \in Conn, EncodeFails(c) PROVE CountInv'
    BY <1>20, PoolShrinks DEF EncodeFails, Stop, Answer, EndExchange
<1>21. ASSUME NEW c \in Conn, WriteHead(c) PROVE CountInv'
    BY <1>21, PoolShrinks DEF WriteHead
<1>22. ASSUME NEW c \in Conn, ExchangeFails(c) PROVE CountInv'
    BY <1>22, PoolShrinks DEF ExchangeFails, Stop, Answer, EndExchange, AfterWrite
<1>23. ASSUME NEW c \in Conn, Respond(c) PROVE CountInv'
    BY <1>23, PoolShrinks DEF Respond, ReadHead
<1>24. ASSUME NEW c \in Conn, Upgrade(c) PROVE CountInv'
    BY <1>24, PoolShrinks DEF Upgrade, ReadHead, Answer, Stop, EndExchange
<1>25. ASSUME NEW c \in Conn, KeepAlive(c) PROVE CountInv'
    BY <1>25, PoolShrinks DEF KeepAlive, EndExchange
<1>26. ASSUME NEW c \in Conn, BodyBreak(c) PROVE CountInv'
    BY <1>26, PoolShrinks DEF BodyBreak, EndExchange, Stop
<1>27. ASSUME NEW c \in Conn, CloseCommands(c) PROVE CountInv'
    BY <1>27, PoolShrinks DEF CloseCommands
<1>28. ASSUME NEW c \in Conn, CloseAvailability(c) PROVE CountInv'
    BY <1>28, PoolShrinks DEF CloseAvailability
<1>29. ASSUME NEW c \in Conn, ReturnQueued(c) PROVE CountInv'
    BY <1>29, PoolShrinks DEF ReturnQueued
<1>30. ASSUME NEW c \in Conn, DriverEnds(c) PROVE CountInv'
    BY <1>30, PoolShrinks DEF DriverEnds
<1>31. ASSUME NEW c \in Conn, Arrive(c) PROVE CountInv'
    BY <1>31, PoolShrinks DEF Arrive
<1>32. CASE UNCHANGED vars
    BY <1>32 DEF vars, CountInv
<1>33. QED
    BY <1>1, <1>2, <1>3, <1>4, <1>5, <1>6, <1>7, <1>8, <1>9, <1>10, <1>11,
       <1>12, <1>13, <1>14, <1>15, <1>16, <1>17, <1>18, <1>19, <1>20, <1>21, <1>22,
       <1>23, <1>24, <1>25, <1>26, <1>27, <1>28, <1>29, <1>30, <1>31, <1>32
    DEF Next, SenderStep, DriverStep

\* IInv is an invariant of the pool, for every number of senders, connections
\* and entries per key.
THEOREM InductiveInvariant == Spec => []IInv
<1>1. IInv /\ [Next]_vars => IInv'
    BY TypeStep, ConnStep, CommandStep, SenderStepInv, LockStep, CountStep DEF IInv
<1> QED
    BY InitIInv, <1>1, PTL DEF Spec

\* Every variable keeps its type.
THEOREM TypeCorrect == Spec => []TypeOK
  BY InductiveInvariant, PTL DEF IInv

\* A request reaches at most one connection, for any number of senders,
\* connections and retries, and none while it may be sent again.
THEOREM WrittenOnceHolds == Spec => []WrittenOnce
<1>1. IInv => WrittenOnce
    BY DEF IInv, SenderInv, WrittenOnce, Unsent
<1> QED
    BY InductiveInvariant, <1>1, PTL

\* A response is read from what arrived in the exchange of its own request.
THEOREM AnswerIsOwnHolds == Spec => []AnswerIsOwn
<1>1. IInv => AnswerIsOwn
    BY DEF IInv, SenderInv, AnswerIsOwn
<1> QED
    BY InductiveInvariant, <1>1, PTL

\* The pool stays within MAX_CONNECTIONS_PER_KEY, whatever its value.
THEOREM PoolBoundedHolds == Spec => []PoolBounded
<1>1. IInv => PoolBounded
    BY DEF IInv, CountInv, PoolBounded
<1> QED
    BY InductiveInvariant, <1>1, PTL

\* The permit of every connection has exactly one accountable holder, who never
\* waits for room in the command channel.
THEOREM PermitAccountedHolds == Spec => []PermitAccounted
<1>1. IInv => PermitAccounted
  <2> SUFFICES ASSUME IInv PROVE PermitAccounted
    OBVIOUS
  <2>1. ASSUME NEW c \in Conn, NEW s \in Sender, pc[s] = "reserved", conn[s] = c
        PROVE  permit[c] = s /\ queue[c] = "none"
    <3>1. permit[c] = s /\ s # "cmd"
      BY <2>1, SenderAssumption DEF IInv, SenderInv
    <3> QED
      BY <3>1 DEF IInv, ConnInv
  <2>2. ASSUME NEW c \in Conn
        PROVE  /\ permit[c] \in Sender =>
                     /\ conn[permit[c]] = c
                     /\ pc[permit[c]] \in {"publish", "wait", "reserved"}
               /\ permit[c] = "cmd" <=> queue[c] # "none"
               /\ permit[c] = "driver" <=> Busy(c)
    BY DEF IInv, ConnInv
  <2> QED
    BY <2>1, <2>2 DEF PermitAccounted
<1> QED
    BY InductiveInvariant, <1>1, PTL

\* What callers rely on holds for any number of senders and connections.
THEOREM PoolIsSoundHolds == Spec => []PoolIsSound
  BY TypeCorrect, WrittenOnceHolds, AnswerIsOwnHolds, PoolBoundedHolds,
     PermitAccountedHolds, PTL DEF PoolIsSound

-----------------------------------------------------------------------------
(* No caller is stranded.                                                  *)

\* Commands are left only where a driver runs.
DrainedInv == \A c \in Conn : phase[c] \in {"unused", "dead"} => queue[c] = "none"

\* The sender of the command whose bodies are relayed has its answer.
AnsweredInv ==
    \A c \in Conn : phase[c] = "body" =>
        pc[cur[c]] \in {"await", "ok", "cancelled"} /\ reply[cur[c]] = "ok"

\* No command enters the channel of a driver that has ended.
LEMMA DrainedStep ==
    ASSUME TypeOK, DrainedInv, SenderInv, [Next]_vars
    PROVE  DrainedInv'
<1> USE SenderAssumption, ConnAssumption DEF TypeOK, Location, Phase, pooling, history, DrainedInv, Accepting
<1>1. ASSUME NEW s \in Sender, NEW c \in Conn, ChooseReserved(s, c) PROVE DrainedInv'
    BY <1>1 DEF ChooseReserved, Choosing, LiveClients, FreeClients
<1>2. ASSUME NEW s \in Sender, NEW c \in Conn, ChooseWait(s, c) PROVE DrainedInv'
    BY <1>2 DEF ChooseWait, Choosing, LiveClients, FreeClients
<1>3. ASSUME NEW s \in Sender, NEW c \in Conn, Connected(s, c) PROVE DrainedInv'
    BY <1>3 DEF Connected
<1>4. ASSUME NEW s \in Sender, ChooseConnect(s) PROVE DrainedInv'
    BY <1>4 DEF ChooseConnect, Choosing
<1>5. ASSUME NEW s \in Sender, ConnectFails(s) PROVE DrainedInv'
    BY <1>5 DEF ConnectFails
<1>6. ASSUME NEW s \in Sender, Claim(s) PROVE DrainedInv'
    BY <1>6 DEF Claim
<1>7. ASSUME NEW s \in Sender, ClaimFails(s) PROVE DrainedInv'
    BY <1>7 DEF ClaimFails
<1>8. ASSUME NEW s \in Sender, Publish(s) PROVE DrainedInv'
    BY <1>8 DEF Publish
<1>9. ASSUME NEW s \in Sender, Enqueue(s) PROVE DrainedInv'
    BY <1>9 DEF Enqueue
<1>10. ASSUME NEW s \in Sender, Granted(s) PROVE DrainedInv'
    BY <1>10 DEF Granted
<1>11. ASSUME NEW s \in Sender, Refused(s) PROVE DrainedInv'
    BY <1>11 DEF Refused
<1>12. ASSUME NEW s \in Sender, SendCommand(s) PROVE DrainedInv'
    BY <1>12 DEF SendCommand
<1>13. ASSUME NEW s \in Sender, SendRefused(s) PROVE DrainedInv'
    BY <1>13 DEF SendRefused
<1>14. ASSUME NEW s \in Sender, Receive(s) PROVE DrainedInv'
    BY <1>14 DEF Receive
<1>15. ASSUME NEW s \in Sender, ReportFailure(s) PROVE DrainedInv'
    BY <1>15 DEF ReportFailure
<1>16. ASSUME NEW s \in Sender, RetryOrGiveUp(s) PROVE DrainedInv'
    BY <1>16 DEF RetryOrGiveUp
<1>17. ASSUME NEW s \in Sender, Cancel(s) PROVE DrainedInv'
    BY <1>17 DEF Cancel
<1>18. ASSUME NEW c \in Conn, IdleBreak(c) PROVE DrainedInv'
    BY <1>18 DEF IdleBreak, Stop
<1>19. ASSUME NEW c \in Conn, Take(c) PROVE DrainedInv'
    BY <1>19 DEF Take, Quiet
<1>20. ASSUME NEW c \in Conn, EncodeFails(c) PROVE DrainedInv'
    BY <1>20 DEF EncodeFails, Stop, Answer, EndExchange
<1>21. ASSUME NEW c \in Conn, WriteHead(c) PROVE DrainedInv'
    BY <1>21 DEF WriteHead
<1>22. ASSUME NEW c \in Conn, ExchangeFails(c) PROVE DrainedInv'
    BY <1>22 DEF ExchangeFails, Stop, Answer, EndExchange, AfterWrite
<1>23. ASSUME NEW c \in Conn, Respond(c) PROVE DrainedInv'
    BY <1>23 DEF Respond, ReadHead, Answer
<1>24. ASSUME NEW c \in Conn, Upgrade(c) PROVE DrainedInv'
    BY <1>24 DEF Upgrade, ReadHead, Answer, Stop, EndExchange
<1>25. ASSUME NEW c \in Conn, KeepAlive(c) PROVE DrainedInv'
    BY <1>25 DEF KeepAlive, EndExchange
<1>26. ASSUME NEW c \in Conn, BodyBreak(c) PROVE DrainedInv'
    BY <1>26 DEF BodyBreak, Stop, EndExchange
<1>27. ASSUME NEW c \in Conn, CloseCommands(c) PROVE DrainedInv'
    BY <1>27 DEF CloseCommands
<1>28. ASSUME NEW c \in Conn, CloseAvailability(c) PROVE DrainedInv'
    BY <1>28 DEF CloseAvailability
<1>29. ASSUME NEW c \in Conn, ReturnQueued(c) PROVE DrainedInv'
    BY <1>29 DEF ReturnQueued
<1>30. ASSUME NEW c \in Conn, DriverEnds(c) PROVE DrainedInv'
    BY <1>30 DEF DriverEnds, Drained
<1>31. ASSUME NEW c \in Conn, Arrive(c) PROVE DrainedInv'
    BY <1>31 DEF Arrive
<1>32. CASE UNCHANGED vars
    BY <1>32 DEF vars
<1>33. QED
    BY <1>1, <1>2, <1>3, <1>4, <1>5, <1>6, <1>7, <1>8, <1>9, <1>10, <1>11,
       <1>12, <1>13, <1>14, <1>15, <1>16, <1>17, <1>18, <1>19, <1>20,
       <1>21, <1>22, <1>23, <1>24, <1>25, <1>26, <1>27, <1>28, <1>29,
       <1>30, <1>31, <1>32
    DEF Next, SenderStep, DriverStep

\* The driver relays the bodies of an exchange only after its head was delivered.
LEMMA AnsweredStep ==
    ASSUME TypeOK, ConnInv, CommandInv, AnsweredInv, [Next]_vars
    PROVE  AnsweredInv'
<1> USE SenderAssumption, ConnAssumption DEF TypeOK, Location, Phase, pooling, history, ConnInv, CommandInv, Busy, AnsweredInv
<1>1. ASSUME NEW s \in Sender, NEW c \in Conn, ChooseReserved(s, c) PROVE AnsweredInv'
    BY <1>1 DEF ChooseReserved, Choosing, LiveClients, FreeClients
<1>2. ASSUME NEW s \in Sender, NEW c \in Conn, ChooseWait(s, c) PROVE AnsweredInv'
    BY <1>2 DEF ChooseWait, Choosing, LiveClients, FreeClients
<1>3. ASSUME NEW s \in Sender, NEW c \in Conn, Connected(s, c) PROVE AnsweredInv'
    BY <1>3 DEF Connected
<1>4. ASSUME NEW s \in Sender, ChooseConnect(s) PROVE AnsweredInv'
    BY <1>4 DEF ChooseConnect, Choosing
<1>5. ASSUME NEW s \in Sender, ConnectFails(s) PROVE AnsweredInv'
    BY <1>5 DEF ConnectFails
<1>6. ASSUME NEW s \in Sender, Claim(s) PROVE AnsweredInv'
    BY <1>6 DEF Claim
<1>7. ASSUME NEW s \in Sender, ClaimFails(s) PROVE AnsweredInv'
    BY <1>7 DEF ClaimFails
<1>8. ASSUME NEW s \in Sender, Publish(s) PROVE AnsweredInv'
    BY <1>8 DEF Publish
<1>9. ASSUME NEW s \in Sender, Enqueue(s) PROVE AnsweredInv'
    BY <1>9 DEF Enqueue
<1>10. ASSUME NEW s \in Sender, Granted(s) PROVE AnsweredInv'
    BY <1>10 DEF Granted
<1>11. ASSUME NEW s \in Sender, Refused(s) PROVE AnsweredInv'
    BY <1>11 DEF Refused
<1>12. ASSUME NEW s \in Sender, SendCommand(s) PROVE AnsweredInv'
    BY <1>12 DEF SendCommand
<1>13. ASSUME NEW s \in Sender, SendRefused(s) PROVE AnsweredInv'
    BY <1>13 DEF SendRefused
<1>14. ASSUME NEW s \in Sender, Receive(s) PROVE AnsweredInv'
    BY <1>14 DEF Receive
<1>15. ASSUME NEW s \in Sender, ReportFailure(s) PROVE AnsweredInv'
    BY <1>15 DEF ReportFailure
<1>16. ASSUME NEW s \in Sender, RetryOrGiveUp(s) PROVE AnsweredInv'
    BY <1>16 DEF RetryOrGiveUp
<1>17. ASSUME NEW s \in Sender, Cancel(s) PROVE AnsweredInv'
    BY <1>17 DEF Cancel
<1>18. ASSUME NEW c \in Conn, IdleBreak(c) PROVE AnsweredInv'
    BY <1>18 DEF IdleBreak, Stop
<1>19. ASSUME NEW c \in Conn, Take(c) PROVE AnsweredInv'
    BY <1>19 DEF Take, Quiet
<1>20. ASSUME NEW c \in Conn, EncodeFails(c) PROVE AnsweredInv'
    <2>1. OwnedBy(c, cur[c])
        BY <1>20, OwnedCommand DEF EncodeFails
    <2>2. \A d \in Conn : phase'[d] = "body" => phase[d] = "body" /\ d # c
        BY <1>20 DEF EncodeFails, Stop, Answer, EndExchange
    <2>3. QED
        BY <1>20, <2>1, <2>2 DEF EncodeFails, Stop, Answer, EndExchange, OwnedBy
<1>21. ASSUME NEW c \in Conn, WriteHead(c) PROVE AnsweredInv'
    BY <1>21 DEF WriteHead
<1>22. ASSUME NEW c \in Conn, ExchangeFails(c) PROVE AnsweredInv'
    <2>1. OwnedBy(c, cur[c])
        BY <1>22, OwnedCommand DEF ExchangeFails
    <2>2. \A d \in Conn : phase'[d] = "body" => phase[d] = "body" /\ d # c
        BY <1>22 DEF ExchangeFails, Stop, Answer, EndExchange, AfterWrite
    <2>3. QED
        BY <1>22, <2>1, <2>2 DEF ExchangeFails, Stop, Answer, EndExchange, AfterWrite, OwnedBy
<1>23. ASSUME NEW c \in Conn, Respond(c) PROVE AnsweredInv'
    <2>1. OwnedBy(c, cur[c])
        BY <1>23, OwnedCommand DEF Respond, ReadHead
    <2>2. QED
        BY <1>23, <2>1 DEF Respond, ReadHead, Answer, OwnedBy
<1>24. ASSUME NEW c \in Conn, Upgrade(c) PROVE AnsweredInv'
    BY <1>24 DEF Upgrade, ReadHead, Answer, Stop, EndExchange
<1>25. ASSUME NEW c \in Conn, KeepAlive(c) PROVE AnsweredInv'
    BY <1>25 DEF KeepAlive, EndExchange
<1>26. ASSUME NEW c \in Conn, BodyBreak(c) PROVE AnsweredInv'
    BY <1>26 DEF BodyBreak, Stop, EndExchange
<1>27. ASSUME NEW c \in Conn, CloseCommands(c) PROVE AnsweredInv'
    BY <1>27 DEF CloseCommands
<1>28. ASSUME NEW c \in Conn, CloseAvailability(c) PROVE AnsweredInv'
    BY <1>28 DEF CloseAvailability
<1>29. ASSUME NEW c \in Conn, ReturnQueued(c) PROVE AnsweredInv'
    <2>1. queue[c] \in Sender /\ reply[queue[c]] = "none"
        BY <1>29, QueuedCommand DEF ReturnQueued
    <2>2. QED
        BY <1>29, <2>1 DEF ReturnQueued
<1>30. ASSUME NEW c \in Conn, DriverEnds(c) PROVE AnsweredInv'
    BY <1>30 DEF DriverEnds, Drained
<1>31. ASSUME NEW c \in Conn, Arrive(c) PROVE AnsweredInv'
    BY <1>31 DEF Arrive
<1>32. CASE UNCHANGED vars
    BY <1>32 DEF vars
<1>33. QED
    BY <1>1, <1>2, <1>3, <1>4, <1>5, <1>6, <1>7, <1>8, <1>9, <1>10, <1>11,
       <1>12, <1>13, <1>14, <1>15, <1>16, <1>17, <1>18, <1>19, <1>20,
       <1>21, <1>22, <1>23, <1>24, <1>25, <1>26, <1>27, <1>28, <1>29,
       <1>30, <1>31, <1>32
    DEF Next, SenderStep, DriverStep

\* A command changes hands, or is answered: it is never dropped unanswered.
LEMMA NotLostStep ==
    ASSUME TypeOK, ConnInv, CommandInv, SenderInv, DrainedInv, AnsweredInv, CommandNotLost, [Next]_vars
    PROVE  CommandNotLost'
<1> USE SenderAssumption, ConnAssumption DEF TypeOK, Location, Phase, pooling, history, SenderInv, ConnInv, CommandInv, Busy, Accepting, DrainedInv, AnsweredInv, CommandNotLost
<1>1. ASSUME NEW s \in Sender, NEW c \in Conn, ChooseReserved(s, c) PROVE CommandNotLost'
    BY <1>1 DEF ChooseReserved, Choosing, LiveClients, FreeClients
<1>2. ASSUME NEW s \in Sender, NEW c \in Conn, ChooseWait(s, c) PROVE CommandNotLost'
    BY <1>2 DEF ChooseWait, Choosing, LiveClients, FreeClients
<1>3. ASSUME NEW s \in Sender, NEW c \in Conn, Connected(s, c) PROVE CommandNotLost'
    BY <1>3 DEF Connected
<1>4. ASSUME NEW s \in Sender, ChooseConnect(s) PROVE CommandNotLost'
    BY <1>4 DEF ChooseConnect, Choosing
<1>5. ASSUME NEW s \in Sender, ConnectFails(s) PROVE CommandNotLost'
    BY <1>5 DEF ConnectFails
<1>6. ASSUME NEW s \in Sender, Claim(s) PROVE CommandNotLost'
    BY <1>6 DEF Claim
<1>7. ASSUME NEW s \in Sender, ClaimFails(s) PROVE CommandNotLost'
    BY <1>7 DEF ClaimFails
<1>8. ASSUME NEW s \in Sender, Publish(s) PROVE CommandNotLost'
    BY <1>8 DEF Publish
<1>9. ASSUME NEW s \in Sender, Enqueue(s) PROVE CommandNotLost'
    BY <1>9 DEF Enqueue
<1>10. ASSUME NEW s \in Sender, Granted(s) PROVE CommandNotLost'
    BY <1>10 DEF Granted
<1>11. ASSUME NEW s \in Sender, Refused(s) PROVE CommandNotLost'
    BY <1>11 DEF Refused
<1>12. ASSUME NEW s \in Sender, SendCommand(s) PROVE CommandNotLost'
    BY <1>12 DEF SendCommand
<1>13. ASSUME NEW s \in Sender, SendRefused(s) PROVE CommandNotLost'
    BY <1>13 DEF SendRefused
<1>14. ASSUME NEW s \in Sender, Receive(s) PROVE CommandNotLost'
    BY <1>14 DEF Receive
<1>15. ASSUME NEW s \in Sender, ReportFailure(s) PROVE CommandNotLost'
    BY <1>15 DEF ReportFailure
<1>16. ASSUME NEW s \in Sender, RetryOrGiveUp(s) PROVE CommandNotLost'
    BY <1>16 DEF RetryOrGiveUp
<1>17. ASSUME NEW s \in Sender, Cancel(s) PROVE CommandNotLost'
    BY <1>17 DEF Cancel
<1>18. ASSUME NEW c \in Conn, IdleBreak(c) PROVE CommandNotLost'
    BY <1>18 DEF IdleBreak, Stop
<1>19. ASSUME NEW c \in Conn, Take(c) PROVE CommandNotLost'
    BY <1>19 DEF Take, Quiet
<1>20. ASSUME NEW c \in Conn, EncodeFails(c) PROVE CommandNotLost'
    BY <1>20 DEF EncodeFails, Stop, Answer, EndExchange
<1>21. ASSUME NEW c \in Conn, WriteHead(c) PROVE CommandNotLost'
    BY <1>21 DEF WriteHead
<1>22. ASSUME NEW c \in Conn, ExchangeFails(c) PROVE CommandNotLost'
    BY <1>22 DEF ExchangeFails, Stop, Answer, EndExchange, AfterWrite
<1>23. ASSUME NEW c \in Conn, Respond(c) PROVE CommandNotLost'
    BY <1>23 DEF Respond, ReadHead, Answer
<1>24. ASSUME NEW c \in Conn, Upgrade(c) PROVE CommandNotLost'
    BY <1>24 DEF Upgrade, ReadHead, Answer, Stop, EndExchange
<1>25. ASSUME NEW c \in Conn, KeepAlive(c) PROVE CommandNotLost'
    BY <1>25 DEF KeepAlive, EndExchange
<1>26. ASSUME NEW c \in Conn, BodyBreak(c) PROVE CommandNotLost'
    BY <1>26 DEF BodyBreak, Stop, EndExchange
<1>27. ASSUME NEW c \in Conn, CloseCommands(c) PROVE CommandNotLost'
    BY <1>27 DEF CloseCommands
<1>28. ASSUME NEW c \in Conn, CloseAvailability(c) PROVE CommandNotLost'
    BY <1>28 DEF CloseAvailability
<1>29. ASSUME NEW c \in Conn, ReturnQueued(c) PROVE CommandNotLost'
    BY <1>29 DEF ReturnQueued
<1>30. ASSUME NEW c \in Conn, DriverEnds(c) PROVE CommandNotLost'
    BY <1>30 DEF DriverEnds, Drained
<1>31. ASSUME NEW c \in Conn, Arrive(c) PROVE CommandNotLost'
    BY <1>31 DEF Arrive
<1>32. CASE UNCHANGED vars
    BY <1>32 DEF vars
<1>33. QED
    BY <1>1, <1>2, <1>3, <1>4, <1>5, <1>6, <1>7, <1>8, <1>9, <1>10, <1>11,
       <1>12, <1>13, <1>14, <1>15, <1>16, <1>17, <1>18, <1>19, <1>20,
       <1>21, <1>22, <1>23, <1>24, <1>25, <1>26, <1>27, <1>28, <1>29,
       <1>30, <1>31, <1>32
    DEF Next, SenderStep, DriverStep

\* After a release the permit is free only if nobody waits.
LEMMA Woken ==
    ASSUME TypeOK, SenderInv, NoMissedWakeup, NEW c \in Conn, NEW W \in SUBSET Sender,
           Release(c, W),
           \A s \in Sender : pc'[s] = "wait" => pc[s] = "wait" /\ conn'[s] = conn[s],
           \A s \in Sender : pc'[s] = "wait" /\ conn[s] = c => s \in W,
           \A d \in Conn : Acquirable(d)' => Acquirable(d)
    PROVE  NoMissedWakeup'
<1> SUFFICES ASSUME NEW s \in Sender, pc'[s] = "wait", Acquirable(conn[s])'
             PROVE  permit'[conn'[s]] # "free"
    BY DEF NoMissedWakeup
<1>1. pc[s] = "wait" /\ conn'[s] = conn[s] /\ conn[s] \in Conn
    BY DEF TypeOK, SenderInv
<1>2. Acquirable(conn[s])
    BY <1>1 DEF Acquirable, Accepting
<1>3. PICK h \in (IF W = {} THEN {"free"} ELSE W) : permit' = [permit EXCEPT ![c] = h]
    BY DEF Release
<1>4. CASE conn[s] = c
    <2>1. h \in Sender
        BY <1>3, <1>4
    <2>2. h # "free"
        BY <2>1, SenderAssumption
    <2>3. QED
        BY <1>1, <1>3, <1>4, <2>2 DEF TypeOK
<1>5. CASE conn[s] # c
    BY <1>1, <1>2, <1>3, <1>5 DEF TypeOK, NoMissedWakeup
<1>6. QED
    BY <1>4, <1>5

\* A permit that is given back goes to a sender that waits for it.
LEMMA WakeupStep ==
    ASSUME TypeOK, SenderInv, NoMissedWakeup, [Next]_vars
    PROVE  NoMissedWakeup'
<1> USE SenderAssumption, ConnAssumption DEF TypeOK, Location, Phase, pooling, history, SenderInv, Accepting, Acquirable, NoMissedWakeup
<1>1. ASSUME NEW s \in Sender, NEW c \in Conn, ChooseReserved(s, c) PROVE NoMissedWakeup'
    BY <1>1 DEF ChooseReserved, Choosing, LiveClients, FreeClients
<1>2. ASSUME NEW s \in Sender, NEW c \in Conn, ChooseWait(s, c) PROVE NoMissedWakeup'
    BY <1>2 DEF ChooseWait, Choosing, LiveClients, FreeClients
<1>3. ASSUME NEW s \in Sender, NEW c \in Conn, Connected(s, c) PROVE NoMissedWakeup'
    BY <1>3 DEF Connected
<1>4. ASSUME NEW s \in Sender, ChooseConnect(s) PROVE NoMissedWakeup'
    BY <1>4 DEF ChooseConnect, Choosing
<1>5. ASSUME NEW s \in Sender, ConnectFails(s) PROVE NoMissedWakeup'
    BY <1>5 DEF ConnectFails
<1>6. ASSUME NEW s \in Sender, Claim(s) PROVE NoMissedWakeup'
    BY <1>6 DEF Claim
<1>7. ASSUME NEW s \in Sender, ClaimFails(s) PROVE NoMissedWakeup'
    BY <1>7 DEF ClaimFails
<1>8. ASSUME NEW s \in Sender, Publish(s) PROVE NoMissedWakeup'
    BY <1>8 DEF Publish
<1>9. ASSUME NEW s \in Sender, Enqueue(s) PROVE NoMissedWakeup'
    BY <1>9 DEF Enqueue
<1>10. ASSUME NEW s \in Sender, Granted(s) PROVE NoMissedWakeup'
    BY <1>10 DEF Granted
<1>11. ASSUME NEW s \in Sender, Refused(s) PROVE NoMissedWakeup'
    BY <1>11 DEF Refused
<1>12. ASSUME NEW s \in Sender, SendCommand(s) PROVE NoMissedWakeup'
    BY <1>12 DEF SendCommand
<1>13. ASSUME NEW s \in Sender, SendRefused(s) PROVE NoMissedWakeup'
    <2>1. /\ Release(conn[s], Waiting(conn[s])) /\ UNCHANGED <<conn, phase>>
          /\ conn[s] \in Conn
          /\ \A t \in Sender : pc'[t] = "wait" => pc[t] = "wait"
        BY <1>13 DEF SendRefused
    <2>2. \A t \in Sender : pc'[t] = "wait" /\ conn[t] = conn[s] => t \in Waiting(conn[s])
        BY <2>1 DEF Waiting
    <2>3. QED
        BY <2>1, <2>2, Woken DEF Waiting
<1>14. ASSUME NEW s \in Sender, Receive(s) PROVE NoMissedWakeup'
    BY <1>14 DEF Receive
<1>15. ASSUME NEW s \in Sender, ReportFailure(s) PROVE NoMissedWakeup'
    BY <1>15 DEF ReportFailure
<1>16. ASSUME NEW s \in Sender, RetryOrGiveUp(s) PROVE NoMissedWakeup'
    BY SMTT(30), <1>16 DEF RetryOrGiveUp
<1>17. ASSUME NEW s \in Sender, Cancel(s) PROVE NoMissedWakeup'
    <2>1. /\ UNCHANGED <<conn, phase>> /\ pc'[s] = "cancelled"
          /\ \A t \in Sender : pc'[t] = "wait" => pc[t] = "wait" /\ t # s
        BY <1>17 DEF Cancel
    <2>2. CASE conn[s] # NoConn /\ permit[conn[s]] = s
        <3> DEFINE W == Waiting(conn[s]) \ {s}
        <3>1. Release(conn[s], W) /\ conn[s] \in Conn /\ W \in SUBSET Sender
            BY <1>17, <2>2 DEF Cancel, Waiting
        <3>2. \A t \in Sender : pc'[t] = "wait" /\ conn[t] = conn[s] => t \in W
            BY <2>1 DEF Waiting
        <3> HIDE DEF W
        <3>3. QED
            BY <2>1, <3>1, <3>2, Woken
    <2>3. CASE ~(conn[s] # NoConn /\ permit[conn[s]] = s)
        BY <1>17, <2>1, <2>3 DEF Cancel
    <2>4. QED
        BY <2>2, <2>3
<1>18. ASSUME NEW c \in Conn, IdleBreak(c) PROVE NoMissedWakeup'
    BY <1>18 DEF IdleBreak, Stop
<1>19. ASSUME NEW c \in Conn, Take(c) PROVE NoMissedWakeup'
    BY <1>19 DEF Take, Quiet
<1>20. ASSUME NEW c \in Conn, EncodeFails(c) PROVE NoMissedWakeup'
    <2>1. Release(c, Waiting(c)) /\ UNCHANGED <<pc, conn>>
        BY <1>20 DEF EncodeFails, Stop, EndExchange
    <2>2. \A d \in Conn : Acquirable(d)' => Acquirable(d)
        BY <1>20 DEF EncodeFails, Stop, EndExchange
    <2>3. \A s \in Sender : pc'[s] = "wait" /\ conn[s] = c => s \in Waiting(c)
        BY <2>1 DEF Waiting
    <2>4. QED
        BY <2>1, <2>2, <2>3, Woken DEF Waiting
<1>21. ASSUME NEW c \in Conn, WriteHead(c) PROVE NoMissedWakeup'
    BY <1>21 DEF WriteHead
<1>22. ASSUME NEW c \in Conn, ExchangeFails(c) PROVE NoMissedWakeup'
    <2>1. Release(c, Waiting(c)) /\ UNCHANGED <<pc, conn>>
        BY <1>22 DEF ExchangeFails, Stop, EndExchange
    <2>2. \A d \in Conn : Acquirable(d)' => Acquirable(d)
        BY <1>22 DEF ExchangeFails, Stop, EndExchange
    <2>3. \A s \in Sender : pc'[s] = "wait" /\ conn[s] = c => s \in Waiting(c)
        BY <2>1 DEF Waiting
    <2>4. QED
        BY <2>1, <2>2, <2>3, Woken DEF Waiting
<1>23. ASSUME NEW c \in Conn, Respond(c) PROVE NoMissedWakeup'
    BY <1>23 DEF Respond, ReadHead, Answer
<1>24. ASSUME NEW c \in Conn, Upgrade(c) PROVE NoMissedWakeup'
    <2>1. Release(c, Waiting(c)) /\ UNCHANGED <<pc, conn>>
        BY <1>24 DEF Upgrade, ReadHead, Stop, EndExchange
    <2>2. \A d \in Conn : Acquirable(d)' => Acquirable(d)
        BY <1>24 DEF Upgrade, ReadHead, Stop, EndExchange
    <2>3. \A s \in Sender : pc'[s] = "wait" /\ conn[s] = c => s \in Waiting(c)
        BY <2>1 DEF Waiting
    <2>4. QED
        BY <2>1, <2>2, <2>3, Woken DEF Waiting
<1>25. ASSUME NEW c \in Conn, KeepAlive(c) PROVE NoMissedWakeup'
    <2>1. Release(c, Waiting(c)) /\ UNCHANGED <<pc, conn>>
        BY <1>25 DEF KeepAlive, EndExchange
    <2>2. \A d \in Conn : Acquirable(d)' => Acquirable(d)
        BY <1>25 DEF KeepAlive, EndExchange
    <2>3. \A s \in Sender : pc'[s] = "wait" /\ conn[s] = c => s \in Waiting(c)
        BY <2>1 DEF Waiting
    <2>4. QED
        BY <2>1, <2>2, <2>3, Woken DEF Waiting
<1>26. ASSUME NEW c \in Conn, BodyBreak(c) PROVE NoMissedWakeup'
    <2>1. Release(c, Waiting(c)) /\ UNCHANGED <<pc, conn>>
        BY <1>26 DEF BodyBreak, Stop, EndExchange
    <2>2. \A d \in Conn : Acquirable(d)' => Acquirable(d)
        BY <1>26 DEF BodyBreak, Stop, EndExchange
    <2>3. \A s \in Sender : pc'[s] = "wait" /\ conn[s] = c => s \in Waiting(c)
        BY <2>1 DEF Waiting
    <2>4. QED
        BY <2>1, <2>2, <2>3, Woken DEF Waiting
<1>27. ASSUME NEW c \in Conn, CloseCommands(c) PROVE NoMissedWakeup'
    BY <1>27 DEF CloseCommands
<1>28. ASSUME NEW c \in Conn, CloseAvailability(c) PROVE NoMissedWakeup'
    BY <1>28 DEF CloseAvailability
<1>29. ASSUME NEW c \in Conn, ReturnQueued(c) PROVE NoMissedWakeup'
    BY <1>29 DEF ReturnQueued
<1>30. ASSUME NEW c \in Conn, DriverEnds(c) PROVE NoMissedWakeup'
    BY <1>30 DEF DriverEnds, Drained
<1>31. ASSUME NEW c \in Conn, Arrive(c) PROVE NoMissedWakeup'
    BY <1>31 DEF Arrive
<1>32. CASE UNCHANGED vars
    BY <1>32 DEF vars
<1>33. QED
    BY <1>1, <1>2, <1>3, <1>4, <1>5, <1>6, <1>7, <1>8, <1>9, <1>10, <1>11,
       <1>12, <1>13, <1>14, <1>15, <1>16, <1>17, <1>18, <1>19, <1>20,
       <1>21, <1>22, <1>23, <1>24, <1>25, <1>26, <1>27, <1>28, <1>29,
       <1>30, <1>31, <1>32
    DEF Next, SenderStep, DriverStep

\* NothingStranded: a sender that waits for its response has its command queued
\* before a driver that runs, in that driver, or answered, and no sender waits on
\* a semaphore whose permit is free, however many senders are cancelled and
\* connections stop in between (run_client, acquire_owned).
THEOREM NothingStrandedHolds == Spec => []NothingStranded
<1> DEFINE Strong == IInv /\ DrainedInv /\ AnsweredInv /\ NothingStranded
<1>1. Init => DrainedInv /\ AnsweredInv /\ NothingStranded
    BY DEF Init, DrainedInv, AnsweredInv, NothingStranded, CommandNotLost, NoMissedWakeup
<1>2. Strong /\ [Next]_vars => Strong'
    BY TypeStep, ConnStep, CommandStep, SenderStepInv, LockStep, CountStep,
       DrainedStep, AnsweredStep, NotLostStep, WakeupStep DEF IInv, NothingStranded
<1>3. QED
    BY InitIInv, <1>1, <1>2, PTL DEF Spec

-----------------------------------------------------------------------------
(* The refinement: every step of the pool is a step of RequestOnce, or     *)
(* changes nothing its callers can see.                                    *)

Final == {"ok", "error", "cancelled"}

Simulated == [Promise!Next]_(Promise!vars)

\* A step that writes no head and settles nobody is invisible.
LEMMA Invisible ==
    ASSUME UNCHANGED written,
           \A s \in Sender : pc'[s] = pc[s] \/ (pc[s] \notin Final /\ pc'[s] \notin Final)
    PROVE  Simulated
<1>1. UNCHANGED Promise!vars
    BY DEF Promise!vars, Final
<1> QED
    BY <1>1 DEF Simulated

\* A step that gives one sender its outcome settles it.
LEMMA Settled ==
    ASSUME TypeOK, NEW s \in Sender, NEW o \in Final, pc[s] \notin Final,
           pc' = [pc EXCEPT ![s] = o], UNCHANGED written,
           o = "ok" => written[s] # {}
    PROVE  Simulated
<1>1. Promise!Settle(s, o)
    BY DEF Promise!Settle, TypeOK, Final
<1> QED
    BY <1>1 DEF Simulated, Promise!Next, Final

\* Every step of the pool is a step of RequestOnce or changes nothing of it:
\* writing the head delivers, the outcome of send settles, the rest stutters.
LEMMA StepSimulated == IInv /\ [Next]_vars => Simulated
<1> SUFFICES ASSUME IInv, [Next]_vars PROVE Simulated
    OBVIOUS
<1> TypeOK
    BY DEF IInv
<1> USE DEF Final, pooling, history
<1>1. ASSUME NEW s \in Sender, NEW c \in Conn, ChooseReserved(s, c) PROVE Simulated
    BY <1>1, Invisible DEF ChooseReserved, TypeOK, Choosing
<1>2. ASSUME NEW s \in Sender, NEW c \in Conn, ChooseWait(s, c) PROVE Simulated
    BY <1>2, Invisible DEF ChooseWait, TypeOK, Choosing
<1>3. ASSUME NEW s \in Sender, NEW c \in Conn, Connected(s, c) PROVE Simulated
    BY <1>3, Invisible DEF Connected, TypeOK
<1>4. ASSUME NEW s \in Sender, ChooseConnect(s) PROVE Simulated
    BY <1>4, Invisible DEF ChooseConnect, TypeOK, Choosing
<1>5. ASSUME NEW s \in Sender, ConnectFails(s) PROVE Simulated
    BY <1>5, Settled DEF ConnectFails
<1>6. ASSUME NEW s \in Sender, Claim(s) PROVE Simulated
    BY <1>6, Invisible DEF Claim, TypeOK
<1>7. ASSUME NEW s \in Sender, ClaimFails(s) PROVE Simulated
    BY <1>7, Settled DEF ClaimFails
<1>8. ASSUME NEW s \in Sender, Publish(s) PROVE Simulated
    BY <1>8, Invisible DEF Publish, TypeOK
<1>9. ASSUME NEW s \in Sender, Enqueue(s) PROVE Simulated
    BY <1>9, Invisible DEF Enqueue, TypeOK
<1>10. ASSUME NEW s \in Sender, Granted(s) PROVE Simulated
    BY <1>10, Invisible DEF Granted, TypeOK
<1>11. ASSUME NEW s \in Sender, Refused(s) PROVE Simulated
    BY <1>11, Invisible DEF Refused, TypeOK
<1>12. ASSUME NEW s \in Sender, SendCommand(s) PROVE Simulated
    BY <1>12, Invisible DEF SendCommand, TypeOK
<1>13. ASSUME NEW s \in Sender, SendRefused(s) PROVE Simulated
    BY <1>13, Invisible DEF SendRefused, TypeOK
<1>14. ASSUME NEW s \in Sender, Receive(s) PROVE Simulated
  <2>1. CASE reply[s] = "ok"
    BY <1>14, <2>1, Settled DEF Receive, IInv, SenderInv
  <2>2. CASE reply[s] # "ok"
    <3>1. reply[s] \in {"failed", "notsent"}
      BY <1>14, <2>2 DEF Receive, TypeOK
    <3> QED
      BY <1>14, <3>1, Invisible DEF Receive, TypeOK
  <2> QED
    BY <2>1, <2>2
<1>15. ASSUME NEW s \in Sender, ReportFailure(s) PROVE Simulated
    BY <1>15, Settled DEF ReportFailure
<1>16. ASSUME NEW s \in Sender, RetryOrGiveUp(s) PROVE Simulated
  <2>1. CASE reused[s]
    BY <1>16, <2>1, Invisible DEF RetryOrGiveUp, TypeOK
  <2>2. CASE ~reused[s]
    BY <1>16, <2>2, Settled DEF RetryOrGiveUp
  <2> QED
    BY <2>1, <2>2
<1>17. ASSUME NEW s \in Sender, Cancel(s) PROVE Simulated
    BY <1>17, Settled DEF Cancel
<1>18. ASSUME NEW c \in Conn, IdleBreak(c) PROVE Simulated
    BY <1>18, Invisible DEF IdleBreak
<1>19. ASSUME NEW c \in Conn, Take(c) PROVE Simulated
    BY <1>19, Invisible DEF Take
<1>20. ASSUME NEW c \in Conn, EncodeFails(c) PROVE Simulated
    BY <1>20, Invisible DEF EncodeFails
<1>21. ASSUME NEW c \in Conn, WriteHead(c) PROVE Simulated
  <2>1. PICK s \in Sender : /\ s = cur[c]
                            /\ pc[s] \in {"await", "cancelled"}
                            /\ written[s] = {}
    BY <1>21, OwnedCommand DEF WriteHead, IInv, OwnedBy
  <2>2. Promise!Deliver(s)
    BY SMTT(30), <1>21, <2>1 DEF WriteHead, Promise!Deliver, TypeOK
  <2>3. Promise!Next
    BY <2>2 DEF Promise!Next
  <2> QED
    BY <2>3 DEF Simulated
<1>22. ASSUME NEW c \in Conn, ExchangeFails(c) PROVE Simulated
    BY <1>22, Invisible DEF ExchangeFails
<1>23. ASSUME NEW c \in Conn, Respond(c) PROVE Simulated
    BY <1>23, Invisible DEF Respond, ReadHead
<1>24. ASSUME NEW c \in Conn, Upgrade(c) PROVE Simulated
    BY <1>24, Invisible DEF Upgrade, ReadHead
<1>25. ASSUME NEW c \in Conn, KeepAlive(c) PROVE Simulated
    BY <1>25, Invisible DEF KeepAlive
<1>26. ASSUME NEW c \in Conn, BodyBreak(c) PROVE Simulated
    BY <1>26, Invisible DEF BodyBreak
<1>27. ASSUME NEW c \in Conn, CloseCommands(c) PROVE Simulated
    BY <1>27, Invisible DEF CloseCommands
<1>28. ASSUME NEW c \in Conn, CloseAvailability(c) PROVE Simulated
    BY <1>28, Invisible DEF CloseAvailability
<1>29. ASSUME NEW c \in Conn, ReturnQueued(c) PROVE Simulated
    BY <1>29, Invisible DEF ReturnQueued
<1>30. ASSUME NEW c \in Conn, DriverEnds(c) PROVE Simulated
    BY <1>30, Invisible DEF DriverEnds
<1>31. ASSUME NEW c \in Conn, Arrive(c) PROVE Simulated
    BY <1>31, Invisible DEF Arrive
<1>32. CASE UNCHANGED vars
    BY <1>32, Invisible DEF vars
<1>33. QED
    BY <1>1, <1>2, <1>3, <1>4, <1>5, <1>6, <1>7, <1>8, <1>9, <1>10, <1>11,
       <1>12, <1>13, <1>14, <1>15, <1>16, <1>17, <1>18, <1>19, <1>20, <1>21, <1>22,
       <1>23, <1>24, <1>25, <1>26, <1>27, <1>28, <1>29, <1>30, <1>31, <1>32
    DEF Next, SenderStep, DriverStep

\* The pool keeps what RequestOnce promises, for every value of the constants.
THEOREM Refinement == Spec => ImplementsRequestOnce
<1>1. Init => Promise!Init
    BY DEF Init, Promise!Init
<1>2. IInv /\ [Next]_vars => [Promise!Next]_(Promise!vars)
    BY StepSimulated DEF Simulated
<1> QED
    BY InductiveInvariant, <1>1, <1>2, PTL
    DEF Spec, ImplementsRequestOnce, Promise!Spec

-----------------------------------------------------------------------------
(* Relay: what the inductive invariant says.                               *)

\* A body that an HTTP/2 or HTTP/3 side is told the length of.
Counted ==
    /\ m.to \in Multiplexed /\ ~Bodiless /\ m.from # "scripted"
    /\ PreparedHead.length # <<>>

Total == Head(PreparedHead.length)

\* The head that has gone out is the one that was prepared and validated, and the
\* encoder works with the framing it was prepared for.
SentHead ==
    /\ reader.state \in {"head", "rejected"} => writer.state = "head"
    /\ reader.state \notin {"head", "rejected"} => HeadIsValid
    /\ writer.state = "head" => out.head = NoHead /\ out.body = <<>> /\ out.end = "open"
                                /\ ~writer.complete
    /\ writer.state = "body" =>
         writer.framing = IF m.to \in Multiplexed THEN Framing(m.to, 0) ELSE PreparedFraming
    /\ out.head # NoHead =>
         /\ out.head = PreparedHead /\ HeadIsWritable
         /\ reader.state \notin {"head", "rejected"}
         /\ m.to = "h1" => writer.framing = PreparedFraming

BytesOf(x) ==
    IF x.from = "h1" THEN ToSet(x.wire) ELSE UNION {ToSet(f.bytes) : f \in ToSet(x.wire)}

Bytes == UNION {BytesOf(x) : x \in Messages}

\* The writer has ended the body after all its bytes, or it has failed.
BodySettled ==
    \/ out.end = "ended" /\ Len(out.body) = Total
       /\ (writer.state = "body" => writer.complete)
    \/ out.end # "ended" /\ writer.state = "failed"

Open == out.end = "open" /\ writer.state \in {"head", "body"} /\ ~writer.complete

\* What an HTTP/2 or HTTP/3 stream, or a collected body, has still to give.
StreamInv ==
    m.from # "h1" /\ Counted =>
      \/ BodySettled
      \/ /\ Open /\ IsStream(wire) /\ out.body \in Seq(Bytes)
         /\ \A i \in 1..(Len(wire) - 1) : wire[i].bytes \in Seq(Bytes)
         /\ wire[Len(wire)] = End => Carries(wire, Len(out.body), Total)

\* The decoder of an HTTP/1 body with a Content-Length.
LengthReader ==
    /\ wire \in Seq(Bytes) /\ buf \in Seq(Bytes)
    /\ reader.state = "head" => channel = <<>>
    /\ reader.state \notin {"head", "rejected"} =>
         /\ reader.framing = Framing("length", Total) /\ reader.chunk = "complete"
         /\ reader.left \in Nat /\ Total \in Nat /\ reader.left <= Total
    /\ reader.state = "done" => reader.left = 0

\* What such a body has still to give.
Pending ==
    /\ Open /\ out.body \in Seq(Bytes) /\ channel \in Seq(ToSet(channel))
    /\ reader.state # "aborted"
    /\ \A i \in 1..Len(channel) :
          \/ channel[i].kind = "data" /\ channel[i].bytes \in Seq(Bytes)
          \/ channel[i] = Error /\ i = Len(channel) /\ reader.state = "failed"
    /\ reader.state \in {"body", "done"} =>
         Carries(channel, Len(out.body), Total - reader.left)
    /\ reader.state = "failed" => channel # <<>> /\ channel[Len(channel)] = Error

LengthInv ==
    m.from = "h1" /\ Counted =>
      /\ LengthReader
      /\ BodySettled \/ Pending \/ ("abort" \in faults /\ reader.state = "aborted")

Shapes ==
    /\ DOMAIN reader = {"state", "framing", "left", "chunk"}
    /\ DOMAIN writer = {"state", "framing", "left", "complete"}
    /\ DOMAIN out = {"head", "body", "trailers", "end"}

RelayInv == m \in Messages /\ Shapes /\ SentHead /\ StreamInv /\ LengthInv
-----------------------------------------------------------------------------
(* Relay: the heads.                                                       *)

\* A message is what its assumption says.
LEMMA MessageFacts ==
    ASSUME m \in Messages
    PROVE  /\ m.side \in {"request", "response"}
           /\ m.from \in {"h1", "h2", "h3", "buffered", "edited", "scripted"}
           /\ m.to \in {"h1", "h2", "h3"}
           /\ IsHead(m.head)
           /\ m.side = "request" => m.head.method # "CONNECT"
BY MessageAssumption DEF Multiplexed, Collected

HeadFields == {"version", "method", "status", "target", "hosts", "length", "coding",
               "connection", "te", "other", "pseudo"}

\* A function on the fields of a head is a head.
LEMMA FieldsMakeHead ==
    ASSUME NEW p, p = [x \in HeadFields |-> p[x]], p.length \in Seq(Int)
    PROVE  IsHead(p)
BY DEF HeadFields, IsHead

\* A head of a message is a record of the fields of a head.
LEMMA HeadHasFields ==
    ASSUME NEW h, IsHead(h)
    PROVE  DOMAIN h = HeadFields /\ h = [x \in HeadFields |-> h[x]] /\ h.length \in Seq(Int)
BY DEF HeadFields, IsHead

\* A replaced body changes the framing fields of its head alone.
LEMMA HandledFacts ==
    ASSUME m \in Messages
    PROVE  /\ IsHead(HandledHead)
           /\ HandledHead.version = m.head.version /\ HandledHead.method = m.head.method
           /\ HandledHead.status = m.head.status /\ HandledHead.target = m.head.target
           /\ HandledHead.connection = m.head.connection /\ HandledHead.te = m.head.te
           /\ HandledHead.other = m.head.other
           /\ m.from # "edited" => HandledHead = m.head
           /\ m.from = "edited" => HandledHead.length = << Len(m.data) >>
<1>1. IsHead(m.head)
  BY MessageFacts
<1>2. CASE m.from # "edited"
  BY <1>1, <1>2 DEF HandledHead
<1>3. CASE m.from = "edited"
  <2>1. Len(m.data) \in Int
    BY <1>3, MessageAssumption DEF Collected
  <2>2. << Len(m.data) >> \in Seq(Int)
    BY <2>1
  <2> QED
    BY <1>1, <1>3, <2>2 DEF HandledHead, IsHead, reconcile_edited_body_headers, encode_from_hook
<1> QED
  BY <1>2, <1>3

\* What is taken out of a request on its way upstream.
LEMMA RequestFacts ==
    ASSUME NEW h, IsHead(h), NEW p, p = prepare_upstream_protocol_request(h)
    PROVE  /\ IsHead(p)
           /\ p.other = h.other \ (h.connection \cup HopByHop \cup {"proxy-authorization"})
           /\ p.connection = {} /\ p.coding = <<>> /\ p.te = {} /\ p.version = "1.1"
           /\ p.target = "absolute" /\ p.method = h.method /\ p.length = h.length
           /\ p.status = h.status
<1>1. DOMAIN h = HeadFields /\ h.length \in Seq(Int)
  BY HeadHasFields
<1>2. /\ p.other = h.other \ (h.connection \cup HopByHop \cup {"proxy-authorization"})
      /\ p.connection = {} /\ p.coding = <<>> /\ p.te = {} /\ p.version = "1.1"
      /\ p.target = "absolute" /\ p.method = h.method /\ p.length = h.length
      /\ p.status = h.status
  BY <1>1 DEF HeadFields, prepare_upstream_protocol_request
<1>3. p = [x \in HeadFields |-> p[x]]
  BY <1>1 DEF prepare_upstream_protocol_request
<1> QED
  BY <1>1, <1>2, <1>3, FieldsMakeHead

\* What is taken out of a head that goes to an HTTP/2 or HTTP/3 side.
LEMMA ConnectionFacts ==
    ASSUME NEW h, IsHead(h), NEW p, p = WithoutConnection(h)
    PROVE  /\ IsHead(p)
           /\ p.other = h.other \ (h.connection \cup HopByHop)
           /\ p.connection = {} /\ p.coding = <<>> /\ p.te = h.te /\ p.version = "2"
           /\ p.target = h.target /\ p.method = h.method /\ p.length = h.length
           /\ p.status = h.status
<1>1. DOMAIN h = HeadFields /\ h.length \in Seq(Int)
  BY HeadHasFields
<1>2. /\ p.other = h.other \ (h.connection \cup HopByHop)
      /\ p.connection = {} /\ p.coding = <<>> /\ p.te = h.te /\ p.version = "2"
      /\ p.target = h.target /\ p.method = h.method /\ p.length = h.length
      /\ p.status = h.status
  BY <1>1 DEF HeadFields, WithoutConnection
<1>3. p = [x \in HeadFields |-> p[x]]
  BY <1>1 DEF WithoutConnection
<1> QED
  BY <1>1, <1>2, <1>3, FieldsMakeHead

\* The pseudo-headers of a request before its fields.
LEMMA RequestPseudo ==
    <<":method", ":scheme", ":authority", ":path">> \o <<"field">>
      = <<":method", ":scheme", ":authority", ":path", "field">>
<1> DEFINE S == {":method", ":scheme", ":authority", ":path", "field"}
           s == <<":method", ":scheme", ":authority", ":path">> \o <<"field">>
           t == <<":method", ":scheme", ":authority", ":path", "field">>
<1>1. s \in Seq(S) /\ Len(s) = 5
  BY ConcatProperties
<1>2. s[1] = ":method" /\ s[2] = ":scheme" /\ s[3] = ":authority" /\ s[4] = ":path" /\ s[5] = "field"
  BY ConcatProperties
<1>3. t \in Seq(S) /\ Len(t) = 5 /\ t[1] = ":method" /\ t[2] = ":scheme" /\ t[3] = ":authority"
      /\ t[4] = ":path" /\ t[5] = "field"
  OBVIOUS
<1> HIDE DEF s, t, S
<1>4. \A i \in 1..5 : s[i] = t[i]
  <2> TAKE i \in 1..5
  <2>1. i = 1 \/ i = 2 \/ i = 3 \/ i = 4 \/ i = 5
    OBVIOUS
  <2> QED
    BY <1>2, <1>3, <2>1
<1>5. s = t
  BY <1>1, <1>3, <1>4, SeqEqual
<1> QED
  BY <1>5 DEF s, t

\* The same for a response.
LEMMA ResponsePseudo ==
    <<":status">> \o <<"field">> = <<":status", "field">>
<1> DEFINE S == {":status", "field"}
           s == <<":status">> \o <<"field">>
           t == <<":status", "field">>
<1>1. s \in Seq(S) /\ Len(s) = 2
  BY ConcatProperties
<1>2. s[1] = ":status" /\ s[2] = "field"
  BY ConcatProperties
<1>3. t \in Seq(S) /\ Len(t) = 2 /\ t[1] = ":status" /\ t[2] = "field"
  OBVIOUS
<1> HIDE DEF s, t, S
<1>4. \A i \in 1..2 : s[i] = t[i]
  <2> TAKE i \in 1..2
  <2>1. i = 1 \/ i = 2
    OBVIOUS
  <2> QED
    BY <1>2, <1>3, <2>1
<1>5. s = t
  BY <1>1, <1>3, <1>4, SeqEqual
<1> QED
  BY <1>5 DEF s, t
\* The pseudo-headers are put before the fields.
LEMMA EncodedFacts ==
    ASSUME NEW h, IsHead(h), NEW pseudo, NEW p, p = EncodedHead(h, pseudo),
           NEW all, all = pseudo \o <<"field">>
    PROVE  /\ p.other = h.other \ (h.connection \cup HopByHop)
           /\ p.connection = {} /\ p.coding = <<>> /\ p.te = h.te
           /\ p.target = h.target /\ p.method = h.method /\ p.length = h.length
           /\ p.pseudo = all
<1> DEFINE c == WithoutConnection(h)
<1>1. /\ IsHead(c) /\ c.other = h.other \ (h.connection \cup HopByHop)
      /\ c.connection = {} /\ c.coding = <<>> /\ c.te = h.te
      /\ c.target = h.target /\ c.method = h.method /\ c.length = h.length
  BY ConnectionFacts
<1>2. p = [c EXCEPT !.hosts = 0, !.version = "3", !.pseudo = all]
  BY DEF EncodedHead
<1> HIDE DEF c
<1>3. DOMAIN c = HeadFields
  BY <1>1, HeadHasFields
<1> QED
  BY <1>1, <1>2, <1>3 DEF HeadFields

\* The framing fields of a head are those of its framing.
LEMMA FramedFacts ==
    ASSUME NEW h, IsHead(h), NEW f, NEW p, p = Framed(h, f)
    PROVE  /\ DOMAIN p = HeadFields
           /\ p.other = h.other /\ p.connection = h.connection /\ p.status = h.status
           /\ f.kind = "chunked" => p.length = <<>> /\ p.coding = <<"chunked">>
           /\ f.kind = "length" => p.length = << f.length >> /\ p.coding = <<>>
           /\ f.kind \notin {"chunked", "length"} => p.length = <<>> /\ p.coding = <<>>
<1> DEFINE u == Unframed(h)
<1>1. DOMAIN h = HeadFields
  BY HeadHasFields
<1>2. /\ DOMAIN u = HeadFields /\ u.other = h.other /\ u.connection = h.connection
      /\ u.status = h.status /\ u.length = <<>> /\ u.coding = <<>>
  BY <1>1 DEF Unframed, HeadFields
<1>3. p = CASE f.kind = "chunked" -> [u EXCEPT !.coding = <<"chunked">>]
            [] f.kind = "length" -> [u EXCEPT !.length = << f.length >>]
            [] OTHER -> u
  BY DEF Framed
<1> HIDE DEF u
<1>4. CASE f.kind = "chunked"
  <2>1. p = [u EXCEPT !.coding = <<"chunked">>]
    BY <1>3, <1>4
  <2> QED
    BY <1>2, <1>4, <2>1 DEF HeadFields
<1>5. CASE f.kind = "length"
  <2>1. p = [u EXCEPT !.length = << f.length >>]
    BY <1>3, <1>5
  <2> QED
    BY <1>2, <1>5, <2>1 DEF HeadFields
<1>6. CASE f.kind \notin {"chunked", "length"}
  <2>1. p = u
    BY <1>3, <1>6
  <2> QED
    BY <1>2, <1>6, <2>1
<1> QED
  BY <1>4, <1>5, <1>6
\* The framing of a request body is chunked, a length or none.
LEMMA RequestFraming ==
    \/ prepare_request_framing = Framing("chunked", 0)
    \/ prepare_request_framing = Framing("none", 0)
    \/ prepare_request_framing = Framing("length", ExactLength)
BY DEF prepare_request_framing

\* Both sides of an HTTP/1 hop read the framing of a request off its head.
LEMMA RequestAgrees ==
    ASSUME m \in Messages, m.side = "request", m.to = "h1"
    PROVE  /\ FramingOf(PreparedHead) = PreparedFraming
           /\ PreparedHead.other \cap (m.head.connection \cup HopByHop) = {}
<1> DEFINE h == HandledHead
           u == prepare_upstream_protocol_request(h)
           v == prepare_http1_request(h)
           p == PreparedHead
<1>1. IsHead(h) /\ h.connection = m.head.connection /\ h.other = m.head.other
  BY HandledFacts
<1> HIDE DEF h
<1>2. IsHead(u) /\ u.other = h.other \ (h.connection \cup HopByHop \cup {"proxy-authorization"})
  BY <1>1, RequestFacts
<1>3. v = [u EXCEPT !.hosts = 1, !.target = "origin"]
  BY DEF prepare_http1_request
<1> HIDE DEF u, v
<1>4. DOMAIN u = HeadFields /\ u.length \in Seq(Int)
  BY <1>2, HeadHasFields
<1>5. v.other = u.other /\ v.length = u.length /\ v = [x \in HeadFields |-> v[x]]
  BY <1>3, <1>4 DEF HeadFields
<1>6. IsHead(v)
  BY <1>4, <1>5, FieldsMakeHead
<1>7. p = Framed(v, PreparedFraming)
  BY DEF PreparedHead, v, h
<1>8. PreparedFraming \in {Framing("chunked", 0), Framing("none", 0),
                           Framing("length", ExactLength)}
  BY RequestFraming DEF PreparedFraming
<1> HIDE DEF p
<1>9. p.other = v.other
  BY <1>6, <1>7, FramedFacts
<1>10. FramingOf(p) = for_request(p)
  BY DEF FramingOf
<1>11. for_request(p) = PreparedFraming
  <2>1. CASE PreparedFraming = Framing("chunked", 0)
    <3>1. p.coding = <<"chunked">>
      BY <1>6, <1>7, <2>1, FramedFacts DEF Framing
    <3> QED
      BY <3>1, <2>1 DEF for_request
  <2>2. CASE PreparedFraming = Framing("none", 0)
    <3>1. p.coding = <<>> /\ p.length = <<>>
      BY <1>6, <1>7, <2>2, FramedFacts DEF Framing
    <3> QED
      BY <3>1, <2>2 DEF for_request
  <2>3. CASE PreparedFraming = Framing("length", ExactLength)
    <3>1. p.coding = <<>> /\ p.length = << ExactLength >>
      BY <1>6, <1>7, <2>3, FramedFacts DEF Framing
    <3> QED
      BY <3>1, <2>3 DEF for_request
  <2> QED
    BY <1>8, <2>1, <2>2, <2>3
<1> QED
  BY <1>1, <1>2, <1>5, <1>9, <1>10, <1>11 DEF p

\* Both sides of an HTTP/1 hop read the framing of a response off its head, and the
\* connection closes behind a body that only its end can end.
LEMMA ResponseAgrees ==
    ASSUME m \in Messages, m.side = "response", m.to = "h1"
    PROVE  /\ IF Bodiless
              THEN FramingOf(PreparedHead) \in {Framing("none", 0), Framing("length", 0)}
              ELSE FramingOf(PreparedHead) = PreparedFraming
           /\ FramingOf(PreparedHead).kind = "eof" => "close" \in PreparedHead.connection
<1> DEFINE h == HandledHead
           f == prepare_response_framing(h.status)
           q == IF response_body_is_forbidden(h.status) THEN ForbiddenHead(h) ELSE Framed(h, f)
           p == PreparedHead
<1>1. IsHead(h) /\ h.status = m.head.status
  BY HandledFacts
<1>2. p = [q EXCEPT !.version = m.version, !.connection = ConnectionFor(h, f)]
  BY DEF PreparedHead, ResponseHead
<1>3. PreparedFraming = f
  BY <1>1 DEF PreparedFraming
<1>4. DOMAIN h = HeadFields
  BY <1>1, HeadHasFields
<1>5. FramingOf(p) = for_response(p)
  BY DEF FramingOf
<1>6. f.kind = "eof" => ConnectionFor(h, f) = {"close"}
  BY DEF ConnectionFor, Closes
<1> HIDE DEF h, p
<1>7. CASE Bodiless
  <2>1. response_body_is_forbidden(h.status)
    BY <1>1, <1>7 DEF Bodiless
  <2>2. q = ForbiddenHead(h)
    BY <2>1
  <2>3. /\ DOMAIN q = HeadFields /\ q.status = h.status /\ q.coding = <<>>
        /\ h.status = "205" => q.length = << 0 >>
    BY <1>4, <2>2 DEF ForbiddenHead, HeadFields
  <2> HIDE DEF q, f
  <2>4. p.status = h.status /\ p.coding = <<>> /\ (h.status = "205" => p.length = << 0 >>)
    BY <1>2, <2>3 DEF HeadFields
  <2>5. for_response(p) \in {Framing("none", 0), Framing("length", 0)}
    <3>1. CASE NoBody(p.status)
      BY <3>1 DEF for_response
    <3>2. CASE ~NoBody(p.status)
      <4>1. p.length = << 0 >>
        BY <2>1, <2>4, <3>2 DEF response_body_is_forbidden
      <4>2. for_response(p) = Framing("length", Head(p.length))
        BY <2>4, <3>2, <4>1 DEF for_response
      <4> QED
        BY <4>1, <4>2
    <3> QED
      BY <3>1, <3>2
  <2> QED
    BY <1>5, <1>7, <2>5 DEF Framing, p
<1>8. CASE ~Bodiless
  <2>1. ~response_body_is_forbidden(h.status)
    BY <1>1, <1>8 DEF Bodiless
  <2>2. q = Framed(h, f)
    BY <2>1
  <2>3. f \in {Framing("length", ExactLength), Framing("chunked", 0), Framing("eof", 0)}
    BY <2>1 DEF prepare_response_framing
  <2> HIDE DEF q, f
  <2>4. /\ DOMAIN q = HeadFields /\ q.status = h.status
        /\ f.kind = "chunked" => q.length = <<>> /\ q.coding = <<"chunked">>
        /\ f.kind = "length" => q.length = << f.length >> /\ q.coding = <<>>
        /\ f.kind \notin {"chunked", "length"} => q.length = <<>> /\ q.coding = <<>>
    BY <1>1, <2>2, FramedFacts
  <2>5. /\ p.status = h.status /\ p.length = q.length /\ p.coding = q.coding
        /\ p.connection = ConnectionFor(h, f)
    BY <1>2, <2>4 DEF HeadFields
  <2>6. ~NoBody(p.status)
    BY <2>1, <2>5 DEF response_body_is_forbidden
  <2>7. for_response(p) = f
    <3>1. CASE f = Framing("chunked", 0)
      BY <2>4, <2>5, <2>6, <3>1 DEF for_response, Framing
    <3>2. CASE f = Framing("eof", 0)
      BY <2>4, <2>5, <2>6, <3>2 DEF for_response, Framing
    <3>3. CASE f = Framing("length", ExactLength)
      BY <2>4, <2>5, <2>6, <3>3 DEF for_response, Framing
    <3> QED
      BY <2>3, <3>1, <3>2, <3>3
  <2> QED
    BY <1>3, <1>5, <1>6, <1>8, <2>5, <2>7 DEF p
<1> QED
  BY <1>7, <1>8

\* A head for an HTTP/2 or HTTP/3 side has nothing of the connection it came on,
\* and keeps its Content-Length.
LEMMA MultiplexedAgrees ==
    ASSUME m \in Messages, m.to \in Multiplexed
    PROVE  /\ PreparedHead.connection = {} /\ PreparedHead.coding = <<>>
           /\ PreparedHead.other \cap (m.head.connection \cup HopByHop) = {}
           /\ PreparedHead.length = HandledHead.length
           /\ m.side = "request" => /\ PreparedHead.target = "absolute" /\ PreparedHead.te = {}
                                    /\ PreparedHead.method = m.head.method
           /\ m.to = "h3" => PreparedHead.pseudo =
                IF m.side = "request" THEN <<":method", ":scheme", ":authority", ":path", "field">>
                ELSE <<":status", "field">>
<1> DEFINE h == HandledHead
           u == prepare_upstream_protocol_request(h)
           p == PreparedHead
<1>1. /\ IsHead(h) /\ h.connection = m.head.connection /\ h.other = m.head.other
      /\ h.method = m.head.method
  BY HandledFacts
<1> HIDE DEF h
<1>2. /\ IsHead(u)
      /\ u.other = h.other \ (h.connection \cup HopByHop \cup {"proxy-authorization"})
      /\ u.connection = {} /\ u.te = {} /\ u.target = "absolute" /\ u.method = h.method
      /\ u.length = h.length
  BY <1>1, RequestFacts
<1>3. m.side \in {"request", "response"} /\ (m.side = "request" => m.head.method # "CONNECT")
  BY MessageFacts
<1> HIDE DEF u, p
<1>4. CASE m.side = "request" /\ m.to = "h2"
  <2> DEFINE c == WithoutConnection(u)
  <2>1. p = [c EXCEPT !.hosts = 0]
    BY <1>4 DEF p, u, h, PreparedHead, to_h2_request
  <2>2. /\ IsHead(c) /\ c.other = u.other \ (u.connection \cup HopByHop)
        /\ c.connection = {} /\ c.coding = <<>> /\ c.te = u.te
        /\ c.target = u.target /\ c.method = u.method /\ c.length = u.length
    BY <1>2, ConnectionFacts
  <2> HIDE DEF c
  <2>3. DOMAIN c = HeadFields
    BY <2>2, HeadHasFields
  <2>4. /\ p.other = c.other /\ p.connection = c.connection /\ p.coding = c.coding
        /\ p.te = c.te /\ p.target = c.target /\ p.method = c.method /\ p.length = c.length
    BY <2>1, <2>3 DEF HeadFields
  <2> QED
    BY <1>1, <1>2, <1>4, <2>2, <2>4 DEF p, h
<1>5. CASE m.side = "response" /\ m.to = "h2"
  <2>1. p = WithoutConnection(h)
    BY <1>5 DEF p, h, PreparedHead, to_h2_response
  <2>2. /\ p.other = h.other \ (h.connection \cup HopByHop)
        /\ p.connection = {} /\ p.coding = <<>> /\ p.length = h.length
    BY <1>1, <2>1, ConnectionFacts
  <2> QED
    BY <1>1, <1>5, <2>2 DEF p, h
<1>6. CASE m.side = "request" /\ m.to = "h3"
  <2> DEFINE s == <<":method", ":scheme", ":authority", ":path">>
             t == <<":method", ":scheme", ":authority", ":path", "field">>
  <2>1. p = EncodedHead(u, s)
    <3>1. p = encode_request_headers(u)
      BY <1>6 DEF p, u, h, PreparedHead
    <3>2. u.method # "CONNECT"
      BY <1>1, <1>2, <1>3, <1>6
    <3> QED
      BY <3>1, <3>2 DEF encode_request_headers
  <2>3. t = s \o <<"field">>
    BY RequestPseudo
  <2> HIDE DEF s, t
  <2>2. /\ p.other = u.other \ (u.connection \cup HopByHop)
        /\ p.connection = {} /\ p.coding = <<>> /\ p.te = u.te
        /\ p.target = u.target /\ p.method = u.method /\ p.length = u.length
        /\ p.pseudo = t
    <3>1. IsHead(u)
      BY <1>2
    <3> QED
      BY <2>1, <2>3, <3>1, EncodedFacts
  <2> QED
    BY <1>1, <1>2, <1>6, <2>2 DEF p, h, t
<1>7. CASE m.side = "response" /\ m.to = "h3"
  <2> DEFINE s == <<":status">>
             t == <<":status", "field">>
  <2>1. p = EncodedHead(h, s)
    BY <1>7 DEF p, h, PreparedHead, encode_response_headers
  <2>3. t = s \o <<"field">>
    BY ResponsePseudo
  <2> HIDE DEF s, t
  <2>2. /\ p.other = h.other \ (h.connection \cup HopByHop)
        /\ p.connection = {} /\ p.coding = <<>> /\ p.length = h.length
        /\ p.pseudo = t
    BY <1>1, <2>1, <2>3, EncodedFacts
  <2> QED
    BY <1>1, <1>7, <2>2 DEF p, h, t
<1> QED
  BY <1>3, <1>4, <1>5, <1>6, <1>7 DEF Multiplexed

\* So the other side accepts it.
LEMMA MultiplexedValid ==
    ASSUME m \in Messages, m.to \in Multiplexed, HeadIsWritable
    PROVE  IF m.to = "h2" THEN from_h2(PreparedHead) ELSE from_h3(PreparedHead)
<1> DEFINE p == PreparedHead
<1>1. /\ p.connection = {} /\ p.coding = <<>>
      /\ p.other \cap (m.head.connection \cup HopByHop) = {}
      /\ m.side = "request" => p.target = "absolute" /\ p.te = {} /\ p.method = m.head.method
      /\ m.to = "h3" => p.pseudo =
           IF m.side = "request" THEN <<":method", ":scheme", ":authority", ":path", "field">>
           ELSE <<":status", "field">>
  BY MultiplexedAgrees
<1>2. m.side = "request" => m.head.method # "CONNECT"
  BY MessageFacts
<1>3. validate_te(p)
  BY DEF HeadIsWritable, Multiplexed
<1> HIDE DEF p
<1>4. validate_inbound_regular(p)
  BY <1>1, <1>3 DEF validate_inbound_regular
<1>5. CASE m.to = "h2"
  BY <1>1, <1>2, <1>4, <1>5 DEF from_h2, from_h2_request, from_h2_response, validate_h2_uri, p
<1>6. CASE m.to = "h3" /\ m.side = "request"
  <2>1. p.pseudo = <<":method", ":scheme", ":authority", ":path", "field">>
    BY <1>1, <1>6
  <2>2. Ordered(p)
    BY <2>1 DEF Ordered
  <2>3. ToSet(p.pseudo) \ {"field"} = {":method", ":scheme", ":authority", ":path"}
    BY <2>1 DEF ToSet
  <2>4. decode_request_head(p)
    BY <1>1, <1>2, <1>4, <1>6, <2>2, <2>3 DEF decode_request_head
  <2> QED
    BY <1>6, <2>4 DEF from_h3, p
<1>7. CASE m.to = "h3" /\ m.side # "request"
  <2>1. p.pseudo = <<":status", "field">>
    BY <1>1, <1>7
  <2>2. Ordered(p)
    BY <2>1 DEF Ordered
  <2>3. ToSet(p.pseudo) \ {"field"} = {":status"}
    BY <2>1 DEF ToSet
  <2> QED
    BY <1>4, <1>7, <2>2, <2>3 DEF from_h3, decode_response_head, p
<1> QED
  BY <1>5, <1>6, <1>7 DEF Multiplexed

-----------------------------------------------------------------------------
(* Relay: counting the bytes of a body.                                    *)

\* No frames carry nothing.
LEMMA CarriesNothing ==
    ASSUME NEW a, NEW b, Carries(<<>>, a, b)
    PROVE  a = b
BY DEF Carries

\* A frame taken from the front moves the start.
LEMMA CarriesTail ==
    ASSUME NEW S, NEW w \in Seq(S), w # <<>>, NEW a, NEW b \in Nat, Carries(w, a, b)
    PROVE  Carries(Tail(w), a + Size(w[1]), b)
<1>1. PICK at \in [1..(Len(w) + 1) -> 0..b] :
        /\ at[1] = a /\ at[Len(w) + 1] = b
        /\ \A i \in 1..Len(w) : at[i + 1] = at[i] + Size(w[i])
  BY DEF Carries
<1>2. Len(w) \in Nat /\ Len(w) >= 1 /\ Len(Tail(w)) = Len(w) - 1
      /\ \A i \in 1..(Len(w) - 1) : Tail(w)[i] = w[i + 1]
  BY HeadTailProperties
<1> DEFINE n == Len(w)
           t == Tail(w)
           left == [i \in 1..n |-> at[i + 1]]
<1>3. n \in Nat /\ n >= 1 /\ Len(t) = n - 1
  BY <1>2
<1>4. left \in [1..(Len(t) + 1) -> 0..b]
  BY <1>1, <1>3
<1>5. left[1] = a + Size(w[1]) /\ left[Len(t) + 1] = b
  <2>1. left[1] = at[2] /\ left[n] = at[n + 1]
    BY <1>3
  <2>2. at[1 + 1] = at[1] + Size(w[1])
    BY <1>1, <1>3
  <2> QED
    BY <1>1, <1>3, <2>1, <2>2
<1>6. \A i \in 1..Len(t) : left[i + 1] = left[i] + Size(t[i])
  <2> TAKE i \in 1..Len(t)
  <2>1. i + 1 \in 1..n /\ i \in 1..n /\ t[i] = w[i + 1]
    BY <1>2, <1>3
  <2>2. at[(i + 1) + 1] = at[i + 1] + Size(w[i + 1])
    BY <1>1, <2>1
  <2> QED
    BY <2>1, <2>2
<1> HIDE DEF left
<1> QED
  BY <1>4, <1>5, <1>6 DEF Carries

\* A frame put at the back moves the end.
LEMMA CarriesAppend ==
    ASSUME NEW S, NEW w \in Seq(S), NEW a, NEW b \in Nat, Carries(w, a, b),
           NEW f, NEW n \in Nat, Size(f) = n
    PROVE  Carries(Append(w, f), a, b + n)
<1>1. PICK at \in [1..(Len(w) + 1) -> 0..b] :
        /\ at[1] = a /\ at[Len(w) + 1] = b
        /\ \A i \in 1..Len(w) : at[i + 1] = at[i] + Size(w[i])
  BY DEF Carries
<1> DEFINE k == Len(w)
           v == Append(w, f)
           more == [i \in 1..(k + 2) |-> IF i = k + 2 THEN b + n ELSE at[i]]
<1>2. k \in Nat /\ Len(v) = k + 1 /\ v[k + 1] = f /\ \A i \in 1..k : v[i] = w[i]
  <2>1. w \in Seq(S \cup {f})
    OBVIOUS
  <2> QED
    BY <2>1, AppendProperties
<1> HIDE DEF v, k
<1>3. more \in [1..(Len(v) + 1) -> 0..(b + n)]
  BY <1>1, <1>2 DEF k
<1>4. more[1] = a /\ more[Len(v) + 1] = b + n
  BY <1>1, <1>2 DEF k
<1>5. \A i \in 1..Len(v) : more[i + 1] = more[i] + Size(v[i])
  <2> TAKE i \in 1..Len(v)
  <2>1. CASE i = k + 1
    BY <1>1, <1>2, <2>1 DEF k
  <2>2. CASE i \in 1..k
    <3>1. at[i + 1] = at[i] + Size(w[i])
      BY <1>1, <2>2 DEF k
    <3> QED
      BY <1>2, <2>2, <3>1
  <2> QED
    BY <1>2, <2>1, <2>2
<1> HIDE DEF more
<1> QED
  BY <1>3, <1>4, <1>5 DEF Carries, v

-----------------------------------------------------------------------------
(* Relay: what a Content-Length on the way to HTTP/2 or HTTP/3 announces.  *)

\* The length that goes out is the one the handler left in the head.
LEMMA TotalFacts ==
    ASSUME m \in Messages, Counted
    PROVE  /\ HandledHead.length # <<>> /\ Total = Head(HandledHead.length)
           /\ m.from = "edited" => Total = Len(m.data)
           /\ m.from # "edited" => m.head.length # <<>> /\ Total = Head(m.head.length)
<1>1. PreparedHead.length = HandledHead.length
  BY MultiplexedAgrees DEF Counted
<1>2. Total = Head(HandledHead.length) /\ HandledHead.length # <<>>
  BY <1>1 DEF Total, Counted
<1>3. CASE m.from = "edited"
  <2>1. HandledHead.length = << Len(m.data) >>
    BY <1>3, HandledFacts
  <2> QED
    BY <1>2, <1>3, <2>1
<1>4. CASE m.from # "edited"
  <2>1. HandledHead.length = m.head.length
    BY <1>4, HandledFacts
  <2> QED
    BY <1>2, <1>4, <2>1
<1> QED
  BY <1>3, <1>4

\* A body that is not HTTP/1 carries the length that goes out, and a collected one
\* is as long as its data.
LEMMA StreamTotal ==
    ASSUME m \in Messages, Counted, m.from # "h1"
    PROVE  /\ m.wire[Len(m.wire)] = End => Carries(m.wire, 0, Total)
           /\ m.from \in Collected => Total = Len(m.data)
<1>1. ~(m.side = "response" /\ (m.method = "HEAD" \/ m.head.status \in {"204", "205", "304"}))
  BY DEF Counted, Bodiless, response_body_is_forbidden, NoBody
<1>2. m.from \in Multiplexed \cup {"buffered", "edited"}
  BY MessageFacts DEF Counted, Multiplexed
<1>3. CASE m.from = "edited"
  <2>1. Total = Len(m.data)
    BY <1>3, TotalFacts
  <2>2. Carries(m.wire, 0, Len(m.data))
    BY <1>3, MessageAssumption DEF Collected
  <2> QED
    BY <2>1, <2>2
<1>4. CASE m.from \in Multiplexed \cup {"buffered"}
  <2>1. m.head.length # <<>> /\ Total = Head(m.head.length)
    BY <1>4, TotalFacts DEF Multiplexed
  <2>2. m.wire[Len(m.wire)] = End =>
          Carries(m.wire, 0, Head(m.head.length))
          /\ (m.from = "buffered" => Head(m.head.length) = Len(m.data))
    BY <1>1, <1>4, <2>1, MessageAssumption
  <2>3. m.from \in Collected => m.wire[Len(m.wire)] = End /\ m.from = "buffered"
    BY <1>4, MessageAssumption DEF Collected, Multiplexed
  <2> QED
    BY <2>1, <2>2, <2>3
<1> QED
  BY <1>2, <1>3, <1>4

\* A length that has arrived by HTTP/1 is the one its decoder counts down from.
LEMMA LengthTotal ==
    ASSUME m \in Messages, Counted, m.from = "h1", HeadIsValid
    PROVE  /\ FramingOf(m.head) = Framing("length", Total) /\ Total \in Nat
           /\ ExactLength = Total
<1>1. m.head.length # <<>> /\ Total = Head(m.head.length)
  BY TotalFacts
<1>2. validate_framing(m.head)
  BY MessageFacts DEF HeadIsValid, validate_request, validate_response, Multiplexed, Collected
<1>3. m.head.coding = <<>>
  BY <1>1, <1>2 DEF validate_framing
<1>4. Total \in Nat
  <2>1. m.head.length \in Seq(Int)
    BY MessageFacts DEF IsHead
  <2>2. 1 \in 1..Len(m.head.length)
    BY <1>1, <2>1
  <2>3. m.head.length[1] \in 0..SizeMax
    BY <1>2, <2>2 DEF validate_framing, ContentLengthIsBad
  <2> QED
    BY <1>1, <2>3, LimitAssumption
<1>5. FramingOf(m.head) = Framing("length", Total)
  <2>1. CASE m.side = "request"
    BY <1>1, <1>3, <2>1 DEF FramingOf, for_request
  <2>2. CASE m.side = "response"
    <3>1. ~NoBody(m.head.status)
      BY <2>2 DEF Counted, Bodiless, response_body_is_forbidden
    <3> QED
      BY <1>1, <1>3, <2>2, <3>1 DEF FramingOf, for_response
  <2> QED
    BY <2>1, <2>2, MessageFacts
<1>6. ExactLength = Total
  <2> DEFINE f == FramingOf(m.head)
  <2>1. f.kind = "length" /\ f.length = Total
    BY <1>5 DEF Framing
  <2> HIDE DEF f
  <2>2. ExactLength = IF f.kind = "length" \/ (f.kind = "none" /\ m.side = "request")
                      THEN f.length ELSE NoLength
    BY DEF ExactLength, f, Multiplexed, Collected
  <2> QED
    BY <2>1, <2>2
<1> QED
  BY <1>4, <1>5, <1>6

\* A stream that ends with its head has announced no bytes.
LEMMA EndsEmpty ==
    ASSUME m \in Messages, Counted, HeadIsValid, EndsWithHead
    PROVE  Total = 0
<1>1. ExactLength = 0
  BY DEF EndsWithHead, Counted, Bodiless
<1>2. CASE m.from = "h1"
  BY <1>1, <1>2, LengthTotal
<1>3. CASE m.from \in Multiplexed
  BY <1>1, <1>3 DEF ExactLength, NoLength, Collected, Multiplexed
<1>4. CASE m.from \in Collected
  <2>1. ExactLength = Len(m.data)
    BY <1>4 DEF ExactLength, Collected, Multiplexed
  <2>2. m.from # "h1"
    BY <1>4 DEF Collected
  <2> QED
    BY <1>1, <1>4, <2>1, <2>2, StreamTotal
<1> QED
  BY <1>2, <1>3, <1>4, MessageFacts DEF Multiplexed, Collected

\* Nothing that is decided about a message changes while it is relayed.
LEMMA SameMessage ==
    ASSUME m' = m
    PROVE  /\ (HeadIsValid' <=> HeadIsValid) /\ PreparedHead' = PreparedHead
           /\ (HeadIsWritable' <=> HeadIsWritable) /\ PreparedFraming' = PreparedFraming
           /\ (Bodiless' <=> Bodiless) /\ (Counted' <=> Counted) /\ Total' = Total
<1>1. HandledHead' = HandledHead
  BY DEF HandledHead, reconcile_edited_body_headers, encode_from_hook
<1>2. \A s : response_body_is_forbidden(s)' <=> response_body_is_forbidden(s)
  BY DEF NoBody, response_body_is_forbidden
<1>3. \A h : FramingOf(h)' = FramingOf(h)
  BY DEF FramingOf, for_request, for_response, NoBody
<1>4. ExactLength' = ExactLength /\ (MayHaveTrailers' <=> MayHaveTrailers)
  BY <1>3 DEF ExactLength, MayHaveTrailers
<1>5. prepare_request_framing' = prepare_request_framing
  BY <1>4 DEF prepare_request_framing
<1>6. \A s : prepare_response_framing(s)' = prepare_response_framing(s)
  BY <1>2, <1>4 DEF prepare_response_framing
<1>7. PreparedFraming' = PreparedFraming
  <2>1. prepare_response_framing(m.head.status)' = prepare_response_framing(m.head.status)
    BY <1>2, <1>4 DEF prepare_response_framing
  <2> QED
    BY <1>5, <2>1 DEF PreparedFraming
<1>8. \A h : ResponseHead(h)' = ResponseHead(h)
  <2> TAKE h
  <2>1. prepare_response_framing(h.status)' = prepare_response_framing(h.status)
    BY <1>6
  <2>2. response_body_is_forbidden(h.status)' <=> response_body_is_forbidden(h.status)
    BY <1>2
  <2>3. \A f : ConnectionFor(h, f)' = ConnectionFor(h, f)
    BY DEF ConnectionFor, Closes
  <2> QED
    BY <2>1, <2>2, <2>3 DEF ResponseHead
<1>9. ResponseHead(HandledHead)' = ResponseHead(HandledHead)
  BY <1>1, <1>8
<1>10. PreparedHead' = PreparedHead
  BY <1>1, <1>7, <1>9 DEF PreparedHead
<1>11. HeadIsWritable' <=> HeadIsWritable
  BY <1>10 DEF HeadIsWritable
<1>12. HeadIsValid' <=> HeadIsValid
  BY DEF HeadIsValid, from_h2, from_h3
<1>13. Bodiless' <=> Bodiless
  BY DEF Bodiless, response_body_is_forbidden, NoBody
<1>14. (Counted' <=> Counted) /\ Total' = Total
  BY <1>10, <1>13 DEF Counted, Total
<1> QED
  BY <1>7, <1>10, <1>11, <1>12, <1>13, <1>14

-----------------------------------------------------------------------------
(* Relay: the head that goes out stays the one that was prepared.          *)

\* Nothing has been written of a message that nobody has read.
LEMMA SentHeadInit ==
    RelayInit => Shapes /\ SentHead
BY DEF RelayInit, Shapes, SentHead, NoHead

\* The steps of the reader behind its head.
ReaderStep ==
    /\ UNCHANGED <<m, writer, out>> /\ DOMAIN reader' = DOMAIN reader
    /\ reader.state \notin {"head", "rejected"} /\ reader'.state \notin {"head", "rejected"}

\* A step of the reader, of the wire or of the clock leaves what was sent alone.
LEMMA ReaderSteps ==
    ASSUME Shapes,
           \/ ReadMore \/ Eof \/ Decode \/ PushError \/ ReadTimesOut \/ AbortReader \/ Cut
    PROVE  ReaderStep
<1>1. CASE ReadMore
  BY <1>1 DEF ReadMore, ReaderStep, Decoding
<1>2. CASE Eof \/ ReadTimesOut
  BY <1>2 DEF Eof, ReadTimesOut, ReaderStep, Decoding, Fail, Shapes
<1>3. CASE Decode
  <2>1. CASE DecodeUnchunked
    BY <2>1 DEF DecodeUnchunked, ReaderStep, Decoding, Shapes
  <2>2. CASE DecodeSize
    BY <2>2 DEF DecodeSize, ReaderStep, Decoding, Shapes, Fail
  <2>3. CASE DecodeChunk
    BY <2>3 DEF DecodeChunk, ReaderStep, Decoding, Shapes
  <2>4. CASE DecodeTerminator
    BY <2>4 DEF DecodeTerminator, ReaderStep, Decoding, Shapes, Fail
  <2>5. CASE DecodeTrailers
    BY <2>5 DEF DecodeTrailers, ReaderStep, Decoding, Shapes, Fail
  <2> QED
    BY <1>3, <2>1, <2>2, <2>3, <2>4, <2>5 DEF Decode
<1>4. CASE PushError \/ AbortReader \/ Cut
  BY <1>4 DEF PushError, AbortReader, Cut, ReaderStep, Shapes
<1> QED
  BY <1>1, <1>2, <1>3, <1>4

\* What was sent stays the head the encoder prepared: only SendHead writes it,
\* and only after the preparation that can refuse it.
LEMMA SentHeadStep ==
    ASSUME RelayInv, [RelayNext]_relayVars
    PROVE  m' = m /\ Shapes' /\ SentHead'
<1> USE DEF RelayInv
<1>1. CASE AcceptHead
  <2>1. m' = m /\ UNCHANGED <<writer, out>>
    BY <1>1 DEF AcceptHead
  <2>2. reader.state = "head" /\ DOMAIN reader' = DOMAIN reader
        /\ (reader'.state # "rejected" => HeadIsValid)
    BY <1>1 DEF AcceptHead, Shapes
  <2>3. writer.state = "head" /\ out.head = NoHead
    BY <2>2 DEF SentHead
  <2> QED
    BY <2>1, <2>2, <2>3, SameMessage DEF Shapes, SentHead
<1>2. CASE ReadMore \/ Eof \/ Decode \/ PushError \/ ReadTimesOut \/ AbortReader \/ Cut
  <2>1. ReaderStep
    BY <1>2, ReaderSteps
  <2> QED
    BY <2>1, SameMessage DEF ReaderStep, Shapes, SentHead
<1>3. CASE SendHead
  <2>1. m' = m /\ UNCHANGED reader /\ reader.state \notin {"head", "rejected"}
        /\ writer.state = "head" /\ HeadIsValid
    BY <1>3 DEF SendHead, SentHead
  <2>2. CASE ~HeadIsWritable
    <3>1. writer' = [writer EXCEPT !.state = "failed"] /\ out' = out
      BY <1>3, <2>2 DEF SendHead
    <3>2. out.head = NoHead
      BY <2>1 DEF SentHead
    <3> QED
      BY <2>1, <3>1, <3>2, SameMessage DEF Shapes, SentHead
  <2>3. CASE HeadIsWritable
    <3>1. PICK ended \in BOOLEAN :
            /\ out' = [out EXCEPT !.head = PreparedHead,
                                  !.end = IF ended THEN "ended" ELSE "open"]
            /\ writer' = [state |-> IF ended THEN "done" ELSE "body",
                          framing |-> IF m.to \in Multiplexed THEN Framing(m.to, 0)
                                      ELSE PreparedFraming,
                          left |-> PreparedFraming.length, complete |-> FALSE]
      <4> DEFINE ended == IF m.to \in Multiplexed THEN EndsWithHead
                          ELSE PreparedFraming.kind = "none"
      <4>1. ended \in BOOLEAN
        BY DEF EndsWithHead
      <4> QED
        BY <1>3, <2>3, <4>1 DEF SendHead
    <3>2. /\ DOMAIN out' = DOMAIN out /\ out'.head = PreparedHead
          /\ DOMAIN writer' = {"state", "framing", "left", "complete"}
          /\ writer'.state \in {"done", "body"}
          /\ writer'.framing = IF m.to \in Multiplexed THEN Framing(m.to, 0)
                               ELSE PreparedFraming
      BY <3>1 DEF Shapes
    <3>3. m.to = "h1" => m.to \notin Multiplexed
      BY DEF Multiplexed
    <3> QED
      BY <2>1, <2>3, <3>2, <3>3, SameMessage DEF Shapes, SentHead
  <2> QED
    BY <2>2, <2>3
<1>4. CASE WriteFrame \/ WriteFails \/ Finish \/ ReceiverFails
  <2>1. /\ m' = m /\ UNCHANGED reader /\ writer.state = "body"
        /\ DOMAIN writer' = DOMAIN writer /\ DOMAIN out' = DOMAIN out
        /\ writer'.framing = writer.framing /\ writer'.state # "head" /\ out'.head = out.head
    <3>1. CASE WriteFrame
      BY <3>1 DEF WriteFrame, Shapes
    <3>2. CASE WriteFails
      BY <3>2 DEF WriteFails, Failed, Shapes
    <3>3. CASE Finish
      BY <3>3 DEF Finish, Failed, Shapes
    <3>4. CASE ReceiverFails
      BY <3>4 DEF ReceiverFails, Failed, Shapes
    <3> QED
      BY <1>4, <3>1, <3>2, <3>3, <3>4
  <2> QED
    BY <2>1, SameMessage DEF Shapes, SentHead
<1>5. CASE UNCHANGED relayVars
  BY <1>5, SameMessage DEF relayVars, Shapes, SentHead
<1> QED
  BY <1>1, <1>2, <1>3, <1>4, <1>5 DEF RelayNext, Deliver, Environment

-----------------------------------------------------------------------------
(* Relay: the writer.                                                      *)

\* A count is a natural number.
LEMMA CarriesNat ==
    ASSUME NEW w, Len(w) \in Nat, NEW a, NEW b, Carries(w, a, b)
    PROVE  b \in Nat /\ a \in 0..b
<1>1. PICK at \in [1..(Len(w) + 1) -> 0..b] : at[1] = a /\ at[Len(w) + 1] = b
  BY DEF Carries
<1>2. 1 \in 1..(Len(w) + 1) /\ Len(w) + 1 \in 1..(Len(w) + 1)
  OBVIOUS
<1>3. a \in 0..b /\ b \in 0..b
  BY <1>1, <1>2
<1> QED
  BY <1>3

\* The bytes of every message are bytes.
LEMMA WireBytes ==
    ASSUME m \in Messages
    PROVE  /\ m.from = "h1" => m.wire \in Seq(Bytes)
           /\ m.from # "h1" =>
                IsStream(m.wire) /\ \A i \in 1..(Len(m.wire) - 1) : m.wire[i].bytes \in Seq(Bytes)
<1>1. CASE m.from = "h1"
  <2>1. m.wire \in Seq(ToSet(m.wire))
    BY <1>1, MessageAssumption
  <2>2. ToSet(m.wire) \subseteq Bytes
    BY <1>1 DEF Bytes, BytesOf
  <2> QED
    BY <1>1, <2>1, <2>2
<1>2. CASE m.from # "h1"
  <2>1. IsStream(m.wire)
    BY <1>2, MessageAssumption
  <2>2. ASSUME NEW i \in 1..(Len(m.wire) - 1)
        PROVE  m.wire[i].bytes \in Seq(Bytes)
    <3>1. m.wire[i].bytes \in Seq(ToSet(m.wire[i].bytes))
      BY <2>1, <2>2 DEF IsStream, IsFrame
    <3>2. m.wire[i] \in ToSet(m.wire)
      BY <2>1, <2>2 DEF IsStream, ToSet
    <3>3. ToSet(m.wire[i].bytes) \subseteq UNION {ToSet(f.bytes) : f \in ToSet(m.wire)}
      BY <3>2
    <3>4. UNION {ToSet(f.bytes) : f \in ToSet(m.wire)} \subseteq Bytes
      BY <1>2 DEF Bytes, BytesOf
    <3> QED
      BY <3>1, <3>3, <3>4
  <2> QED
    BY <1>2, <2>1, <2>2
<1> QED
  BY <1>1, <1>2

\* What is left of a stream is a stream.
LEMMA StreamTail ==
    ASSUME NEW w, IsStream(w), w[1].kind \in {"data", "trailers"}
    PROVE  /\ Len(w) >= 2 /\ IsStream(Tail(w)) /\ Tail(w)[Len(Tail(w))] = w[Len(w)]
           /\ Len(Tail(w)) = Len(w) - 1 /\ \A i \in 1..(Len(w) - 1) : Tail(w)[i] = w[i + 1]
           /\ w[1].kind = "trailers" => Len(w) = 2 /\ w[2] = End
           /\ IsFrame(w[1], w[1].kind)
<1> DEFINE t == Tail(w)
           n == Len(w)
<1>1. w \in Seq(ToSet(w)) /\ w # <<>> /\ n \in Nat /\ n >= 1
  BY DEF IsStream
<1>2. n # 1
  <2> SUFFICES ASSUME n = 1 PROVE FALSE
    OBVIOUS
  <2>1. w[1] \in {End, Error}
    BY DEF IsStream
  <2> QED
    BY <2>1 DEF End, Error
<1>3. t \in Seq(ToSet(w)) /\ Len(t) = n - 1 /\ \A i \in 1..(n - 1) : t[i] = w[i + 1]
  BY <1>1, HeadTailProperties
<1>4. /\ \A i \in 1..(n - 1) :
            \/ IsFrame(w[i], "data")
            \/ IsFrame(w[i], "trailers") /\ i = n - 1 /\ w[i + 1] = End
      /\ w[n] \in {End, Error}
  BY DEF IsStream
<1> HIDE DEF t, n
<1>5. t \in Seq(ToSet(t)) /\ t # <<>>
  <2>1. t # <<>> /\ \A i \in 1..Len(t) : t[i] \in ToSet(t)
    BY <1>1, <1>2, <1>3 DEF ToSet
  <2> QED
    BY <1>3, <2>1
<1>6. t[Len(t)] = w[n]
  BY <1>1, <1>2, <1>3
<1>7. ASSUME NEW i \in 1..(Len(t) - 1)
      PROVE  \/ IsFrame(t[i], "data")
             \/ IsFrame(t[i], "trailers") /\ i = Len(t) - 1 /\ t[i + 1] = End
  <2>1. i + 1 \in 1..(n - 1) /\ i \in 1..(n - 1) /\ t[i] = w[i + 1] /\ t[i + 1] = w[(i + 1) + 1]
    BY <1>1, <1>2, <1>3, <1>7
  <2>2. \/ IsFrame(w[i + 1], "data")
        \/ IsFrame(w[i + 1], "trailers") /\ i + 1 = n - 1 /\ w[(i + 1) + 1] = End
    BY <1>4, <2>1
  <2> QED
    BY <1>1, <1>3, <2>1, <2>2
<1>8. IsStream(t)
  BY <1>4, <1>5, <1>6, <1>7 DEF IsStream
<1>9. \/ IsFrame(w[1], "data")
      \/ IsFrame(w[1], "trailers") /\ 1 = n - 1 /\ w[1 + 1] = End
  BY <1>1, <1>2, <1>4
<1>10. \A k : IsFrame(w[1], k) => w[1].kind = k
  BY DEF IsFrame
<1> QED
  BY <1>1, <1>2, <1>3, <1>6, <1>8, <1>9, <1>10 DEF t, n

\* The encoder for an HTTP/2 or HTTP/3 side writes the bytes as they are.
LEMMA WriterFraming ==
    ASSUME SentHead, m.to \in Multiplexed, writer.state = "body"
    PROVE  /\ writer.framing.kind \notin {"chunked", "length"}
           /\ NextFrame.kind = "data" => Encoded(NextFrame) = NextFrame.bytes
<1>1. writer.framing = Framing(m.to, 0)
  BY DEF SentHead
<1>2. writer.framing.kind \notin {"chunked", "length"}
  BY <1>1 DEF Framing, Multiplexed
<1> QED
  BY <1>2 DEF Encoded

\* What a writer of counted bytes does.
LEMMA CountedWrites ==
    ASSUME RelayInv, Counted
    PROVE  /\ WriteFrame /\ NextFrame.kind = "data" =>
                /\ ~writer.complete /\ ~writer'.complete
                /\ out'.body = out.body \o NextFrame.bytes
                /\ out'.end = out.end /\ writer'.state = "body"
           /\ WriteFrame /\ NextFrame.kind # "data" =>
                /\ NextFrame.kind = "trailers" /\ ~writer.complete /\ writer'.complete
                /\ out'.body = out.body /\ out'.end = "ended"
           /\ WriteFails \/ ReceiverFails =>
                /\ writer'.state = "failed" /\ out'.body = out.body
                /\ out'.end = IF out.end = "open" THEN "cut" ELSE out.end
           /\ Finish => /\ NextFrame.kind = "end" /\ writer'.state = "done"
                        /\ out'.body = out.body /\ out'.end = "ended"
<1> USE DEF RelayInv
<1>1. m.to \in Multiplexed
  BY DEF Counted
<1>2. ASSUME WriteFrame, NextFrame.kind = "data"
      PROVE  /\ ~writer.complete /\ ~writer'.complete
             /\ out'.body = out.body \o NextFrame.bytes
             /\ out'.end = out.end /\ writer'.state = "body"
  <2>1. Encoded(NextFrame) = NextFrame.bytes
    BY <1>1, <1>2, WriterFraming DEF WriteFrame
  <2>2. out' = [out EXCEPT !.body = out.body \o NextFrame.bytes]
    BY <1>2, <2>1 DEF WriteFrame
  <2>3. /\ ~writer.complete /\ writer'.complete = (writer.complete \/ FALSE)
        /\ writer'.state = writer.state /\ writer.state = "body"
    BY <1>2 DEF WriteFrame, CannotCarry, Shapes
  <2> QED
    BY <2>2, <2>3 DEF Shapes
<1>3. ASSUME WriteFrame, NextFrame.kind # "data"
      PROVE  /\ NextFrame.kind = "trailers" /\ ~writer.complete /\ writer'.complete
             /\ out'.body = out.body /\ out'.end = "ended"
  <2>1. NextFrame.kind = "trailers" /\ ~writer.complete
    BY <1>3 DEF WriteFrame, CannotCarry
  <2>2. out' = [out EXCEPT !.trailers = NextFrame.bytes, !.end = "ended"]
    BY <1>1, <1>3, <2>1 DEF WriteFrame
  <2>3. writer'.complete
    BY <1>3, <2>1 DEF WriteFrame, Shapes
  <2> QED
    BY <2>1, <2>2, <2>3 DEF Shapes
<1>4. ASSUME WriteFails \/ ReceiverFails
      PROVE  /\ writer'.state = "failed" /\ out'.body = out.body
             /\ out'.end = IF out.end = "open" THEN "cut" ELSE out.end
  BY <1>4 DEF WriteFails, ReceiverFails, Failed, Shapes
<1>5. ASSUME Finish
      PROVE  /\ NextFrame.kind = "end" /\ writer'.state = "done"
             /\ out'.body = out.body /\ out'.end = "ended"
  <2>1. writer.framing.kind \notin {"chunked", "length"}
    BY <1>1, <1>5, WriterFraming DEF Finish
  <2>2. /\ writer' = [writer EXCEPT !.state = "done", !.complete = TRUE]
        /\ out' = [out EXCEPT !.end = "ended", !.body = out.body]
    BY <1>5, <2>1 DEF Finish
  <2> QED
    BY <1>5, <2>2 DEF Shapes, Finish
<1> QED
  BY <1>2, <1>3, <1>4, <1>5

-----------------------------------------------------------------------------
(* Relay: counting a stream down.                                          *)

\* The head of a counted body goes out: the stream ends with it if nothing is
\* announced, or it stays open.
LEMMA CountedHead ==
    ASSUME RelayInv, Counted, SendHead
    PROVE  /\ UNCHANGED <<m, wire, buf, reader, channel, faults>>
           /\ Open /\ Len(out.body) = 0 /\ out'.body = out.body /\ writer.state = "head"
           /\ \/ writer'.state = "failed" /\ out'.end = "open"
              \/ writer'.state = "done" /\ out'.end = "ended" /\ Total = 0
              \/ writer'.state = "body" /\ out'.end = "open" /\ ~writer'.complete
<1> USE DEF RelayInv
<1>1. m.to \in Multiplexed
  BY DEF Counted
<1>2. /\ UNCHANGED <<m, wire, buf, reader, channel, faults>> /\ writer.state = "head"
      /\ HeadIsValid
  BY DEF SendHead, SentHead
<1>3. Open /\ Len(out.body) = 0
  BY <1>2 DEF SentHead, Open
<1>4. CASE ~HeadIsWritable
  <2>1. writer' = [writer EXCEPT !.state = "failed"] /\ out' = out
    BY <1>4 DEF SendHead
  <2> QED
    BY <1>2, <1>3, <2>1 DEF Shapes, Open
<1>5. CASE HeadIsWritable
  <2>1. /\ out' = [out EXCEPT !.head = PreparedHead,
                              !.end = IF EndsWithHead THEN "ended" ELSE "open"]
        /\ writer'.state = IF EndsWithHead THEN "done" ELSE "body"
        /\ ~writer'.complete
    BY <1>1, <1>5 DEF SendHead
  <2>2. EndsWithHead => Total = 0
    BY <1>2, EndsEmpty
  <2>3. out'.body = out.body /\ out'.end = IF EndsWithHead THEN "ended" ELSE "open"
    BY <2>1 DEF Shapes
  <2> QED
    BY <1>2, <1>3, <2>1, <2>2, <2>3
<1> QED
  BY <1>4, <1>5

\* A body that has been settled stays so.
LEMMA BodySettledStep ==
    ASSUME RelayInv, Counted, [RelayNext]_relayVars, BodySettled
    PROVE  BodySettled'
<1> USE DEF RelayInv
<1>1. m' = m /\ Total' = Total
  BY SentHeadStep, SameMessage
<1>2. CASE UNCHANGED <<writer, out>>
  BY <1>1, <1>2 DEF BodySettled
<1>3. CASE SendHead
  BY <1>3, CountedHead DEF BodySettled, Open
<1>4. CASE WriteFrame
  <2>1. writer.state = "body" /\ ~writer.complete
    BY <1>4, CountedWrites DEF WriteFrame
  <2> QED
    BY <2>1 DEF BodySettled
<1>5. CASE WriteFails \/ ReceiverFails
  <2>1. writer.state = "body"
    BY <1>5 DEF WriteFails, ReceiverFails
  <2>2. out.end = "ended" /\ Len(out.body) = Total
    BY <2>1 DEF BodySettled
  <2> QED
    BY <1>1, <1>5, <2>2, CountedWrites DEF BodySettled
<1>6. CASE Finish
  <2>1. out.end = "ended" /\ Len(out.body) = Total
    BY <1>6 DEF BodySettled, Finish
  <2> QED
    BY <1>1, <1>6, <2>1, CountedWrites DEF BodySettled
<1>7. CASE AcceptHead \/ ReadMore \/ Eof \/ Decode \/ PushError \/ ReadTimesOut \/ AbortReader \/ Cut
  BY <1>2, <1>7, ReaderSteps DEF AcceptHead, ReaderStep
<1>8. CASE UNCHANGED relayVars
  BY <1>2, <1>8 DEF relayVars
<1> QED
  BY <1>3, <1>4, <1>5, <1>6, <1>7, <1>8 DEF RelayNext, Deliver, Environment

\* A message arrives as the stream the assumption describes.
LEMMA StreamInit ==
    ASSUME RelayInit
    PROVE  StreamInv
<1> SUFFICES ASSUME m.from # "h1", Counted
             PROVE  /\ Open /\ IsStream(wire) /\ out.body \in Seq(Bytes)
                    /\ \A i \in 1..(Len(wire) - 1) : wire[i].bytes \in Seq(Bytes)
                    /\ wire[Len(wire)] = End => Carries(wire, Len(out.body), Total)
  BY DEF StreamInv
<1>1. m \in Messages /\ wire = m.wire /\ out.body = <<>> /\ Open
  BY DEF RelayInit, Open
<1> QED
  BY <1>1, WireBytes, StreamTotal

\* Every step leaves what is still to come a stream, or nothing.
LEMMA StreamStep ==
    ASSUME RelayInv, [RelayNext]_relayVars
    PROVE  StreamInv'
<1> USE DEF RelayInv
<1>1. m' = m /\ Total' = Total /\ (Counted' <=> Counted)
  BY SentHeadStep, SameMessage
<1>2. SUFFICES ASSUME m.from # "h1", Counted, ~BodySettled
               PROVE  \/ BodySettled'
                      \/ /\ Open' /\ IsStream(wire') /\ out'.body \in Seq(Bytes)
                         /\ \A i \in 1..(Len(wire') - 1) : wire'[i].bytes \in Seq(Bytes)
                         /\ wire'[Len(wire')] = End => Carries(wire', Len(out'.body), Total)
  BY <1>1, BodySettledStep DEF StreamInv
<1>3. /\ Open /\ IsStream(wire) /\ out.body \in Seq(Bytes)
      /\ \A i \in 1..(Len(wire) - 1) : wire[i].bytes \in Seq(Bytes)
      /\ wire[Len(wire)] = End => Carries(wire, Len(out.body), Total)
  BY <1>2 DEF StreamInv
<1>4. NextFrame = wire[1]
  BY <1>2, <1>3 DEF NextFrame, IsStream
<1>5. CASE UNCHANGED <<wire, writer, out>>
  BY <1>3, <1>5 DEF Open
<1>6. CASE SendHead
  BY <1>1, <1>2, <1>3, <1>6, CountedHead DEF BodySettled, Open
<1>7. CASE WriteFrame
  <2>1. wire' = Tail(wire)
    BY <1>2, <1>7 DEF WriteFrame, Taken
  <2>2. wire[1].kind \in {"data", "trailers"}
    BY <1>4, <1>7 DEF WriteFrame
  <2>3. /\ Len(wire) >= 2 /\ IsStream(wire') /\ wire'[Len(wire')] = wire[Len(wire)]
        /\ Len(wire') = Len(wire) - 1 /\ \A i \in 1..(Len(wire) - 1) : wire'[i] = wire[i + 1]
        /\ wire[1].kind = "trailers" => Len(wire) = 2 /\ wire[2] = End
        /\ Len(wire) \in Nat /\ wire \in Seq(ToSet(wire)) /\ wire # <<>>
    BY <1>3, <2>1, <2>2, StreamTail DEF IsStream
  <2>4. wire[Len(wire)] = End =>
          Carries(wire', Len(out.body) + Size(wire[1]), Total) /\ Total \in Nat
    BY <1>3, <2>1, <2>3, CarriesNat, CarriesTail
  <2>5. CASE wire[1].kind = "data"
    <3>1. wire[1].bytes \in Seq(Bytes) /\ Size(wire[1]) = Len(wire[1].bytes)
      BY <1>3, <2>3, <2>5 DEF Size
    <3>2. /\ ~writer'.complete /\ out'.body = out.body \o wire[1].bytes
          /\ out'.end = out.end /\ writer'.state = "body"
      BY <1>2, <1>4, <1>7, <2>5, CountedWrites
    <3>3. out'.body \in Seq(Bytes) /\ Len(out'.body) = Len(out.body) + Len(wire[1].bytes)
      BY <1>3, <3>1, <3>2, ConcatProperties
    <3>4. Open'
      BY <1>3, <3>2 DEF Open
    <3>5. \A i \in 1..(Len(wire') - 1) : wire'[i].bytes \in Seq(Bytes)
      <4> TAKE i \in 1..(Len(wire') - 1)
      <4>1. i \in 1..(Len(wire) - 1) /\ i + 1 \in 1..(Len(wire) - 1)
        BY <2>3
      <4> QED
        BY <1>3, <2>3, <4>1
    <3> QED
      BY <2>3, <2>4, <3>1, <3>3, <3>4, <3>5
  <2>6. CASE wire[1].kind = "trailers"
    <3>1. writer'.complete /\ out'.body = out.body /\ out'.end = "ended"
      BY <1>2, <1>4, <1>7, <2>6, CountedWrites
    <3>2. wire[Len(wire)] = End /\ Len(wire') = 1 /\ wire'[1] = End
      BY <2>3, <2>6
    <3>3. Carries(wire', Len(out.body), Total) /\ Total \in Nat
      <4>1. Size(wire[1]) = 0 /\ Len(out.body) \in Nat
        BY <1>3, <2>6 DEF Size
      <4>2. Len(out.body) + Size(wire[1]) = Len(out.body)
        BY <4>1
      <4> QED
        BY <2>4, <3>2, <4>2
    <3>4. Len(out.body) = Total
      <4>1. PICK at \in [1..(Len(wire') + 1) -> 0..Total] :
              /\ at[1] = Len(out.body) /\ at[Len(wire') + 1] = Total
              /\ \A i \in 1..Len(wire') : at[i + 1] = at[i] + Size(wire'[i])
        BY <3>3 DEF Carries
      <4>2. at[1 + 1] = at[1] + Size(wire'[1]) /\ at[1 + 1] = Total
        BY <3>2, <4>1
      <4>3. Size(wire'[1]) = 0
        BY <3>2 DEF Size, End
      <4>4. Len(out.body) \in Nat
        BY <1>3
      <4> QED
        BY <3>3, <4>1, <4>2, <4>3, <4>4
    <3> QED
      BY <1>1, <3>1, <3>4 DEF BodySettled
  <2> QED
    BY <2>2, <2>5, <2>6
<1>8. CASE WriteFails \/ ReceiverFails
  BY <1>1, <1>2, <1>3, <1>8, CountedWrites DEF BodySettled, Open
<1>9. CASE Finish
  <2>1. wire[1].kind = "end" /\ writer'.state = "done" /\ out'.body = out.body /\ out'.end = "ended"
    BY <1>2, <1>4, <1>9, CountedWrites
  <2>2. Len(wire) = 1 /\ wire[1] = End
    <3>1. Len(wire) \in Nat /\ Len(wire) >= 1
      BY <1>3 DEF IsStream
    <3>2. Len(wire) = 1
      <4> DEFINE n == Len(wire)
      <4> SUFFICES ASSUME n # 1 PROVE FALSE
        OBVIOUS
      <4>1. n \in Nat /\ n >= 1
        BY <3>1
      <4> HIDE DEF n
      <4>2. 1 \in 1..(n - 1)
        BY <4>1
      <4>3. IsFrame(wire[1], "data") \/ IsFrame(wire[1], "trailers")
        BY <1>3, <4>2 DEF IsStream, n
      <4>4. \A k : IsFrame(wire[1], k) => wire[1].kind = k
        BY DEF IsFrame
      <4> QED
        BY <2>1, <4>3, <4>4
    <3>3. wire[1] \in {End, Error}
      BY <1>3, <3>2 DEF IsStream
    <3> QED
      BY <2>1, <3>2, <3>3 DEF Error
  <2>3. Len(out.body) = Total
    <3>1. Carries(wire, Len(out.body), Total) /\ Total \in Nat
      BY <1>3, <2>2, CarriesNat
    <3>2. PICK at \in [1..(Len(wire) + 1) -> 0..Total] :
            /\ at[1] = Len(out.body) /\ at[Len(wire) + 1] = Total
            /\ \A i \in 1..Len(wire) : at[i + 1] = at[i] + Size(wire[i])
      BY <3>1 DEF Carries
    <3>3. at[1 + 1] = at[1] + Size(wire[1]) /\ at[1 + 1] = Total
      BY <2>2, <3>2
    <3>4. Size(wire[1]) = 0
      BY <2>2 DEF Size, End
    <3>5. Len(out.body) \in Nat
      BY <1>3
    <3> QED
      BY <3>1, <3>2, <3>3, <3>4, <3>5
  <2> QED
    BY <1>1, <2>1, <2>3 DEF BodySettled
<1>10. CASE Cut
  <2>1. wire' = <<Error>> /\ UNCHANGED <<writer, out>>
    BY <1>2, <1>10 DEF Cut
  <2>2. IsStream(wire') /\ wire'[Len(wire')] # End /\ Len(wire') = 1
    <3>1. Len(wire') = 1 /\ wire'[1] = Error /\ wire' \in Seq({Error}) /\ ToSet(wire') = {Error}
      BY <2>1 DEF ToSet
    <3> QED
      <4>1. wire' \in Seq(ToSet(wire')) /\ wire' # <<>>
        BY <3>1
      <4>2. Error # End
        BY DEF Error, End
      <4> QED
        BY <3>1, <4>1, <4>2 DEF IsStream
  <2> QED
    BY <1>3, <2>1, <2>2 DEF Open
<1>11. CASE AcceptHead \/ PushError \/ AbortReader
  BY <1>5, <1>11 DEF AcceptHead, PushError, AbortReader
<1>12. CASE ReadMore \/ Eof \/ Decode \/ ReadTimesOut
  BY <1>2, <1>12 DEF ReadMore, Eof, Decode, ReadTimesOut, Decoding, DecodeUnchunked,
                     DecodeSize, DecodeChunk, DecodeTerminator, DecodeTrailers
<1>13. CASE UNCHANGED relayVars
  BY <1>5, <1>13 DEF relayVars
<1> QED
  BY <1>6, <1>7, <1>8, <1>9, <1>10, <1>11, <1>12, <1>13 DEF RelayNext, Deliver, Environment

-----------------------------------------------------------------------------
(* Relay: counting a Content-Length down.                                  *)

\* Before the first step all of a counted body is still to come.
LEMMA LengthInit ==
    ASSUME RelayInit
    PROVE  LengthInv
<1> SUFFICES ASSUME m.from = "h1", Counted
             PROVE  LengthReader /\ Pending
  BY DEF LengthInv
<1>1. /\ m \in Messages /\ wire = m.wire /\ buf = <<>> /\ reader.state = "head" /\ channel = <<>>
      /\ out.body = <<>> /\ Open
  BY DEF RelayInit, Open
<1>2. wire \in Seq(Bytes) /\ buf \in Seq(Bytes) /\ out.body \in Seq(Bytes)
  BY <1>1, WireBytes
<1>3. LengthReader
  BY <1>1, <1>2 DEF LengthReader
<1>4. channel \in Seq(ToSet(channel)) /\ Len(channel) = 0
  BY <1>1
<1> QED
  BY <1>1, <1>2, <1>3, <1>4 DEF Pending

\* The decoder of counted bytes takes at most what is left.
LEMMA CountedDecodes ==
    ASSUME LengthReader, Decoding, Decode, Shapes, m.from = "h1"
    PROVE  \E n \in Nat :
             /\ n <= Len(buf) /\ n <= reader.left
             /\ Push(Data(SubSeq(buf, 1, n))) /\ buf' = SubSeq(buf, n + 1, Len(buf))
             /\ reader'.left = reader.left - n
             /\ reader'.state = IF reader.left - n = 0 THEN "done" ELSE "body"
             /\ reader'.framing = reader.framing /\ reader'.chunk = reader.chunk
             /\ UNCHANGED <<m, wire, writer, out, faults>>
<1>1. /\ reader.framing.kind = "length" /\ reader.chunk = "complete" /\ reader.left \in Nat
      /\ reader.state = "body"
  BY DEF LengthReader, Decoding, Framing
<1>2. DecodeUnchunked
  BY <1>1 DEF Decode, DecodeSize, DecodeChunk, DecodeTerminator, DecodeTrailers
<1> DEFINE n == IF Len(buf) < reader.left THEN Len(buf) ELSE reader.left
<1>3. /\ Push(Data(SubSeq(buf, 1, n))) /\ buf' = SubSeq(buf, n + 1, Len(buf))
      /\ reader' = [reader EXCEPT !.left = reader.left - n,
                       !.state = IF reader.left - n = 0 THEN "done" ELSE reader.state]
      /\ UNCHANGED <<m, wire, writer, out, faults>>
  BY <1>1, <1>2 DEF DecodeUnchunked
<1>4. Len(buf) \in Nat
  BY DEF LengthReader
<1>5. n \in Nat /\ n <= Len(buf) /\ n <= reader.left
  BY <1>1, <1>4
<1> HIDE DEF n
<1>6. /\ reader'.left = reader.left - n
      /\ reader'.state = IF reader.left - n = 0 THEN "done" ELSE "body"
      /\ reader'.framing = reader.framing /\ reader'.chunk = reader.chunk
  BY <1>1, <1>3 DEF Shapes
<1> QED
  BY <1>3, <1>5, <1>6

\* The decoder keeps to what it has been given.
LEMMA LengthReaderStep ==
    ASSUME RelayInv, [RelayNext]_relayVars, m.from = "h1", Counted
    PROVE  LengthReader'
<1> USE DEF RelayInv
<1>1. m' = m /\ Total' = Total
  BY SentHeadStep, SameMessage
<1>2. LengthReader
  BY DEF LengthInv
<1>3. CASE UNCHANGED <<wire, buf, reader, channel>>
  BY <1>1, <1>2, <1>3 DEF LengthReader
<1>4. CASE AcceptHead
  <2>1. UNCHANGED <<wire, buf, channel>>
    BY <1>4 DEF AcceptHead
  <2>2. CASE ~HeadIsValid
    <3>1. reader'.state = "rejected"
      BY <1>4, <2>2 DEF AcceptHead, Shapes
    <3> QED
      BY <1>2, <2>1, <3>1 DEF LengthReader
  <2>3. CASE HeadIsValid
    <3>1. FramingOf(m.head) = Framing("length", Total) /\ Total \in Nat
      BY <2>3, LengthTotal
    <3> DEFINE f == FramingOf(m.head)
    <3>2. f.kind = "length" /\ f.length = Total
      BY <3>1 DEF Framing
    <3>3. reader' = [reader EXCEPT
                       !.state = IF f.kind = "none" \/ f = Framing("length", 0)
                                 THEN "done" ELSE "body",
                       !.framing = f, !.left = f.length,
                       !.chunk = IF f.kind = "chunked" THEN "size" ELSE "complete"]
      BY <1>4, <2>3 DEF AcceptHead
    <3> HIDE DEF f
    <3>4. /\ reader'.framing = f /\ reader'.left = Total /\ reader'.chunk = "complete"
          /\ reader'.state = IF f = Framing("length", 0) THEN "done" ELSE "body"
      BY <3>2, <3>3 DEF Shapes
    <3>5. f = Framing("length", 0) => Total = 0
      BY <3>2 DEF Framing
    <3> QED
      BY <1>1, <1>2, <2>1, <3>1, <3>4, <3>5 DEF LengthReader, f
  <2> QED
    BY <2>2, <2>3
<1>5. CASE ReadMore
  <2>1. PICK n \in 1..Len(wire) : /\ buf' = buf \o SubSeq(wire, 1, n)
                                  /\ wire' = SubSeq(wire, n + 1, Len(wire))
    BY <1>5 DEF ReadMore
  <2>2. wire \in Seq(Bytes) /\ buf \in Seq(Bytes) /\ Len(wire) \in Nat
    BY <1>2 DEF LengthReader
  <2>3. SubSeq(wire, 1, n) \in Seq(Bytes) /\ SubSeq(wire, n + 1, Len(wire)) \in Seq(Bytes)
    BY <2>2, SubSeqProperties
  <2>4. buf' \in Seq(Bytes) /\ wire' \in Seq(Bytes)
    BY <2>1, <2>2, <2>3, ConcatProperties
  <2> QED
    BY <1>1, <1>2, <1>5, <2>4 DEF ReadMore, LengthReader
<1>6. CASE Eof \/ ReadTimesOut
  <2>1. /\ UNCHANGED <<wire, buf, channel>> /\ reader'.state = "failing"
        /\ reader.state = "body"
        /\ reader'.framing = reader.framing /\ reader'.left = reader.left
        /\ reader'.chunk = reader.chunk
    <3>1. reader.state = "body"
      BY <1>6 DEF Eof, ReadTimesOut, Decoding
    <3>2. reader.framing.kind # "eof"
      BY <1>2, <3>1 DEF LengthReader, Framing
    <3> QED
      BY <1>6, <3>1, <3>2 DEF Eof, ReadTimesOut, Fail, Shapes
  <2> QED
    BY <1>1, <1>2, <2>1 DEF LengthReader
<1>7. CASE Decode
  <2>1. Decoding
    BY <1>7 DEF Decode, DecodeUnchunked, DecodeSize, DecodeChunk, DecodeTerminator, DecodeTrailers
  <2>2. PICK n \in Nat :
             /\ n <= Len(buf) /\ n <= reader.left
             /\ buf' = SubSeq(buf, n + 1, Len(buf))
             /\ reader'.left = reader.left - n
             /\ reader'.state = IF reader.left - n = 0 THEN "done" ELSE "body"
             /\ reader'.framing = reader.framing /\ reader'.chunk = reader.chunk
             /\ UNCHANGED wire
    BY <1>2, <1>7, <2>1, CountedDecodes
  <2>3. reader.state = "body" /\ reader.left \in Nat /\ buf \in Seq(Bytes) /\ reader.left <= Total
    BY <1>2, <2>1 DEF LengthReader, Decoding
  <2>4. buf' \in Seq(Bytes)
    BY <2>2, <2>3, SubSeqProperties
  <2>5. reader'.left \in Nat /\ reader'.left <= reader.left
    BY <2>2, <2>3
  <2> QED
    BY <1>1, <1>2, <2>2, <2>3, <2>4, <2>5 DEF LengthReader
<1>8. CASE PushError \/ AbortReader
  <2>1. /\ UNCHANGED <<wire, buf>> /\ reader.state \in {"body", "failing"}
        /\ reader'.state \in {"failed", "aborted"}
        /\ reader'.framing = reader.framing /\ reader'.left = reader.left
        /\ reader'.chunk = reader.chunk
    BY <1>8 DEF PushError, AbortReader, Shapes
  <2> QED
    BY <1>1, <1>2, <2>1 DEF LengthReader
<1>9. CASE Cut
  <2>1. wire' = <<>> /\ UNCHANGED <<buf, reader, channel>>
    BY <1>9 DEF Cut
  <2> QED
    BY <1>1, <1>2, <2>1 DEF LengthReader
<1>10. CASE WriteFrame \/ WriteFails \/ Finish
  <2>1. UNCHANGED <<wire, buf, reader>> /\ reader.state \notin {"head"}
    <3>1. writer.state = "body" /\ UNCHANGED <<wire, buf, reader>>
      BY <1>10 DEF WriteFrame, WriteFails, Finish, Taken
    <3> QED
      BY <3>1 DEF SentHead
  <2> QED
    BY <1>1, <1>2, <2>1 DEF LengthReader
<1>11. CASE SendHead \/ ReceiverFails \/ UNCHANGED relayVars
  BY <1>3, <1>11 DEF SendHead, ReceiverFails, relayVars
<1> QED
  BY <1>4, <1>5, <1>6, <1>7, <1>8, <1>9, <1>10, <1>11 DEF RelayNext, Deliver, Environment

\* A frame put into the channel, as the rest of a body or as its error.
LEMMA PendingPush ==
    ASSUME Pending, NEW f, channel' = Append(channel, f), UNCHANGED <<m, writer, out>>,
           Total' = Total, reader.state \in {"body", "failing"},
           \/ /\ f.kind = "data" /\ f.bytes \in Seq(Bytes) /\ reader'.state \in {"body", "done"}
              /\ Carries(channel', Len(out.body), Total - reader'.left)
           \/ f = Error /\ reader'.state = "failed"
    PROVE  Pending'
<1> DEFINE v == Append(channel, f)
<1>1. channel \in Seq(ToSet(channel)) /\ Len(channel) \in Nat
  BY DEF Pending
<1>2. /\ Len(v) = Len(channel) + 1 /\ v[Len(channel) + 1] = f
      /\ \A i \in 1..Len(channel) : v[i] = channel[i]
      /\ v \in Seq(ToSet(channel) \cup {f})
  <2>1. channel \in Seq(ToSet(channel) \cup {f})
    BY <1>1
  <2> QED
    BY <1>1, <2>1, AppendProperties
<1> HIDE DEF v
<1>3. v \in Seq(ToSet(v)) /\ v # <<>>
  <2>1. \A i \in 1..Len(v) : v[i] \in ToSet(v)
    BY <1>2 DEF ToSet
  <2> QED
    BY <1>1, <1>2, <2>1
<1>4. \A i \in 1..Len(channel) : channel[i].kind = "data" /\ channel[i].bytes \in Seq(Bytes)
  BY DEF Pending
<1>5. \A i \in 1..Len(v) :
        \/ v[i].kind = "data" /\ v[i].bytes \in Seq(Bytes)
        \/ v[i] = Error /\ i = Len(v) /\ reader'.state = "failed"
  <2> TAKE i \in 1..Len(v)
  <2>1. CASE i \in 1..Len(channel)
    BY <1>2, <1>4, <2>1
  <2>2. CASE i = Len(v)
    BY <1>1, <1>2, <2>2
  <2> QED
    BY <1>1, <1>2, <2>1, <2>2
<1>6. channel' = v
  BY DEF v
<1>7. Open' /\ out'.body \in Seq(Bytes)
  BY DEF Pending, Open
<1>8. reader'.state \in {"body", "done"} => Carries(channel', Len(out'.body), Total' - reader'.left)
  OBVIOUS
<1>9. reader'.state = "failed" => v[Len(v)] = Error
  BY <1>1, <1>2
<1> QED
  BY <1>3, <1>5, <1>6, <1>7, <1>8, <1>9 DEF Pending

\* The rest of a body without its first frame.
LEMMA PendingTail ==
    ASSUME Pending, LengthReader, channel # <<>>, reader.state \notin {"head", "rejected"}
    PROVE  LET t == Tail(channel) IN
           /\ t \in Seq(ToSet(t))
           /\ \/ channel[1].kind = "data" /\ channel[1].bytes \in Seq(Bytes)
              \/ channel[1] = Error
           /\ channel[1].kind = "data" =>
                /\ \A i \in 1..Len(t) :
                     \/ t[i].kind = "data" /\ t[i].bytes \in Seq(Bytes)
                     \/ t[i] = Error /\ i = Len(t) /\ reader.state = "failed"
                /\ reader.state \in {"body", "done"} =>
                     Carries(t, Len(out.body) + Len(channel[1].bytes), Total - reader.left)
                /\ reader.state = "failed" => t # <<>> /\ t[Len(t)] = Error
<1> DEFINE t == Tail(channel)
           n == Len(channel)
<1>1. channel \in Seq(ToSet(channel)) /\ n \in Nat /\ n >= 1
  BY DEF Pending
<1>2. Len(t) = n - 1 /\ (\A i \in 1..(n - 1) : t[i] = channel[i + 1]) /\ t \in Seq(ToSet(channel))
  BY <1>1, HeadTailProperties
<1>3. \A i \in 1..n :
        \/ channel[i].kind = "data" /\ channel[i].bytes \in Seq(Bytes)
        \/ channel[i] = Error /\ i = n /\ reader.state = "failed"
  BY DEF Pending
<1>4. /\ reader.state = "failed" => channel[n] = Error
      /\ reader.state \in {"body", "done"} => Carries(channel, Len(out.body), Total - reader.left)
  BY DEF Pending
<1> HIDE DEF n
<1>5. channel[1].kind = "data" =>
        (reader.state \in {"body", "done"} =>
           Carries(t, Len(out.body) + Len(channel[1].bytes), Total - reader.left))
  <2> SUFFICES ASSUME channel[1].kind = "data", reader.state \in {"body", "done"}
               PROVE  Carries(t, Len(out.body) + Len(channel[1].bytes), Total - reader.left)
    OBVIOUS
  <2>1. Size(channel[1]) = Len(channel[1].bytes)
    BY DEF Size
  <2>2. Total - reader.left \in Nat
    BY DEF LengthReader
  <2> QED
    BY <1>1, <1>4, <2>1, <2>2, CarriesTail
<1> HIDE DEF t
<1>6. t \in Seq(ToSet(t))
  <2>1. \A i \in 1..Len(t) : t[i] \in ToSet(t)
    BY <1>2 DEF ToSet
  <2> QED
    BY <1>1, <1>2, <2>1
<1>7. ASSUME NEW i \in 1..Len(t)
      PROVE  \/ t[i].kind = "data" /\ t[i].bytes \in Seq(Bytes)
             \/ t[i] = Error /\ i = Len(t) /\ reader.state = "failed"
  <2>1. i + 1 \in 1..n /\ t[i] = channel[i + 1] /\ (i + 1 = n => i = Len(t))
    BY <1>1, <1>2
  <2> QED
    BY <1>3, <2>1
<1>8. \/ channel[1].kind = "data" /\ channel[1].bytes \in Seq(Bytes)
      \/ channel[1] = Error
  BY <1>1, <1>3
<1>9. ASSUME channel[1].kind = "data", reader.state = "failed"
      PROVE  t # <<>> /\ t[Len(t)] = Error
  <2>1. channel[n] = Error
    BY <1>4, <1>9
  <2>2. n # 1
    BY <1>9, <2>1 DEF Error
  <2>3. n - 1 \in 1..(n - 1) /\ (n - 1) + 1 = n
    BY <1>1, <2>2
  <2>4. t[n - 1] = channel[n]
    BY <1>2, <2>3
  <2> QED
    BY <1>2, <2>1, <2>3, <2>4
<1> QED
  BY <1>5, <1>6, <1>7, <1>8, <1>9 DEF t

\* No step loses or invents a byte of a counted body: what was written and what
\* is still to come add up to the length announced, unless the relay was aborted.
LEMMA LengthStep ==
    ASSUME RelayInv, [RelayNext]_relayVars
    PROVE  LengthInv'
<1> USE DEF RelayInv
<1>1. m' = m /\ Total' = Total /\ (Counted' <=> Counted)
  BY SentHeadStep, SameMessage
<1>2. SUFFICES ASSUME m.from = "h1", Counted,
                      BodySettled \/ Pending \/ ("abort" \in faults /\ reader.state = "aborted")
               PROVE  BodySettled' \/ Pending' \/ ("abort" \in faults' /\ reader'.state = "aborted")
  BY <1>1, LengthReaderStep DEF LengthInv
<1>3. LengthReader /\ LengthReader'
  BY <1>2, LengthReaderStep DEF LengthInv
<1>4. CASE BodySettled
  BY <1>2, <1>4, BodySettledStep
<1>5. CASE "abort" \in faults /\ reader.state = "aborted"
  <2>1. UNCHANGED <<reader, faults>> \/ (UNCHANGED reader /\ faults \subseteq faults')
    <3>1. ~Decoding
      BY <1>5 DEF Decoding
    <3> QED
      BY <1>5, <3>1 DEF RelayNext, relayVars, AcceptHead, ReadMore, Eof, Decode, DecodeUnchunked,
           DecodeSize, DecodeChunk, DecodeTerminator, DecodeTrailers, PushError, Deliver, SendHead,
           WriteFrame, WriteFails, Finish, Environment, ReadTimesOut, AbortReader, Cut, ReceiverFails
  <2> QED
    BY <1>5, <2>1
<1>6. CASE Pending /\ ~BodySettled
  <2>1. Open /\ out.body \in Seq(Bytes) /\ channel \in Seq(ToSet(channel))
    BY <1>6 DEF Pending
  <2>2. ~Abandoned
    BY <2>1 DEF Open, Abandoned
  <2>3. CASE UNCHANGED <<reader, channel, writer, out>>
    BY <1>1, <1>6, <2>3 DEF Pending, Open
  <2>4. CASE AcceptHead
    <3>1. reader.state = "head" /\ UNCHANGED <<channel, writer, out>> /\ channel = <<>>
      BY <1>3, <2>4 DEF AcceptHead, LengthReader
    <3>2. out.body = <<>>
      BY <3>1 DEF SentHead
    <3>3. reader'.state \in {"rejected", "done", "body"}
      BY <1>2, <2>4 DEF AcceptHead, Shapes
    <3>4. reader'.state \in {"done", "body"} => reader'.left = Total /\ Total \in Nat
      <4> SUFFICES ASSUME reader'.state \in {"done", "body"}
                   PROVE  reader'.left = Total /\ Total \in Nat
        OBVIOUS
      <4>1. HeadIsValid
        BY <2>4 DEF AcceptHead, Shapes
      <4>2. FramingOf(m.head) = Framing("length", Total) /\ Total \in Nat
        BY <1>2, <4>1, LengthTotal
      <4>3. reader'.left = FramingOf(m.head).length
        BY <1>2, <2>4, <4>1 DEF AcceptHead, Shapes
      <4> QED
        BY <4>2, <4>3 DEF Framing
    <3>5. reader'.state \in {"done", "body"} => Carries(channel', Len(out'.body), Total - reader'.left)
      <4> DEFINE at == [i \in 1..1 |-> 0]
      <4>1. at \in [1..(Len(<<>>) + 1) -> 0..0] /\ at[1] = 0 /\ at[Len(<<>>) + 1] = 0
            /\ \A i \in 1..Len(<<>>) : at[i + 1] = at[i] + Size(<<>>[i])
        OBVIOUS
      <4> HIDE DEF at
      <4>2. Carries(<<>>, 0, 0)
        BY <4>1 DEF Carries
      <4>3. reader'.state \in {"done", "body"} => Total - reader'.left = 0
        BY <3>4
      <4> QED
        BY <3>1, <3>2, <4>2, <4>3
    <3> QED
      BY <1>1, <1>6, <3>1, <3>3, <3>5 DEF Pending, Open
  <2>5. CASE Eof \/ ReadTimesOut
    <3>1. UNCHANGED <<channel, writer, out>> /\ reader.state = "body"
      BY <2>5 DEF Eof, ReadTimesOut, Decoding
    <3>2. reader'.state = "failing"
      <4>1. reader.framing.kind # "eof"
        BY <1>3, <3>1 DEF LengthReader, Framing
      <4> QED
        BY <2>5, <4>1 DEF Eof, ReadTimesOut, Fail, Shapes
    <3> QED
      BY <1>1, <1>6, <3>1, <3>2 DEF Pending, Open
  <2>6. CASE Decode
    <3>1. Decoding
      BY <2>6 DEF Decode, DecodeUnchunked, DecodeSize, DecodeChunk, DecodeTerminator, DecodeTrailers
    <3>2. PICK n \in Nat :
             /\ n <= Len(buf) /\ n <= reader.left
             /\ Push(Data(SubSeq(buf, 1, n)))
             /\ reader'.left = reader.left - n
             /\ reader'.state = IF reader.left - n = 0 THEN "done" ELSE "body"
             /\ UNCHANGED <<m, writer, out>>
      BY <1>2, <1>3, <2>6, <3>1, CountedDecodes
    <3> DEFINE f == Data(SubSeq(buf, 1, n))
    <3>3. /\ reader.state = "body" /\ reader.left \in Nat /\ Total \in Nat /\ reader.left <= Total
          /\ buf \in Seq(Bytes)
      BY <1>3, <3>1 DEF LengthReader, Decoding
    <3>4. f.kind = "data" /\ f.bytes \in Seq(Bytes) /\ Size(f) = n
      <4>1. SubSeq(buf, 1, n) \in Seq(Bytes) /\ Len(SubSeq(buf, 1, n)) = n
        BY <3>2, <3>3, SubSeqProperties
      <4> QED
        BY <4>1 DEF Data, Size
    <3>5. channel' = Append(channel, f)
      BY <2>2, <3>2 DEF Push
    <3> HIDE DEF f
    <3>6. Carries(channel, Len(out.body), Total - reader.left)
      BY <1>6, <3>3 DEF Pending
    <3>7. Total - reader.left \in Nat /\ (Total - reader.left) + n = Total - reader'.left
      BY <3>2, <3>3
    <3>8. Carries(channel', Len(out.body), (Total - reader.left) + n)
      BY <2>1, <3>4, <3>5, <3>6, <3>7, CarriesAppend
    <3>9. Carries(channel', Len(out.body), Total - reader'.left)
      BY <3>7, <3>8
    <3> QED
      BY <1>1, <1>6, <3>2, <3>3, <3>4, <3>5, <3>9, PendingPush
  <2>7. CASE PushError
    <3>1. /\ channel' = Append(channel, Error) /\ UNCHANGED <<m, writer, out>>
          /\ reader.state = "failing" /\ reader'.state = "failed"
      BY <2>2, <2>7 DEF PushError, Push, Shapes
    <3> QED
      BY <1>1, <1>6, <3>1, PendingPush
  <2>8. CASE AbortReader
    BY <2>8 DEF AbortReader, Shapes
  <2>9. CASE SendHead
    <3>1. UNCHANGED <<reader, channel>> /\ out'.body = out.body /\ Len(out.body) = 0
      BY <1>2, <2>9, CountedHead
    <3>2. \/ writer'.state = "failed" /\ out'.end = "open"
          \/ writer'.state = "done" /\ out'.end = "ended" /\ Total = 0
          \/ writer'.state = "body" /\ out'.end = "open" /\ ~writer'.complete
      BY <1>2, <2>9, CountedHead
    <3>3. CASE writer'.state = "failed" /\ out'.end = "open"
      BY <3>3 DEF BodySettled
    <3>4. CASE writer'.state = "done" /\ out'.end = "ended" /\ Total = 0
      BY <1>1, <3>1, <3>4 DEF BodySettled
    <3>5. CASE writer'.state = "body" /\ out'.end = "open" /\ ~writer'.complete
      BY <1>1, <1>6, <3>1, <3>5 DEF Pending, Open
    <3> QED
      BY <3>2, <3>3, <3>4, <3>5
  <2>10. CASE WriteFrame
    <3>1. /\ writer.state = "body" /\ Ready /\ NextFrame.kind \in {"data", "trailers"} /\ Taken
          /\ UNCHANGED reader
      BY <2>10 DEF WriteFrame
    <3>2. reader.state \notin {"head", "rejected"}
      BY <3>1 DEF SentHead
    <3>3. channel # <<>> /\ NextFrame = channel[1] /\ channel' = Tail(channel)
      BY <1>2, <3>1 DEF NextFrame, Taken, End
    <3>4. channel[1].kind = "data" /\ channel[1].bytes \in Seq(Bytes)
      BY <1>3, <1>6, <3>1, <3>2, <3>3, PendingTail DEF Error
    <3>5. /\ ~writer'.complete /\ out'.body = out.body \o channel[1].bytes
          /\ out'.end = out.end /\ writer'.state = "body"
      BY <1>2, <2>10, <3>3, <3>4, CountedWrites
    <3>6. out'.body \in Seq(Bytes) /\ Len(out'.body) = Len(out.body) + Len(channel[1].bytes)
      BY <2>1, <3>4, <3>5, ConcatProperties
    <3> DEFINE t == Tail(channel)
    <3>7. /\ t \in Seq(ToSet(t))
          /\ \A i \in 1..Len(t) :
               \/ t[i].kind = "data" /\ t[i].bytes \in Seq(Bytes)
               \/ t[i] = Error /\ i = Len(t) /\ reader.state = "failed"
          /\ reader.state \in {"body", "done"} =>
               Carries(t, Len(out.body) + Len(channel[1].bytes), Total - reader.left)
          /\ reader.state = "failed" => t # <<>> /\ t[Len(t)] = Error
      BY <1>3, <1>6, <3>2, <3>3, <3>4, PendingTail
    <3>8. channel' = t
      BY <3>3
    <3> HIDE DEF t
    <3>9. Open'
      BY <2>1, <3>5 DEF Open
    <3>10. reader'.state # "aborted"
      BY <1>6, <3>1 DEF Pending
    <3> QED
      BY <1>1, <3>1, <3>6, <3>7, <3>8, <3>9, <3>10 DEF Pending
  <2>11. CASE WriteFails \/ ReceiverFails
    BY <1>1, <1>2, <2>1, <2>11, CountedWrites DEF BodySettled, Open
  <2>12. CASE Finish
    <3>1. NextFrame.kind = "end" /\ writer'.state = "done" /\ out'.body = out.body /\ out'.end = "ended"
      BY <1>2, <2>12, CountedWrites
    <3>2. writer.state = "body" /\ Ready
      BY <2>12 DEF Finish
    <3>3. reader.state \notin {"head", "rejected"}
      BY <3>2 DEF SentHead
    <3>4. channel = <<>>
      <4> SUFFICES ASSUME channel # <<>> PROVE FALSE
        OBVIOUS
      <4>1. NextFrame = channel[1]
        BY <1>2 DEF NextFrame
      <4>2. channel[1].kind = "data" \/ channel[1] = Error
        BY <1>3, <1>6, <3>3, PendingTail
      <4> QED
        BY <3>1, <4>1, <4>2 DEF Error
    <3>5. reader.state = "done"
      <4>1. reader.state \in {"done", "failed", "aborted"}
        BY <1>2, <3>2, <3>4 DEF Ready, ReaderGone
      <4> QED
        BY <1>6, <3>4, <4>1 DEF Pending
    <3>6. Total - reader.left = Total
      BY <1>3, <3>5 DEF LengthReader
    <3>7. Carries(<<>>, Len(out.body), Total)
      BY <1>6, <3>4, <3>5, <3>6 DEF Pending
    <3>8. Len(out.body) = Total
      BY <3>7, CarriesNothing
    <3> QED
      BY <1>1, <3>1, <3>8 DEF BodySettled
  <2>13. CASE ReadMore \/ Cut \/ UNCHANGED relayVars
    BY <2>3, <2>13 DEF ReadMore, Cut, relayVars
  <2> QED
    BY <2>4, <2>5, <2>6, <2>7, <2>8, <2>9, <2>10, <2>11, <2>12, <2>13
       DEF RelayNext, Deliver, Environment
<1> QED
  BY <1>2, <1>4, <1>5, <1>6

-----------------------------------------------------------------------------
(* Relay: the theorems.                                                    *)

\* The parts of the inductive invariant, together.
LEMMA RelayInvInit ==
    RelayInit => RelayInv
BY SentHeadInit, StreamInit, LengthInit DEF RelayInit, RelayInv

\* Every step preserves it.
LEMMA RelayInvStep ==
    RelayInv /\ [RelayNext]_relayVars => RelayInv'
BY SentHeadStep, StreamStep, LengthStep DEF RelayInv

\* The inductive invariant holds of every message and every interleaving of the
\* reader, the channel and the writer: the head sent is the one prepared, and
\* the bytes of a counted body are conserved.
THEOREM RelayInvariance == RelaySpec => []RelayInv
BY RelayInvInit, RelayInvStep, PTL DEF RelaySpec

\* Where the invariant holds, the two sides of the hop agree on the framing.
LEMMA InvariantFrames ==
    RelayInv => OneFraming
<1> SUFFICES ASSUME RelayInv, out.head # NoHead
             PROVE  OneFraming
  BY DEF OneFraming
<1> USE DEF RelayInv
<1>1. /\ out.head = PreparedHead /\ HeadIsWritable
      /\ m.to = "h1" => writer.framing = PreparedFraming
      /\ HeadIsValid /\ reader.state \notin {"head", "rejected"}
  BY DEF SentHead
<1>2. m.side \in {"request", "response"} /\ m.to \in {"h1", "h2", "h3"}
  BY MessageFacts
<1>3. CASE m.to = "h1"
  <2>1. m.to \notin Multiplexed
    BY <1>3 DEF Multiplexed
  <2>2. IF m.side = "request" THEN validate_request(out.head) ELSE validate_response(out.head)
    BY <1>1, <1>3, <2>1 DEF HeadIsWritable, encode_request_head, encode_response_head
  <2>3. CASE m.side = "request"
    <3>1. ~Bodiless
      BY <2>3 DEF Bodiless
    <3>2. /\ FramingOf(out.head) = writer.framing
          /\ out.head.other \cap (m.head.connection \cup HopByHop) = {}
      BY <1>1, <1>3, <2>3, RequestAgrees
    <3> QED
      BY <2>1, <2>2, <2>3, <3>1, <3>2 DEF OneFraming
  <2>4. CASE m.side = "response"
    <3>1. /\ IF Bodiless THEN FramingOf(out.head) \in {Framing("none", 0), Framing("length", 0)}
             ELSE FramingOf(out.head) = writer.framing
          /\ FramingOf(out.head).kind = "eof" => "close" \in out.head.connection
      BY <1>1, <1>3, <2>4, ResponseAgrees
    <3> QED
      BY <2>1, <2>2, <2>4, <3>1 DEF OneFraming
  <2> QED
    BY <1>2, <2>3, <2>4
<1>4. CASE m.to \in Multiplexed
  <2>1. m.to # "h1"
    BY <1>4 DEF Multiplexed
  <2>2. IF m.to = "h2" THEN from_h2(out.head) ELSE from_h3(out.head)
    BY <1>1, <1>4, MultiplexedValid
  <2>3. out.head.other \cap (m.head.connection \cup HopByHop) = {}
    BY <1>1, <1>4, MultiplexedAgrees
  <2>4. ASSUME Received.whole, "abort" \notin faults, ~Bodiless, out.head.length # <<>>,
               m.from # "scripted"
        PROVE  Head(out.head.length) = Len(out.body)
    <3>1. Counted /\ Head(out.head.length) = Total
      BY <1>1, <1>4, <2>4 DEF Counted, Total
    <3>2. out.end = "ended"
      <4> DEFINE r == [whole |-> out.end = "ended", data |-> out.body,
                       trailers |-> out.trailers, over |-> <<>>]
      <4>1. Received = r
        BY <1>4, <2>1 DEF Received
      <4>2. r.whole <=> out.end = "ended"
        OBVIOUS
      <4> HIDE DEF r
      <4> QED
        BY <2>4, <4>1, <4>2
    <3>3. BodySettled
      BY <2>4, <3>1, <3>2, MessageFacts DEF StreamInv, LengthInv, Pending, Open
    <3> QED
      BY <3>1, <3>2, <3>3 DEF BodySettled
  <2> QED
    BY <1>4, <2>1, <2>2, <2>3, <2>4 DEF OneFraming
<1> QED
  BY <1>2, <1>3, <1>4 DEF Multiplexed

\* OneFraming, for every message there can be: a receiver finds the end of what it
\* is sent where the encoder has put it, and a Content-Length it is told is true.
THEOREM RelayFrames == RelaySpec => []OneFraming
BY RelayInvariance, InvariantFrames, PTL
=============================================================================
