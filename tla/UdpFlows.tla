------------------------------ MODULE UdpFlows ------------------------------
(***************************************************************************)
(* Datagrams: HTTP/3 inside the WireGuard tunnel                           *)
(* (proxyapi/src/proxy/wireguard.rs), raw UDP (udp.rs) and DNS (dns.rs).   *)
(* udp_loop keeps one interception flow per source and destination, each   *)
(* flow is a task of its own (run_h3_flow) and announces its end to the    *)
(* loop through a bounded channel.  A flow is named by its generation, and *)
(* its datagrams are counted, not told apart.  Any other datagram is an    *)
(* exchange with its destination or with the DNS resolver, a task too; the *)
(* UDP and the DNS proxy serve nothing else.                               *)
(***************************************************************************)
EXTENDS Naturals, Sequences, FiniteSets

CONSTANTS
    Key,       \* UdpFlowKey: source and destination
    DnsKey,    \* those of destination port 53
    NoKey,     \* no datagram is being worked on
    Packet,    \* what a DNS packet can ask: [parses, type, override]
    Setups,    \* [host, keys, flows, exchanges]: who serves the datagrams, and the
               \* bounds: whose they are, flows ever started, exchanges followed
    MaxGen, MaxExchange, \* the largest of these bounds
    InboxCap,  \* capacity of a flow's datagram channel, 128 in the code
    DoneCap,   \* capacity of the completion channel, 128 in the code
    ReplyCap   \* capacity of the response channel, 1_024 in the code

ASSUME KeyAssumption == NoKey \notin Key /\ DnsKey \subseteq Key
ASSUME BoundAssumption == MaxGen \in Nat /\ MaxExchange \in Nat
ASSUME CapAssumption == {InboxCap, DoneCap, ReplyCap} \subseteq Nat \ {0}
ASSUME SetupAssumption ==
    \A s \in Setups : /\ s.host \in {"wireguard", "udp", "dns"} /\ s.keys \subseteq Key
                     /\ s.flows \in 0 .. MaxGen
                     /\ s.exchanges \in 0 .. MaxExchange

VARIABLES
    setup,     \* the setup of this run
    table,     \* h3_flows: the generation listed under each key, 0 when none
    loop,      \* where udp_loop is
    at,        \* key of the datagram it works on
    next,      \* next_generation
    flow,      \* where the task of each generation is
    key,       \* the key each generation was started for
    inbox,     \* datagrams in the channel of each generation
    completed, \* completion channel: generations, oldest first
    responses, \* datagrams in the response channel
    exchange   \* the exchanges' tasks, in the order they were spawned

vars == <<setup, table, loop, at, next, flow, key, inbox, completed, responses, exchange>>

working == <<loop, at, next>>
flows == <<table, flow, key, inbox, completed>>

Gen == 1..MaxGen
Exchange == 1..MaxExchange

\* "finish" awaits room for its completion, "sent" has not yet dropped the
\* receiver of its datagrams: both still let the loop queue a datagram.
Running(g) == flow[g] \in {"live", "replying"}

Init ==
    /\ setup \in Setups
    /\ table = [k \in Key |-> 0]
    /\ loop = "select" /\ at = NoKey /\ next = 0
    /\ flow = [g \in Gen |-> "none"]
    /\ key = [g \in Gen |-> NoKey]
    /\ inbox = [g \in Gen |-> 0]
    /\ completed = <<>> /\ responses = 0 /\ exchange = <<>>

-----------------------------------------------------------------------------
(* The exchanges: one datagram to its destination and one back.            *)

\* A datagram on port 53 is asked of the resolver, as is all the DNS proxy gets.
IsDns(k) == setup.host = "dns" \/ (setup.host = "wireguard" /\ k \in DnsKey)

Fresh(k, packet) ==
    [at |-> "new", of |-> k, packet |-> packet, asked |-> FALSE, trail |-> <<>>]

\* Spawned for the datagram; beyond the bound it is not followed.
Spawn(k) ==
    \E packet \in Packet :
        exchange' = IF Len(exchange) < setup.exchanges
                    THEN Append(exchange, Fresh(k, packet)) ELSE exchange

Goes(e, from, fields) ==
    /\ exchange[e].at = from
    /\ exchange' = [exchange EXCEPT ![e] = fields]
    /\ UNCHANGED <<setup, working, flows, responses>>

Reports(e, events) == exchange[e].trail \o events

Gone(e) == [exchange[e] EXCEPT !.at = "gone"]
Waiting(e) == [exchange[e] EXCEPT !.at = "waiting", !.asked = TRUE]

\* udp::exchange: a failure to bind, connect or send ends it unreported; then it
\* waits five seconds for an answer or an error, which are reported alike.
UdpAsk(e) == ~IsDns(exchange[e].of) /\ (Goes(e, "new", Gone(e)) \/ Goes(e, "new", Waiting(e)))

UdpResult(e) ==
    /\ ~IsDns(exchange[e].of)
    /\ \E to \in {"answering", "gone"} :
          Goes(e, "waiting", [exchange[e] EXCEPT !.at = to, !.trail = Reports(e, <<"UdpExchange">>)])

\* An override answers only queries of its address's family.
Overrides(packet) == <<packet.type, packet.override>> \in {<<1, "V4">>, <<28, "V6">>}

Answered(e, events) == [exchange[e] EXCEPT !.at = "answering", !.trail = Reports(e, events)]

\* resolve_packet, up to the handler's decision.
Resolve(e) ==
    /\ IsDns(exchange[e].of)
    /\ LET packet == exchange[e].packet IN
       IF ~packet.parses THEN Goes(e, "new", Gone(e))
       ELSE IF Overrides(packet) THEN Goes(e, "new", Answered(e, <<"DnsQuery", "overridden">>))
       ELSE Goes(e, "new", [exchange[e] EXCEPT !.at = "deciding", !.trail = Reports(e, <<"DnsQuery">>)])

\* ForwardAll, the handler of the tunnel, forwards; another one may refuse.
Decisions == {"Forward"} \cup (IF setup.host = "dns" THEN {"NxDomain"} ELSE {})

Decide(e) ==
    /\ e \in DOMAIN exchange
    /\ \E decision \in Decisions :
         IF decision = "NxDomain" THEN Goes(e, "deciding", Answered(e, <<"overridden">>))
         ELSE Goes(e, "deciding", Gone(e)) \/ Goes(e, "deciding", Waiting(e))

\* The resolver's answer is passed on also when its records cannot be read; an
\* error or five seconds end the exchange with its query alone reported.
parse_answers == {"resolved", "empty"}

Forwarded(e) ==
    /\ IsDns(exchange[e].of)
    /\ \/ Goes(e, "waiting", Gone(e))
       \/ \E answers \in parse_answers : Goes(e, "waiting", Answered(e, <<answers>>))

\* The answer waits for room in udp_loop's response channel, or is dropped with it.
Respond(e) ==
    /\ setup.host = "wireguard" /\ exchange[e].at = "answering"
    /\ \/ loop = "ended" /\ UNCHANGED responses
       \/ loop # "ended" /\ responses < ReplyCap /\ responses' = responses + 1
    /\ exchange' = [exchange EXCEPT ![e] = Gone(e)]
    /\ UNCHANGED <<setup, working, flows>>

\* handle_datagram, handle_packet: sent from the proxy's own socket, which the
\* task keeps open; an error is only logged.
SendTo(e) == setup.host # "wireguard" /\ Goes(e, "answering", Gone(e))

ExchangeMoves(e) ==
    /\ e \in DOMAIN exchange
    /\ UdpAsk(e) \/ UdpResult(e) \/ Resolve(e) \/ Forwarded(e) \/ Respond(e) \/ SendTo(e)

\* udp::serve and dns::serve spawn a task for each datagram.
Receive(k) ==
    /\ setup.host # "wireguard" /\ loop = "select"
    /\ Spawn(k)
    /\ UNCHANGED <<setup, working, flows, responses>>

-----------------------------------------------------------------------------
(* udp_loop.                                                               *)

BugCloses(g) == flow[g] = "gone" \/ inbox[g] = InboxCap

\* try_send finds the receiver dropped; a full channel is not a closed one.
Closed(g) == flow[g] = "gone"

\* Queued, or dropped because the flow is saturated.
Dispatch(g) == inbox' = [inbox EXCEPT ![g] = IF @ < InboxCap THEN @ + 1 ELSE @]

BugUnlist(k) == UNCHANGED table

Unlist(k) == table' = [table EXCEPT ![k] = 0]

\* A datagram for a listed flow that can still take it.
ToFlow(k) ==
    /\ setup.host = "wireguard" /\ loop = "select"
    /\ table[k] # 0
    /\ ~Closed(table[k])
    /\ Dispatch(table[k])
    /\ UNCHANGED <<setup, exchange, table, working, flow, key, completed, responses>>

\* Any other datagram: a closed flow leaves the table, then a QUIC Initial
\* starts a flow and everything else is an exchange.
ToNobody(k, initial) ==
    /\ setup.host = "wireguard" /\ loop = "select"
    /\ table[k] # 0 => Closed(table[k])
    /\ Unlist(k)
    /\ IF initial /\ k \notin DnsKey /\ next < setup.flows
       THEN loop' = "starting" /\ at' = k /\ next' = next + 1 /\ UNCHANGED exchange
       ELSE Spawn(k) /\ UNCHANGED working
    /\ UNCHANGED <<setup, flow, key, inbox, completed, responses>>

\* start_h3_flow: the sockets are bound and the task is spawned.
StartFlow ==
    /\ loop = "starting"
    /\ flow' = [flow EXCEPT ![next] = "live"]
    /\ key' = [key EXCEPT ![next] = at]
    /\ loop' = "dispatch"
    /\ UNCHANGED <<setup, exchange, table, at, next, inbox, completed, responses>>

\* A certificate or a socket could not be had: the datagram is an exchange.
StartFails ==
    /\ loop = "starting"
    /\ loop' = "select" /\ at' = NoKey
    /\ Spawn(at)
    /\ UNCHANGED <<setup, next, flows, responses>>

\* The Initial goes to the new flow, which is listed, unless it has already
\* ended; then the datagram is an exchange.
DispatchInitial ==
    /\ loop = "dispatch"
    /\ loop' = "select" /\ at' = NoKey
    /\ IF flow[next] = "gone"
       THEN Spawn(at) /\ UNCHANGED <<table, inbox>>
       ELSE table' = [table EXCEPT ![at] = next] /\ Dispatch(next) /\ UNCHANGED exchange
    /\ UNCHANGED <<setup, next, flow, key, completed, responses>>

BugOwn(g) == g \in Gen

\* The completion is of the flow that is listed, not of an earlier one.
Own(g) == table[key[g]] = g

TakeCompletion ==
    /\ loop = "select"
    /\ completed # <<>>
    /\ completed' = Tail(completed)
    /\ LET g == Head(completed) IN
       IF Own(g) THEN Unlist(key[g]) ELSE UNCHANGED table
    /\ UNCHANGED <<setup, exchange, working, flow, key, inbox, responses>>

TakeResponse ==
    /\ loop = "select"
    /\ responses > 0
    /\ responses' = responses - 1
    /\ loop' = "writing"
    /\ UNCHANGED <<setup, exchange, table, at, next, flow, key, inbox, completed>>

\* The virtual network stack has taken the response.
Written ==
    /\ loop = "writing"
    /\ loop' = "select"
    /\ UNCHANGED <<setup, exchange, table, at, next, flow, key, inbox, completed, responses>>

\* The token is cancelled, the task aborted at an await, or the stack fails:
\* the table and both receivers are dropped.
LoopEnds ==
    /\ loop \in {"select", "writing", "starting"}
    /\ loop' = "ended" /\ at' = NoKey
    /\ table' = [k \in Key |-> 0]
    /\ completed' = <<>> /\ responses' = 0
    /\ UNCHANGED <<setup, exchange, next, flow, key, inbox>>

-----------------------------------------------------------------------------
(* run_h3_flow.                                                            *)

Move(g, from, to) == flow[g] = from /\ flow' = [flow EXCEPT ![g] = to]

\* A datagram goes to the loopback listener.
TakeDatagram(g) ==
    /\ flow[g] = "live"
    /\ inbox[g] > 0
    /\ inbox' = [inbox EXCEPT ![g] = @ - 1]
    /\ UNCHANGED <<setup, exchange, table, working, flow, key, completed, responses>>

\* The listener answers; response_tx.send is awaited in the arm.
Reply(g) ==
    /\ Move(g, "live", "replying")
    /\ UNCHANGED <<setup, exchange, table, working, key, inbox, completed, responses>>

PushResponse(g) ==
    /\ IF loop = "ended"
       THEN Move(g, "replying", "finish") /\ UNCHANGED responses
       ELSE /\ responses < ReplyCap
            /\ responses' = responses + 1
            /\ Move(g, "replying", "live")
    /\ UNCHANGED <<setup, exchange, table, working, key, inbox, completed>>

\* Sixty idle seconds, the token, an I/O error or the end of the listener.
FlowEnds(g) ==
    /\ Move(g, "live", "finish")
    /\ UNCHANGED <<setup, exchange, table, working, key, inbox, completed, responses>>

BugHandleDropped(g) ==
    /\ flow[g] = "live" /\ inbox[g] = 0
    /\ UNCHANGED vars

\* datagrams.recv() returns None: the loop has dropped the sender.
HandleDropped(g) ==
    /\ Move(g, "live", "finish")
    /\ inbox[g] = 0
    /\ table[key[g]] # g /\ ~(loop = "dispatch" /\ next = g)
    /\ UNCHANGED <<setup, exchange, table, working, key, inbox, completed, responses>>

\* completed_tx.send waits for room.
PushCompletion(g) ==
    /\ Len(completed) < DoneCap
    /\ completed' = Append(completed, g)

SendCompletion(g) ==
    /\ IF loop = "ended"
       THEN Move(g, "finish", "gone") /\ UNCHANGED completed
       ELSE Move(g, "finish", "sent") /\ PushCompletion(g)
    /\ UNCHANGED <<setup, exchange, table, working, key, inbox, responses>>

\* The task returns and drops the receiver with what is left in it.
Return(g) ==
    /\ Move(g, "sent", "gone")
    /\ UNCHANGED <<setup, exchange, table, working, key, inbox, completed, responses>>

-----------------------------------------------------------------------------
FlowMoves(g) == PushResponse(g) \/ HandleDropped(g) \/ SendCompletion(g) \/ Return(g)

FlowStep(g) == TakeDatagram(g) \/ Reply(g) \/ FlowEnds(g) \/ FlowMoves(g)

Next ==
    \/ \E k \in setup.keys : ToFlow(k) \/ \E initial \in BOOLEAN : ToNobody(k, initial)
    \/ StartFlow \/ StartFails \/ DispatchInitial
    \/ TakeCompletion \/ TakeResponse \/ Written \/ LoopEnds
    \/ \E g \in Gen : FlowStep(g)
    \/ \E k \in setup.keys : Receive(k)
    \/ \E e \in Exchange : ExchangeMoves(e) \/ Decide(e)

Spec == Init /\ [][Next]_vars

\* Tasks that can go on are polled, a flow reads what was queued for it, the
\* select! of udp_loop picks its ready arms at random, and the network stack
\* takes what the loop writes.  No flow has to end, no datagram to arrive and no
\* handler of DNS queries to decide.
FairSpec ==
    /\ Spec
    /\ WF_vars(StartFlow \/ StartFails) /\ WF_vars(DispatchInitial) /\ WF_vars(Written)
    /\ SF_vars(TakeCompletion) /\ SF_vars(TakeResponse)
    /\ \A g \in Gen : WF_vars(TakeDatagram(g)) /\ SF_vars(FlowMoves(g))
    /\ \A e \in Exchange : SF_vars(ExchangeMoves(e))

-----------------------------------------------------------------------------
TypeOK ==
    /\ table \in [Key -> 0..MaxGen]
    /\ loop \in {"select", "starting", "dispatch", "writing", "ended"}
    /\ at \in Key \cup {NoKey}
    /\ next \in 0..MaxGen
    /\ flow \in [Gen -> {"none", "live", "replying", "finish", "sent", "gone"}]
    /\ key \in [Gen -> Key \cup {NoKey}]
    /\ inbox \in [Gen -> 0..InboxCap]
    /\ completed \in Seq(Gen) /\ Len(completed) <= DoneCap
    /\ responses \in 0..ReplyCap
    /\ Len(exchange) <= setup.exchanges
    /\ \A e \in DOMAIN exchange : exchange[e].at \in {"new", "deciding", "waiting", "answering", "gone"}

\* One connection is never split between two flows: at most one flow per source
\* and destination works, also while ended ones still report their completion.
OneFlowPerKey ==
    \A g, h \in Gen : Running(g) /\ Running(h) /\ key[g] = key[h] => g = h

\* What is listed is the newest flow of its key, so that datagrams never go
\* to a predecessor.
ListedIsNewest ==
    \A k \in Key : table[k] # 0 =>
        /\ key[table[k]] = k
        /\ \A g \in Gen : key[g] = k => g <= table[k]

\* A listed flow that has ended is not forgotten: its completion is still to
\* come, or on its way.
EntryHasCompletion ==
    \A k \in Key : table[k] # 0 =>
        \/ Running(table[k]) \/ flow[table[k]] = "finish"
        \/ \E i \in DOMAIN completed : completed[i] = table[k]

\* What an exchange that got this far has reported, in order.
Reported(x) ==
    IF ~IsDns(x.of)
    THEN IF x.at = "waiting" \/ ~x.asked THEN {<<>>} ELSE {<<"UdpExchange">>}
    ELSE CASE x.at = "new" -> {<<>>}
           [] x.at \in {"deciding", "waiting"} -> {<<"DnsQuery">>}
           [] x.at = "answering" /\ x.asked ->
                 {<<"DnsQuery", answers>> : answers \in parse_answers}
           [] x.at = "answering" /\ ~x.asked -> {<<"DnsQuery", "overridden">>}
           [] x.at = "gone" -> {x.trail}

\* Whatever is sent back to a client was reported before, a query that is answered
\* here reaches no resolver, and every datagram that left, answered or not, is
\* reported once.  Reported is handed to the event channel, which drops what it has
\* no room for.
AnswersAreReported ==
    \A e \in DOMAIN exchange :
        LET x == exchange[e] IN
        /\ x.trail \in Reported(x)
        /\ IsDns(x.of) /\ x.asked => ~Overrides(x.packet) /\ x.packet.parses
        /\ \A i \in DOMAIN x.trail : x.trail[i] = "overridden" => ~x.asked

\* The table leads every datagram to the one flow that serves its connection and
\* forgets no flow that has ended; what is exchanged outside it is reported.
TableIsSound ==
    TypeOK /\ OneFlowPerKey /\ ListedIsNewest /\ EntryHasCompletion /\ AnswersAreReported

\* A completion, however late, never takes a working flow out of the table.
CompletionIsOwn ==
    [][\A k \in Key :
          table[k] # 0 /\ Running(table[k]) /\ loop' # "ended" => table'[k] = table[k]]_vars

\* A flow that has ended leaves the table, so that the next connection of
\* the same client is intercepted again.
EndedFlowLeaves ==
    \A g \in Gen : flow[g] \in {"finish", "sent", "gone"} ~> \A k \in Key : table[k] # g

\* No flow outlives the loop.
FlowsEndWithLoop == loop = "ended" ~> \A g \in Gen : flow[g] \in {"none", "gone"}

\* An exchange is over in the end, its answer delivered or dropped, unless a
\* handler never decides.
ExchangesEnd ==
    \A e \in Exchange :
        e \in DOMAIN exchange ~> e \in DOMAIN exchange /\ exchange[e].at \in {"deciding", "gone"}

\* Every flow and exchange is accounted for in the end: an ended flow leaves the
\* table, the end of the loop ends them all, and an exchange comes to an end.
FlowsSettle == EndedFlowLeaves /\ FlowsEndWithLoop /\ ExchangesEnd
=============================================================================
