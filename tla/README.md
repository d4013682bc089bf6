# Verification of Proxelar

TLA+ models of Proxelar, an intercepting HTTP/WireGuard/SOCKS proxy in Rust:
what TLC checks about them on small instances, and what TLAPS proves about them
for every instance. Paths are relative to the repository. `PROJECT.json` has,
for each definition that models code, the lines it models (`map`), and the
hazards the properties are for (`hazards`).

    tlc -workers 2 -config MCIntercept.cfg MCIntercept     # one run
    tlapm TunnelProofs.tla                                 # one module of proofs

## 1. The system

Everything runs on tokio: "task" below is a tokio task, "dropped" a future that
is destroyed at an await.

| part | state | operations | talks to |
|---|---|---|---|
| interactive intercept (`proxyapi/src/intercept.rs`) | `enabled` flag, `pending` map from request id to a oneshot sender | `register`, `resolve`, `set_enabled`, `toggle`, `drain_forward`, `pending_count` | called by every handler and every interface at once; a decision travels through the oneshot |
| request handler (`handler.rs`, `body.rs`) | a future for each request; a capture shared with the streaming body; a detached reporting task | rules, hooks, pause, upstream, events, replay | intercept, event channel, upstream clients, server connections |
| event channel (`event.rs`) | bounded mpsc, `try_send` drops | `try_send_event` | handlers to fan-out |
| HTTP/1 server (`proxelar-proto/src/http1/connection.rs`) | reader task, coordinator, pipeline channel, body channel and upgrade oneshot of each request | `serve_connection_with_upgrades`, `read_server_requests`, `read_body` | the service (the handler), the client's bytes |
| HTTP/1 client driver and pool (same file) | map of entries: client handles, connect lock; a one-permit semaphore and a one-place command channel for each connection | `send_with_upgrade`, `choose_pool_client`, `connect_or_reuse`, `run_client` | upstream servers; callers that may be dropped |
| HTTP/1 parser, framing, serialiser, validation; `ProxyBody` | decoder state, buffer, body channel | `validate_*`, `BodyDecoder`, `write_body`, head conversion to and from HTTP/2 and HTTP/3 | server, driver |
| HTTP/2 server, client, pool (`http2/connection.rs`) | one shared client per key, tasks for each stream, byte bridges | `H2Pool::send`, `remove_if_current`, `body_tunnel`, `websocket_body_tunnel` | h2 crate, handler |
| negotiated upstream (`proxy/http1.rs`), HTTP/3 upstream (`proxy/http3.rs`) | cached client, evicted after errors | choose, connect, evict | the pools |
| HTTP/3 listener and driver (`proxy/http3.rs`, `http3/driver.rs`) | routes by connection id, a task for each connection, a table of streams | accept, dispatch, remove; `events`, `poll_application` | UDP socket, quiche, handler |
| WireGuard endpoint (`proxy/wireguard.rs`) | a `JoinSet` of six tasks, tunnel and peer endpoint, two packet channels, the userspace stack, table of HTTP/3 flows | `serve`, `wireguard_loop`, `stack_bridge`, `tcp_loop`, `udp_loop`, `run_h3_flow`, replay loop | UDP socket, handler, HTTP/3 listener on loopback |
| forward proxy, CONNECT, sniffing (`proxy/forward.rs`, `mod.rs`, `rewind.rs`) | first bytes of a stream, `Rewind` prefixes | `start`, classify, intercept TLS or relay | TLS, server connections |
| reverse proxy, upstream routing (`reverse.rs`, `outbound.rs`), rules (`rules.rs`) | none | plan, rewrite, connect through a proxy; `apply` | clients |
| SOCKS, raw TCP, UDP, DNS | a task for each stream or exchange | relay, resolve, override | event channel |
| session recorder (`session.rs`) | flows by kind and id | record, replay, save, export | fan-out |
| command line (`proxelar-cli/src/main.rs`) | channels, tokens | start, fan-out, shutdown | everything |
| terminal, TUI, web page | rows, selection, filter, editor; broadcast | show, decide, filter, replay | intercept, replay channel, fan-out |
| Lua scripting, add-ons, filters, content views, TLS and CA, options | engine, certificate cache, files | pure or I/O | handler, interfaces |

### What is hard, and what makes each part correct

- **Intercept.** Flag and map change in separate steps; the handler reads the
  flag twice, with awaits between; decision, timer, drain, connection reset and
  full event channel race. Correct when a paused handler can always be reached,
  a request shown as held goes on only by a decision, and every ending is seen.
- **HTTP/1 pool.** Callers are dropped anywhere, connections close anywhere, the
  permit and the command channel are closed in two steps, and stale connections
  are noticed at three points. Correct when no request is delivered twice, an
  answer belongs to its request, no permit or command is lost, and the number
  of connections is bounded.
- **HTTP/1 server.** The reader runs ahead of the service. Correct when the
  client sees answers in order, nothing after a request that may switch
  protocols is parsed before the switch is decided, both tasks agree how the
  connection ended, and no reader is left behind.
- **Messages between versions.** A body is decoded, passed through a channel and
  encoded again, while its head is checked under one version and rebuilt under
  another. Correct when a message that arrives complete was complete, has one
  framing, and leaves the next message at its first byte.
- **Shared upstream clients.** One client serves many requests and is evicted by
  the error of one. Correct when a healthy client stays shared, a request is
  sent again only if it never left, and no lock is left behind.
- **HTTP/3 driver.** Two halves of each stream end in any order and way, in
  quiche, in the service task and in the application. Correct when a clean end
  means a whole body, and every stream leaves the table.
- **Front of a connection.** What a stream is, is guessed from the pieces that
  have arrived, and the bytes are put back for the next layer. Correct when no
  byte is lost, no known protocol is tunnelled unseen, and what is asked goes to
  the place the mode, the CONNECT and the rules give it.
- **Tunnels.** Half-closes travel through copies and bridges with buffers of
  their own. Correct when an end never overtakes data, and everything ends.
- **WireGuard.** Two loops block in each other's channels; any task may end in
  any way. Correct when packets keep their order, and a part that stops takes
  the endpoint with it, with a true result.
- **UDP flows and exchanges.** An ended flow reports late, through a bounded
  channel, to a loop that may have listed its successor; an exchange can fail at
  each step. Correct when datagrams go to the newest flow, a completion removes
  only its own entry, and what was sent or answered was reported.
- **Capture.** Bodies are split at a limit, streamed while being recorded, cut
  off anywhere, and a response may overtake its request. Correct when bytes
  pass unchanged, the record is a faithful prefix, and there is one report.
- **Recorder and interfaces.** A slow interface stalls the fan-out and fills the
  channel behind it; rows are promoted, evicted and filtered under a selection;
  the shutdown waits 500 ms. Correct when the record is never behind the screen,
  a saved session is complete unless time ran out and replays to itself, and
  what is selected stays selected.

## 2. The modules

Every module has one variable for each piece of state of the code, one action
for each step a task takes between two points where another can run, and
bounds as constants. Each property has beside it, in the module, a definition
whose name starts with `Bug`: a plausible mistake in one definition of the
model with which the property fails. They take no part in the specification.

| module | models | state and steps |
|---|---|---|
| `Intercept` | `intercept.rs`; the path of a request through `handler.rs`; the event channel | `pc` is the await a handler future is at. `SetEnabled`/`Toggle` and `DrainForward` are the two halves of a mode change. `Expire` and `GiveUp` separate the poll that finds the timer elapsed from the drop of the receiver. `trail` and `verdict` are history. |
| `Http1Pool` | `Http1Pool`, `Http1Client`, `run_client`, for one pool key | `pc` of a sender, `phase` of a driver. `permit` says who holds a connection's permit, passed straight from driver to waiter as tokio's semaphore does. `Cancel` drops a sender at an await. `written` and `answer` are history. |
| `ClientCache` | `H2Pool::send`, `NegotiatedUpstream::send`, `ReverseH3Upstream` with its cached client: three ways of sharing one client | `kind` chooses the cache. `cache` is the shared client, `lock` the async lock held across a dial (not by the pool, which publishes what it dialled unless another was faster). `sent` and `blamed` are history. |
| `RequestOnce` | what pool and caches promise their callers | `Deliver`, `Settle`. The abstract specification that `Http1Pool` and `ClientCache` implement. |
| `Http1Server` | `serve_connection_with_upgrades`, its reader task, `read_body` | `rd` and `co` are the positions of reader and coordinator. A request is its position and the four facts that steer control. `Drop` is the connection future destroyed at an await. |
| `Relay` | one message through `parser`, `validation`, `framing`, the body channel, the head conversions of `http2/mod.rs`, `proxy/mod.rs`, `proxy/http1.rs`, `proxy/http3.rs`, and `serialize` | `reader` decodes `buf` token by token, `writer` encodes; `out` is what the other side gets. A head is the facts the decisions look at. Sides are HTTP/1, HTTP/2, HTTP/3, or a body the handler collected, edited or let a script replace. |
| `H3Driver` | `http3/driver.rs` as client, server and listener, and the callers in `http3.rs` | `st` has one record for each stream: both halves, the service task and the application. An event of quiche is edge-triggered, as there. `routes` is the listener's table. |
| `Rules` | `rules.rs` | `apply` takes a request through a list of rules; no state. |
| `Front` | `start`, `forward.rs`, `reverse.rs`, `socks.rs`, `outbound.rs`, `rewind.rs`, captured streams of `wireguard.rs` | bytes are tokens, `net` those not read, `pre` the nested `Rewind` prefixes, `buf` those a reader holds; `taken` and `log` are history: who consumed each byte, and what went to which upstream. |
| `Tunnel` | `raw.rs`, the WebSocket relay, `body_tunnel`, `websocket_body_tunnel` | `pipe[d]` is a row of bounded pipes, `mover[d]` the task between each two; `capture[d]` has the counters of a copy, and which units its chunks showed (`seen`) or would have (`lost`, the channel being full). |
| `WgTunnel` | `serve`, `wireguard_loop`, `stack_bridge`, and how the other tasks end | packets are numbered; `push` and `sink` are the awaits inside a `select!` arm, during which a loop sees nothing else. |
| `UdpFlows` | `udp_loop`, `start_h3_flow`, `run_h3_flow`, `spawn_udp_exchange`; `udp.rs` and `dns.rs` | a flow is its generation; `finish` waits for room for the completion, `sent` has not yet dropped its inbox. An exchange is a record with its place and the events it has emitted. |
| `FlowCapture` | `collect_body`, the buffered and streaming paths of request and response, `CaptureBody`, the reporting task | bytes are numbered, 0 is a byte of a hook or of the proxy's own. `stage` is where each body is. |
| `Console` | fan-out and shutdown of `main.rs`, `SessionRecorder`, `session_events`, TUI state and keys, terminal, web socket, `app.js` | flows emit a fixed script of events for their kind; `core`, `ui` and the broadcast are the channels; `tui`, `edit`, `page`, `filter` what is shown. |
| `MC*` | finite values for the constants | |
| `ClientCacheProofs`, `H3DriverProofs`, `TunnelProofs`, `ConsoleProofs` | theorems about the module named | |
| `ExchangeProofs` | theorems about `Http1Pool` and `Relay` | |
| `ServerProofs` | theorems about `Front` and `Http1Server` | |
| `HandlerProofs` | theorems about `FlowCapture` and `Intercept` | |
| `WireGuardProofs` | theorems about `WgTunnel` and `UdpFlows` | |

How they meet. `Http1Pool` and `ClientCache` compose with `RequestOnce` by
`INSTANCE` with a refinement mapping: a request is delivered when it has been
handed to a connection, and its outcome is where its sender ended. `Front`
extends `Rules`. The other components meet through the choices their models
leave open, each of which another module explains: what upstream answers and
when a client leaves in `Intercept` (`Http1Pool`, `ClientCache`, `H3Driver`), what
the service decides in `Http1Server` (`Intercept`), when a body ends or fails in
`FlowCapture` (`Relay`), what a tunnel carries in `Front` (`Tunnel`), which events
come in `Console` (`Intercept`, `Tunnel`, `UdpFlows`), how the other four tasks end
in `WgTunnel`.

Abstractions to know when reading: ids and generations do not wrap; heads,
bodies and packets carry only what control depends on; a timeout may fire
whenever its wait is on; one pool key, as entries of two keys share only the
mutex of the map; a peer's endpoint is known or not, as no decision depends on
which it is; a frame dropped because a UDP flow is saturated is not resent. In
`Front` a token is a run of bytes the code never tells apart, an HTTP/2
connection is followed into the stream that carries its CONNECT, and which of a
rule's mapped files exist is a choice. *Reported* means handed to the event channel,
whose `try_send` drops what there is no room for: the loss itself is in `Intercept`,
in `Tunnel` for the chunks of a raw stream, and in `Console` for all events; the other
modules stop at the call. In `Console` the cap on a stream's chunks
(10 000), keys that replay a request and drawing are left out.

## 3. The runs

| run | instance | states | shows |
|---|---|---|---|
| `MCIntercept` | a client flow, a replay, 2 interfaces, channel of 1, scripts on | 69 440 | `PauseIsSafe`, `ClientFlowEndsVisibly`, `EveryPauseEnds` |
| `MCHttp1Pool` | 2 senders, 3 connections, limit 1 | 237 060 | `PoolIsSound`, `NothingStranded`, `ImplementsRequestOnce`, `EverySendEnds` |
| `MCHttp1Server` | 3 requests, pipeline of 2 | 721 797 | `ServesInOrder`, `SilentAfterEnd`, `ConnectionSettles` |
| `MCClientCache` | 3 requests, 2 connections, each of the three caches | 342 670 | `SharingIsSound`, `ImplementsRequestOnce`, `EverySendEnds` |
| `MCRelay` | 75 messages, each to 3 versions (289 with older and closing clients); a channel of 1 | 135 687 | `MessageIsWhole`, `OneFraming`, `EveryMessageSettles` |
| `MCH3Driver` | 2 streams; 3 connections over 2 client ids | 499 987 | `MessagesAreWhole`, `RoutesAreOwn`, `EverythingSettles` |
| `MCFront` | 172 connections over the eight modes | 12 735 | `BytesAreKept`, `KnownIsInspected`, `GoesWhereAsked` |
| `MCTunnel` | 3 units each way (2 from the server of a bridged raw stream), pipes of 2, capture of 2, 5 combinations of sides, any chunk refused | 537 740 | `RelayIsWhole`, `CaptureIsHonest`, `Ends` |
| `MCWgTunnel` | 3 packets each way, channels of 2 | 1 189 500 | `TunnelIsSound`, `StopsTogether` |
| `MCUdpFlows` | 2 keys and 3 flows; a flow and an exchange; an exchange of either proxy | 49 410 | `TableIsSound`, `CompletionIsOwn`, `FlowsSettle` |
| `MCFlowCapture` | 4 bytes each way in frames of 1 or 2, limit 2 | 15 083 | `PassedOnWhole`, `ReportIsFaithful`, `EveryResponseReported` |
| `MCConsole` | 2 flows, channels of 1, 2 rows, each interface | 1 450 964 | `RecordIsFaithful`, `ReplayRebuilds`, `OneRowPerExchange`, `SelectionStays`, `CursorInside`, `FilterIsLatest`, `ShutdownSaves` |

A property named for a component is a conjunction of named parts, each with its
comment in the module: `PauseIsSafe` is the type invariant, `WaiterReachable`,
`HeldUntilDecided`, `TrailOrder` and `NoEntryBehindForwarded`; `PoolIsSound` the type
invariant, `WrittenOnce`, `AnswerIsOwn`, `PoolBounded` and `PermitAccounted`; and so on.

Why the bounds are enough to be of interest. *Intercept:* flows touch each
other only through the channel and through drains, and a channel of one is full
as soon as the other flow, or other traffic, has emitted; two interfaces are
needed for a toggle that races another and for two decisions about one request.
*Pool:* with a limit of one, the second sender has to wait, and is handed a
permit or wakes to a connection that has closed; the third connection is the one
opened after two have gone stale. *Server:* with three requests and a pipeline
of two the reader fills the channel and one request waits outside. *Caches:*
three requests are a user that fails, one still at work on the same client and
one that arrives between; the second connection replaces the first. *Relay:*
line, trailer and size limits are each met exactly and passed by one, and a
channel of one makes every frame wait. *HTTP/3:* the second stream is the one
behind a blocked one; two client ids for three connections force the reuse of
one. *Front:* every branch of the dispatch has a connection that takes it, read
in every division. *Tunnel:* three units exceed a pipe of two, and a capture of
two is passed at, inside and after a read; a refused chunk leaves a hole before or
after what is recorded, or loses the mark. Only the server of a
bridged raw stream stops at the limit, which its copy does not know it is. *WireGuard:* three packets exceed the
channel of two, so both loops block. *UDP flows:* three generations over two keys
make a flow, its successor under the same key and one under the other compete
for a completion channel of one. *Capture:* frames of one and two bytes reach
the limit exactly, pass it by one and pass it in mid-frame. *Console:* two flows
of up to four events overrun every channel, and a third row evicts the first.

`CHECK_DEADLOCK FALSE` where work is counted, connections close and loops end,
and then nothing is left to do; what must not stop there is stated as liveness.
`MCFront` and `MCRelay` name their end and are checked for deadlock.

### Fairness

Assumed is only what the runtime and the code's own timeouts give; nothing of a
user, a client or a server beyond that.

- `Intercept`: a handler that is ready is polled, and the 300 s timer fires
  (`WF` of `Progress` for each flow).
- `Http1Pool`: ready senders and drivers run; connecting, writing and reading a
  head are under timeouts. The two bodies of an exchange are assumed to end: the
  code has no bound there, and `EverySendEnds` would not hold without it.
- `ClientCache`: dials conclude and a peer answers or fails, both under timeouts
  or the connection's own end.
- `Http1Server`: reads and writes are under timeouts, bodies are finite, and the
  service answers in the end, though it may wait for a frame first.
- `Relay`: reader and writer run, and a read that brings nothing times out.
- `H3Driver`: the driver's loop runs; the peer sends its SETTINGS, ends its
  messages and grants credit, or is declared lost by quiche's idle timer, which
  ends the connection in any state; the application uses its bodies up.
- `Tunnel`: the tasks run; each side reads and ends in the end. A tunnel has no
  timeout of its own, so `Ends` would not hold for a client that stays.
- `WgTunnel`: each loop goes on when its channels let it; `serve` is polled.
- `UdpFlows`: `select!` picks among ready arms at random, so an arm that is
  ready again and again is taken: strong fairness for taking completions and
  responses, and for what waits in the fair queue of a full mpsc channel or
  under a timeout of five seconds. Weak fairness for the rest. No flow has to
  end, no datagram to arrive, no custom DNS handler to decide.
- `FlowCapture`: a body in transit is dropped in the end, read or not, and the
  reporting task is polled.
- `Console`: the proxy stops when its token is cancelled, and the 500 ms run out.
- `Front` states safety only.

## 4. The proofs

Every theorem holds for every value of the constants: any number of requests,
connections, flows, packets and bytes, any capacity, any limit.

| module | theorems | property |
|---|---|---|
| `HandlerProofs` | `WaiterReachableHolds`, `HeldUntilDecidedHolds`, `TrailOrderHolds`, `NoEntryBehindForwardedHolds`, and `PauseIsSafeHolds` that joins them | `[]PauseIsSafe` |
| | `ClientFlowEndsVisiblyHolds` | the action property |
| | `PassedOnWholeHolds`, `ReportIsFaithfulHolds` | `[]PassedOnWhole`, `[]ReportIsFaithful` |
| `ExchangeProofs` | `WrittenOnceHolds`, `AnswerIsOwnHolds`, `PoolBoundedHolds`, `PermitAccountedHolds`, and `PoolIsSoundHolds` that joins them | `[]PoolIsSound` |
| | `NothingStrandedHolds` | `[]NothingStranded` |
| | `Refinement` | `ImplementsRequestOnce` |
| | `RelayFrames` | `[]OneFraming` |
| `ClientCacheProofs` | `SharingIsSoundHolds` | `[]SharingIsSound` |
| | `ImplementsRequestOnceHolds` | `ImplementsRequestOnce` |
| `ServerProofs` | `FrontKeepsBytes` | `[]BytesAreKept` |
| | `FrontInspects` | `[]KnownIsInspected` |
| | `FrontGoesWhereAsked` | `[]GoesWhereAsked` |
| | `ServesInOrderHolds` | `[]ServesInOrder` |
| | `SilentAfterEndHolds` | the action property `SilentAfterEnd` |
| `H3DriverProofs` | `MessagesAreWholeHolds`, `RoutesAreOwnHolds` | `[]MessagesAreWhole`, `[]RoutesAreOwn` |
| `WireGuardProofs` | `TunnelIsSoundHolds` | `[]TunnelIsSound` |
| | `TableIsSoundHolds` | `[]TableIsSound` |
| | `CompletionIsOwnHolds` | the action property `CompletionIsOwn` |
| `TunnelProofs` | `RelayIsWholeHolds`, `CaptureIsHonestHolds` | `[]RelayIsWhole`, `[]CaptureIsHonest` |
| `ConsoleProofs` | `RecordIsFaithfulHolds`, `OneRowPerExchangeHolds`, `CursorInsideHolds`, `FilterIsLatestHolds`, `ReplayRebuildsHolds` | the invariants they are named after |
| | `SelectionStaysHolds` | the action property `SelectionStays` |

Each module states its inductive invariant as `IInv` and proves it in `Invariance`
(`InductiveInvariant` in `ExchangeProofs`, where it is about `Http1Pool`; `Relay`, whose
specification is `RelaySpec`, has `RelayInv` and `RelayInvariance`); a property follows
from it. In
`HandlerProofs`, which extends both halves of the handler, those are about
`FlowCapture`; `Intercept`, whose specification is `PauseSpec`, has `PauseInv` and
`PauseInvariance`. In `WireGuardProofs` they are about `UdpFlows`; `WgTunnel`, whose
specification is `WgSpec`, has `WgIInv` and `WgInvariance`; and in `ServerProofs` about
`Http1Server`, while `Front`, whose specification is `FrontSpec`, has `FrontInv` and
`FrontInvariance`. The invariants were first
checked with TLC on the instances of the runs.

*Assumptions.* Only those named in the modules, each one a fact of the code:
capacities and limits are positive, bounds are numbers, replays are flows, names
of actors differ from the words their records use, there are finitely many
connections, a connection's rules have passed `validate`, a head of HTTP/3 or with a
`:protocol` has the `:authority` that `decode_request_head` requires, the sniffer's limit
is no shorter than the HTTP/2 preface, a message is what the sides it comes from let
through (`MessageAssumption`, below), `NoKey` is no address, flow 0 is the imported history, and an id
that the HTTP/3 listener draws at random is none that a client has chosen. Proof
modules add none.

*Intercept.* No property is inductive alone. That `HeldUntilDecided` survives
`Released` needs to know that a handler in `wait` has been announced and that
what its oneshot holds is what was decided; that `WaiterReachable` survives
`DrainForward` needs that whoever leaves the map is sent something. `FlowInv`
gives, for each place a handler can be in, its trail and how its entry, its
oneshot and its verdict stand; `Paused` is the core: undecided and in the map, or
decided and out of it.

*Pool.* `ConnInv` ties the driver's phase, the permit, the queue and the command
in hand together; `CommandInv` says that a command nobody has answered belongs to
a sender that waits or was cancelled, and was not written before its head was;
`SenderInv` says what a sender holds at each place, above all that nothing was
written for one that has not queued its command or is told to retry; `LockInv`
and `CountInv` say that room in the pool, once seen under the connect lock,
lasts until the connection is published. They need each other: `WrittenOnce`
follows from `SenderInv`, which `encode` preserves because of `CommandInv`, which
`queue` preserves because of `ConnInv`. `Refinement` needs the invariant too: a step
that writes is a `Deliver` only because it was not written before. For
`NothingStranded`, `DrainedInv` says that a driver that has ended left its channel
empty, and `AnsweredInv` that an oneshot without a value belongs to a command
some driver still has.

*Relay.* `MessageAssumption` says what reaches the relay: heads are records of
their fields, a CONNECT request becomes a tunnel instead, a stream gives its trailers last, and a
stream with a Content-Length is ended by the h2 crate and by the HTTP/3 driver only
after that many bytes. An HTTP/1 wire may hold anything. `SentHead`: the head sent is the one
prepared for the other side, was validated on the way in and could be written on the way
out. That such a head frames what the encoder does follows from lemmas on each
conversion (`RequestFacts`, `ConnectionFacts`, `FramedFacts`), for either side of a request
and of a response (`RequestAgrees`, `ResponseAgrees`, `MultiplexedAgrees`). `StreamInv` and `LengthInv` are the account of a body
with a Content-Length: what was written, what is queued and what the decoder or the
stream still owes add up to the length announced (`Carries`), until the writer has
failed or the reader was aborted, which `OneFraming` leaves out.

*Client caches.* `LockInv`: the async lock is held exactly during a dial, and
then no open client is cached. `ClientInv` separates the client that is dialled
but not published yet from every other; `RefusedInv` says that what refused a
request first is blamed for good and neither cached nor used by it again, which
is why the retry is a retry elsewhere. The refinement maps a written request to a
delivered one and needs `SentInv`: nothing was sent for a request that may still
be given to another connection.

*Server.* `PipeInv` is the account of the inbound channel: it holds the requests
after the one last taken, in order, then at most one error. `DecisionInv` places
every decision behind its response, `CoordinatorInv` and `EndInv` say where each
task may stop, given where the other is. Order and silence follow from `OutInv`.

*Front.* `EveryByteOnce` is kept by every read because of one lemma about `Reads`:
what a read returns, followed by what is unread after it, is what was unread before,
however the prefixes nest. `HeldBytes` says where nothing is held or put back, without
which a layer that starts anew would drop bytes. `Recognised` carries a verdict of
the sniffer from the read that reached it to the relay: `UnknownStays` says that bytes
given up on are no known protocol whatever follows them, `TlsStays` and
`RequestStays` the same of those recognised, so it does not matter where a read ended.
`Located` knows the authority a stream is inside of, and that a SOCKS5 stream whose
requests are https has TLS upstream. For `GoesWhereAsked`, `AllRules` shows by
induction over the rules that a request which `apply` lets through has the URL of
`Mapped`, met no rule that answers it, and stopped early only at one that may fail.

*Capture.* `BodyInv` states what the prefix, the buffer and the remaining wire
amount to at each stage (`Original`, or exchanged by a hook); `Faithful` compares a
capture with what went out, on both sides of the limit; `RequestInv` orders the two
bodies, and with `EventInv` gives one report at the end. Its lemmas are about
sequences of bytes: concatenation, the beginning of one, the flattened prefix.

*HTTP/3.* No stream reads another, so `StreamsInv` is one invariant, `StreamOk`, of a
single stream. `Inbound` is the account of the peer's message: the chunks it has
sent are those the application has read, those in its channel and those on the
wire, until a reset or a dropped body breaks the sum. `WireOk` orders the frames:
no data comes behind trailers, and nothing behind the end. `HeadFirst` says that before the head of a
response nothing of it has been taken, `LengthKept` that afterwards what is left of the
Content-Length is what the application has not been given; so an end that passes
`check_content_length` is the end of the whole message. `Outbound` is the same
account of the task's chunks. Every operation of the driver on a stream (a frame
that quiche reports, a write, a read, a reset) has a lemma that it keeps `StreamOk`, and
`PollKeeps` joins those of a pass. `RouteInv` says that the listener's table holds
the two ids of every connection not yet joined and nothing else, under different
ids: a client id that is used again gets its route only after the old one is gone.

*UDP.* `GenInv` says generations are used once and in order, `RunningInv` and
`EntryInv` that a flow is working exactly while it is listed, has not finished its
completion, or is being started, `CompletedInv` that only flows that have ended
announce it. The hazard, a completion that arrives after its key has been given
to a newer flow, is excluded by `ListedIsNewest` together with `CompletedInv`.

*WireGuard.* Two equations, for the packets inwards and outwards: what has
arrived is what the stack has, what the loop holds between two awaits, what is
in the channel and what the other loop holds, in this order. `ServeInv` gives the
error its cause.

*Tunnel.* `CaptureInv` ties a copy's counters to the length of the stream, and the
units its chunks cover to them (`Accounted`): `captured` is `total` up to the limit,
`emitted` says that the limit is passed, and since both advance with refused chunks too
(`BeginningGrows`, `CopiedFacts`), the next chunk starts where the last one ended, and no
second mark is sent. `Whole` is the account of one direction of a byte stream nobody has
reset: what was sent is in one of its pipes or has arrived (`Amount`), a mover
has stopped only at the end of an empty pipe, an end is passed on only by a mover
that has stopped, and only such a mover leaves what it read from. So no running mover meets an error or
a closed sink, which leaves `ReceiveFails`, `TransmitFails`, `SendStops` and the
error of a copy to connections that were reset. `RelayIsWhole` goes back along
the ends, pipe by pipe, from the receiver to the sender. It covers raw streams
over the server's bridge too, which the run leaves out.

*Console.* Events of a flow climb in rank, and rows have a stage on the same
scale. `OrderInv`: along core channel, fan-out and interface channel the events
of each flow are in order, and none is beyond what its flow has emitted.
`RowsInv`: every row is behind every event of its flow still to come; hence a row
is promoted once and `OneRowPerExchange` survives. `RecordInv`: whatever a row shows,
and whatever event has passed the recorder, the session has. It survives
`FanRecord` because an event recorded later never replaces an entry that is ahead
of it. `EditInv` keeps the cursor in the text through every key, for lines and
texts of every length. `ReplayRebuilds` needs `SessionInv`: the entries of a kind are
of that kind and of different flows. The recorder adds a TCP tunnel or a DNS query
without looking for one, so that rests on the order of the events: once a flow has begun,
no event that begins it is on its way or still to be emitted. Then `ReplayEntry`
says what the events of an entry add to a session without it, `ReplayKind`, by induction,
what those of a list of entries do, and `ReplaySession` joins the five kinds.

*Only model-checked.* All liveness (fairness and `ENABLED` are beyond the prover), and
`MessageIsWhole`: of what it says, the account above proves the length of counted
bodies only. Its data needs an account of every byte, and for a chunked body an
induction over its text (`ReadChunked`). The library's induction
theorems take an operator, which the provers cannot instantiate; where an induction
over data was needed (`AllRules`, `ReplayKind`, and what a fold or a recursive function
computes), it goes through the least element that fails, `LeastNatural` from `WFMin`.
No module that is proved about uses a recursive operator; and since no prover knows
that a string literal is in `STRING`, the types of the proofs name such literals in sets.

## 5. Where the code and its documents differ, and what the code does not promise

Met while modelling. The models do what the code does; a property that would
fail is stated without the case named here, and its comment says so.

*Intercept and capture*

- A handler that times out, or whose connection is reset while it waits, leaves
  its sender in the map, and `pending_count` counts it, though `intercept.rs:109`
  speaks of "requests currently awaiting a UI decision".
- A handler reads the flag and registers later; a toggle and its whole drain fit
  in between, so the request is held with intercept off, against the comment at
  `intercept.rs:69`. `EveryPauseEnds`: the timer lets it go.
- A held replay that times out ends without an event (`handler.rs:715`), though
  `CHANGELOG.md:161` promises visible events.
- `raw.rs:77` hands a chunk to the event channel with `try_send`, and lines 86 and
  87 advance `captured` and `emitted_truncation` whether it was taken or not. When the
  channel is full the recording of a raw stream gets a hole that nothing marks, or
  loses the only mark that it was cut. `CaptureIsHonest` says so: the recording is the
  beginning less the refused chunks, and one mark is sent or refused.
- A streamed body that fails midway is recorded with `truncated` false
  (`body.rs:115`), though `session-format.md:19` says that a prefix is never
  presented as complete.

*HTTP messages*

- When an early response stops the coordinator, it aborts the reader
  (`connection.rs:178`), whose body sender is dropped without an error: a chunked
  or HTTP/2 upload is then ended upstream as if it were complete. `MessageIsWhole`
  leaves out this fault, `abort`, alone.
- A script that replaces a response body that was not decoded leaves its old
  Content-Length. HTTP/1 frames the body anew; HTTP/2 and HTTP/3 send the field
  as is. Requests are reconciled (`handler.rs:1228`). `OneFraming` leaves it out.
- Two equal Content-Length fields are accepted on HTTP/1 and passed on over
  HTTP/2 and HTTP/3, where the project's own receiver rejects them.
- Fields a response's Connection names are not removed from HTTP/1 to HTTP/1. An
  HTTP/2 GET without a body becomes chunked on HTTP/1. Trailers for an HTTP/1.0
  client fail the connection after all data was written.
- A chunk line of exactly the limit is refused when the read ends at its CR
  (`framing.rs:280`) and accepted when its LF has arrived too (288).
- A client driver whose upload fails to be written goes on waiting for a head.

*Tunnels, fronts and routing*

- `raw::tunnel` does not tell upstream that its client failed; an HTTP/2 client's
  reset reaches upstream as a clean end of file. The WebSocket relay reads neither
  side while it sends. A failed upgrade leaves `WebSocketConnected` without
  `WebSocketClosed`.
- Plain HTTP inside a CONNECT is inspected according to `forward.md:19`, but not
  when its request line is longer than the sniffed prefix; and a protocol in which the server
  speaks first waits ten seconds and is closed.
- Inside SOCKS5, a nested CONNECT's raw bytes go to its own target, and
  decrypted requests over the pinned plaintext connection; `GoesWhereAsked`
  leaves this out. Raw CONNECT tunnels, captured streams and WireGuard's HTTP/3
  bypass the upstream proxy that `mod.rs:177` says all upstream requests use.
- An absolute `https://` request on a plain connection is sent in clear. A request for
  the proxy's own address loops. Captured HTTP goes to its Host.
- Rules see a reverse proxy's URL before it is rewritten, so for HTTP/1 only
  prefixes of paths match and `map_remote` changes only the path; in SOCKS5 and
  in WireGuard's HTTP/3 it does not change the destination. A rule that fails
  lets the request go on as rewritten so far.
- The forward proxy looks for an Upgrade before the handler, the reverse proxy
  after. A reverse https proxy with HTTP/3 refuses an upstream proxy. When its
  HTTP/3 listener ends, so does the whole proxy; a failed accept is passed over.

*HTTP/3, UDP, DNS, WireGuard*

- An extended CONNECT that waits for SETTINGS blocks every later request, also
  when its caller has gone. STOP_SENDING makes the client driver reset a stream
  before it reads the response already buffered.
- With both packet channels full, `wireguard_loop` and `stack_bridge` wait for
  each other inside their `select!` arms (`wireguard.rs:413`, 343) for ever: no task
  has ended and nothing is relayed. Only a shutdown gets out, by aborting them
  (`StopsTogether`); `MCWgTunnel` includes that state.
- A DNS query that cannot be forwarded leaves `DnsQuery` without `DnsResponse`; a
  UDP exchange that cannot bind, connect or send has no event. A receive error
  ends the listener; its exchanges outlive it and still answer.

*Recorder, interfaces, scripts*

- A held request that becomes a WebSocket leaves its pending row in the TUI: only
  `RequestComplete` promotes it. Under a filter the selection can move when a
  matching row is evicted or promoted; `SelectionStays` speaks of an unfiltered
  list.
- The page loses events that come between its load of the session and its
  subscription, may show one twice, and does not load again when it reconnects
  or lags. `api_set_intercept` does not broadcast; the socket's message sets the
  flag and broadcasts in two steps, so two pages can end up disagreeing.
- `reload` reads a script before it takes its signature (`scripting.rs:128`): an edit in
  between is not loaded until the next one.

## 6. What is not modelled

`PROJECT.json` lists every part with its reason. In short: Lua conversions,
filters, content views, certificates, exports, imports and file formats are pure
functions of one value or I/O, under unit tests; drawing, themes and option
parsing have no state that outlives a call. Within the modelled parts: the
characters of heads, frames and packets; the libraries (h2, quiche, boringtun,
the userspace stack), which appear as the choices they leave the code; script
hooks on WebSocket frames; bodies of replays in `FlowCapture`; the upload race of
the HTTP/2 `serve_stream`; connection-level timeouts of `Http1Server`, which are
the choice `fault`; what a page or a key asks of a replay.

## 7. What is left

The modules of the plan are written, and every safety property the runs check is proved
but `MessageIsWhole`. What that needs is an account of the tokens of a chunked
body through decoder, channel and encoder, beside the one of counted bodies that
`RelayInv` has: that a size line written by `put_hex` is read back by
`parse_chunk_line`, and that the first CRLF of what was written is the one that ends
the line.
