------------------------------- MODULE Front -------------------------------
(***************************************************************************)
(* What happens to one accepted connection before a protocol server owns   *)
(* it: the SOCKS5 greeting and its upstream connection, the sniffing of     *)
(* the first bytes, TLS termination, the requests of an HTTP connection,   *)
(* the routing rules and the place each is sent to, CONNECT and what runs   *)
(* inside it; and the start of the listener that accepts it.                *)
(*                                                                         *)
(* The client's bytes are a sequence of tokens, each a run of bytes the    *)
(* code never tells apart; they are read in any pieces.  A request head's   *)
(* fields come from `heads', in the order the heads are parsed.            *)
(***************************************************************************)
EXTENDS Rules, FiniteSets

CONSTANTS
  Setups,        \* connections: [mode, bytes, heads, rules, dest, target, chain, auth,
                 \*               up, custom, http3]
  MaxPrefix,     \* MAX_PROTOCOL_PREFIX, in tokens
  MaxHead        \* MAX_CONNECT_RESPONSE_HEAD, in tokens

\* A reverse proxy's mode is its target's scheme: http, https, another one, or
\* HTTP/3 beside or instead of https; the last two serve HTTP/3 connections.
Modes == {"forward", "reverse", "reversetls", "reverseother", "socks", "captured",
          "reverseh3", "wireguardh3"}

\* A request of HTTP/3, and an extended CONNECT, has its :authority.
Heads == [method : STRING, uri : STRING, host : STRING, path : Seq(STRING), headers : SUBSET STRING]

HasItsAuthority(s, h) ==
  s.mode \in {"reverseh3", "wireguardh3"} \/ ":protocol" \in h.headers => h.uri # "none"

ASSUME SetupAssumption == \A s \in Setups :
  /\ s.mode \in Modes /\ {s.bytes, s.up} \subseteq Seq(STRING)
  /\ s.heads \in Seq(Heads) /\ \A i \in DOMAIN s.heads : HasItsAuthority(s, s.heads[i])
  /\ s.chain \in {"direct", "http", "socks5"} /\ {s.dest, s.target} \subseteq STRING
  /\ AreRules(s.rules) /\ validate(s.rules)

\* The sniffer's limit leaves room for the longest thing it looks for.
ASSUME PrefixAssumption == MaxPrefix \in Nat /\ MaxPrefix >= 6
ASSUME HeadAssumption == MaxHead \in Nat \ {0}

VARIABLES
  conn,      \* the setup of this connection
  pc,        \* start listen greet dial sniff uptls tls h1 h2 h3 raw relay websocket closed
  then,      \* who asked for the sniff: plain connect h2connect captured socks pinned
  net,       \* the client's bytes not read yet
  pre,       \* the Rewind wrappers' prefixes, outermost first
  buf,       \* bytes the sniffer or the HTTP server holds
  taken,     \* history: the bytes consumed, each with its consumer
  served,         \* heads parsed
  scheme,    \* of the requests served now
  dest,      \* the authority of the innermost CONNECT, or the original one
  up,        \* the upstream connection SOCKS5 opens
  pooled,    \* the HTTP/2 service may serve nested HTTP/2 (native_pool is Some)
  told,      \* history: what the client was answered
  log        \* history: what went to which upstream

frontVars == <<conn, pc, then, net, pre, buf, taken, served, scheme, dest, up, pooled, told, log>>
stream == <<net, pre, buf, taken>>
place == <<served, scheme, dest, up, pooled>>
seen == <<told, log>>

-----------------------------------------------------------------------------
(* What the bytes look like. *)

Preface == <<"PRI", "sp", "*", "sp", "HTTP/2", "SM">>
Letters == {"GE", "T", "CONN", "ECT", "PRI", "*", "SSH"}   \* HTTP token bytes

is_tls_handshake(b) == IsPrefix(<<"16", "03">>, b)
is_partial_tls_handshake(b) == b = <<"16">>
is_h2_preface(b) == IsPrefix(Preface, b)

\* The bytes up to the first space, when there is one and they are a method.
HasMethod(b) == \E i \in 2 .. Len(b) :
  b[i] = "sp" /\ \A j \in 1 .. i - 1 : b[j] \in Letters
Spaces(b) == {i \in 1 .. Len(b) : b[i] = "sp"}

\* A method, and the version after the second space.
is_http1_request(b) ==
  /\ HasMethod(b)
  /\ \E first, second \in Spaces(b) :
       /\ first < second /\ \A i \in Spaces(b) : i <= second => i \in {first, second}
       /\ IsPrefix(<<"HTTP/1", ".1">>, SubSeq(b, second + 1, Len(b)))

could_be_http1_request(b) ==
  HasMethod(b) /\ (Cardinality(Spaces(b)) = 1 \/ is_http1_request(b))

BugCouldBeKnown(b) == is_partial_tls_handshake(b) \/ could_be_http1_request(b)

could_be_known_protocol(b) ==
  is_partial_tls_handshake(b) \/ IsPrefix(b, Preface) \/ could_be_http1_request(b)

Classify(b) ==
  IF is_tls_handshake(b) THEN "tls"
  ELSE IF is_h2_preface(b) \/ is_http1_request(b) THEN "http"
  ELSE "unknown"

-----------------------------------------------------------------------------
(* Reading: a wrapper serves its own prefix before what it wraps. *)

Take(k, s) == SubSeq(s, 1, k)
Skip(k, s) == SubSeq(s, k + 1, Len(s))

\* A read of at most `room' bytes, from prefixes p and the transport t.
Reads(p, t, room) ==
  LET full == {i \in DOMAIN p : p[i] # <<>>}
  IN IF full # {}
     THEN LET i == CHOOSE i \in full : \A j \in full : i <= j
              k == IF Len(p[i]) < room THEN Len(p[i]) ELSE room
          IN {[got |-> Take(k, p[i]), p |-> <<Skip(k, p[i])>> \o Skip(i, p), t |-> t]}
     ELSE {[got |-> Take(k, t), p |-> <<>>, t |-> Skip(k, t)] :
             k \in {k \in 1 .. Len(t) : k <= room}}

BugRewind(p, b) == IF p = <<>> THEN <<b>> ELSE p

Rewind(p, b) == <<b>> \o p

Unread(p, t) == FlattenSeq(p) \o t
AtEof == Unread(pre, net) = <<>>

By(who, s) == [i \in DOMAIN s |-> [by |-> who, byte |-> s[i]]]

-----------------------------------------------------------------------------
(* The start of each mode. *)

UpInit(s) == [net |-> s.up, pre |-> <<>>, buf |-> <<>>, read |-> <<>>, step |-> 1,
              state |-> "none", tls |-> FALSE]

\* A custom handler brings its own rules, to a forward proxy only.
HandlerRefuses(s) == s.custom /\ (s.mode # "forward" \/ s.rules # <<>>)

\* HTTP/3 is compiled in or not, and cannot go through an upstream proxy.
PlanRefuses(s) ==
  \/ s.mode = "reverseother"
  \/ s.mode \in {"reversetls", "reverseh3"} /\ s.http3 /\ s.chain # "direct"
  \/ s.mode = "reverseh3" /\ ~s.http3

FrontInit ==
  /\ conn \in Setups /\ pc = "start" /\ then = "plain"
  /\ net = conn.bytes /\ pre = <<>> /\ buf = <<>> /\ taken = <<>>
  /\ served = 0 /\ scheme = "http" /\ dest = conn.dest /\ up = UpInit(conn)
  /\ pooled = FALSE /\ told = <<>> /\ log = <<>>

Close == pc' = "closed" /\ UNCHANGED <<conn, then, place, seen, stream>>

\* The listener is bound, unless the configuration is one that cannot run.
Start ==
  /\ pc = "start"
  /\ pc' = IF HandlerRefuses(conn) \/ PlanRefuses(conn) THEN "closed" ELSE "listen"
  /\ UNCHANGED <<conn, then, stream, place, seen>>

\* The accept loop hands the connection to its mode's handler; a failed accept
\* changes nothing.
Accept ==
  /\ pc = "listen" /\ conn.mode # "captured"
  /\ pc' = CASE conn.mode = "socks" -> "greet"
             [] conn.mode = "reversetls" -> "tls"
             [] conn.mode \in {"reverseh3", "wireguardh3"} -> "h3"
             [] OTHER -> "sniff"
  /\ scheme' = IF pc' = "h3" THEN "https" ELSE "http"
  /\ then' = IF conn.mode = "socks" THEN "socks" ELSE "plain"
  /\ UNCHANGED <<conn, stream, served, dest, up, pooled, seen>>

\* tcp_loop of the WireGuard endpoint: the destination is the original one.
AcceptCaptured ==
  /\ pc = "listen" /\ conn.mode = "captured"
  /\ pc' = "sniff" /\ then' = "captured"
  /\ UNCHANGED <<conn, stream, place, seen>>

\* Shutdown, or the end of the HTTP/3 server beside the TCP listener, ends the
\* accept loop; a connection that was accepted goes on.
StopListening == pc = "listen" /\ Close

-----------------------------------------------------------------------------
(* SOCKS5: the greeting, the connection to the target, the reply. *)

\* accept_connect: exact reads, so nothing is read past the request.
AcceptConnect ==
  /\ pc = "greet" /\ net # <<>>
  /\ net' = Tail(net) /\ taken' = taken \o By("socks", <<Head(net)>>)
  /\ CASE Head(net) = "hello" -> pc' = pc /\ told' = Append(told, "method")
       [] Head(net) = "connect" -> pc' = "dial" /\ UNCHANGED told
       [] OTHER -> pc' = "closed" /\ told' = Append(told, "refused")
  /\ UNCHANGED <<conn, then, pre, buf, place, log>>

\* OutboundConnector::call reaches the target itself or the upstream proxy.
Dial ==
  /\ pc = "dial" /\ up.state = "none"
  /\ \E state \in {IF conn.chain = "direct" THEN "open" ELSE conn.chain, "failed"} :
       up' = [up EXCEPT !.state = state]
  /\ UNCHANGED <<conn, pc, then, stream, served, scheme, dest, pooled, seen>>

validate_connect_response(head) == head[1] = "200"

\* connect_http_proxy: read until the head is whole, keep what follows it.
ReadProxyHead ==
  /\ pc = "dial" /\ up.state = "http"
  /\ IF Len(up.buf) >= MaxHead \/ up.net = <<>>
     THEN up' = [up EXCEPT !.state = "failed"]
     ELSE \E k \in 1 .. Len(up.net) :
            LET got == up.buf \o Take(k, up.net)
            IN IF ~Contains(got, "end")
               THEN up' = [up EXCEPT !.buf = got, !.net = Skip(k, @)]
               ELSE LET end == CHOOSE i \in DOMAIN got :
                                 got[i] = "end" /\ \A j \in 1 .. i - 1 : got[j] # "end"
                    IN up' = [up EXCEPT
                         !.read = Take(end, got), !.buf = <<>>, !.net = Skip(k, @),
                         !.pre = <<Skip(end, got)>>,
                         !.state = IF validate_connect_response(got) THEN "open" ELSE "failed"]
  /\ UNCHANGED <<conn, pc, then, stream, served, scheme, dest, pooled, seen>>

\* connect_socks5_proxy, authenticate_socks5: method, credentials, reply.
Accepts(step) ==
  CASE step = 1 -> {"none"} \union (IF conn.auth THEN {"password"} ELSE {})
    [] step = 2 -> {"granted"}
    [] OTHER -> {"succeeded"}

ReadProxyReply ==
  /\ pc = "dial" /\ up.state = "socks5"
  /\ IF up.net = <<>> \/ Head(up.net) \notin Accepts(up.step)
     THEN up' = [up EXCEPT !.state = "failed"]
     ELSE up' = [up EXCEPT
            !.net = Tail(@), !.read = Append(@, Head(up.net)),
            !.step = IF Head(up.net) = "none" THEN 3 ELSE @ + 1,
            !.state = IF up.step = 3 THEN "open" ELSE @]
  /\ UNCHANGED <<conn, pc, then, stream, served, scheme, dest, pooled, seen>>

ReplyConnected ==
  /\ pc = "dial" /\ up.state = "open"
  /\ pc' = "sniff" /\ told' = Append(told, "connected")
  /\ UNCHANGED <<conn, then, stream, place, log>>

ReplyFailed ==
  /\ pc = "dial" /\ up.state = "failed"
  /\ pc' = "closed" /\ told' = Append(told, "unreachable")
  /\ UNCHANGED <<conn, then, stream, place, log>>

-----------------------------------------------------------------------------
(* The sniff: reads until the bytes are known, and puts them back. *)

Web(b) == IF is_h2_preface(b) THEN "h2" ELSE "h1"

Inspected(protocol, b) ==
  CASE protocol = "unknown" -> "raw" [] protocol = "tls" -> "tls" [] OTHER -> Web(b)

\* Nested HTTP/2 needs the shared pool.
InsideH2(protocol, b) ==
  IF protocol = "http" /\ Web(b) = "h2" /\ ~pooled THEN "closed" ELSE Inspected(protocol, b)

\* SOCKS5 speaks TLS to the target first; what is HTTP is sniffed once more.
AfterSocks(protocol) ==
  CASE protocol = "unknown" -> "raw" [] protocol = "tls" -> "uptls" [] OTHER -> "sniff"

NextService(protocol, b) ==
  CASE then \in {"plain", "pinned"} -> Web(b)
    [] then = "socks" -> AfterSocks(protocol)
    [] then = "h2connect" -> InsideH2(protocol, b)
    [] OTHER -> Inspected(protocol, b)

\* The HTTP/2 service of a forward connection, and those nested in one.
SharesPool == then = "h2connect" \/ (then = "plain" /\ conn.mode = "forward")

Detected(protocol, b, p) ==
  /\ pc' = NextService(protocol, b)
  /\ then' = IF pc' = "sniff" THEN "pinned" ELSE then
  /\ pooled' = IF pc' = "h2" THEN SharesPool ELSE pooled
  /\ pre' = Rewind(p, b) /\ buf' = <<>>

Sniff ==
  /\ pc = "sniff"
  /\ \E r \in Reads(pre, net, MaxPrefix - Len(buf)) :
       LET b == buf \o r.got
       IN /\ net' = r.t
          /\ IF Classify(b) = "unknown" /\ Len(b) < MaxPrefix /\ could_be_known_protocol(b)
             THEN buf' = b /\ pre' = r.p /\ UNCHANGED <<pc, then, pooled>>
             ELSE Detected(Classify(b), b, r.p)
  /\ UNCHANGED <<conn, taken, served, scheme, dest, up, seen>>

SniffEof ==
  /\ pc = "sniff" /\ AtEof
  /\ Detected(Classify(buf), buf, pre)
  /\ UNCHANGED <<conn, net, taken, served, scheme, dest, up, seen>>

\* No byte for PROTOCOL_SNIFF_TIMEOUT.
SniffTimesOut == pc = "sniff" /\ FlattenSeq(pre) = <<>> /\ Close

-----------------------------------------------------------------------------
(* TLS: towards the target first for SOCKS5, then the client's handshake. *)

UpstreamTls ==
  /\ pc = "uptls"
  /\ \/ Close
     \/ /\ pc' = "tls" /\ up' = [up EXCEPT !.tls = TRUE]
        /\ UNCHANGED <<conn, then, stream, served, scheme, dest, pooled, seen>>

Handshakes == {<<"16", "03", "alpn1">>, <<"16", "03", "alpn2">>}

\* The acceptor owns the bytes from here; what follows them is the decrypted
\* stream, in the same order.
AcceptTls ==
  /\ pc = "tls" /\ Len(Unread(pre, net)) >= 3
  /\ LET all == Unread(pre, net)
         h == Take(3, all)
         h2 == h[3] = "alpn2"
     IN IF h \notin Handshakes
        THEN Close
        ELSE /\ net' = Skip(3, all) /\ pre' = <<>> /\ taken' = taken \o By("tls", h)
             /\ scheme' = "https"
             /\ CASE then = "socks" -> pc' = "sniff" /\ then' = "pinned" /\ UNCHANGED pooled
                  [] then = "h2connect" /\ h2 /\ ~pooled ->
                       pc' = "closed" /\ UNCHANGED <<then, pooled>>
                  [] OTHER -> /\ pc' = IF h2 THEN "h2" ELSE "h1"
                              /\ pooled' = (h2 /\ then = "h2connect")
                              /\ UNCHANGED then
             /\ UNCHANGED <<conn, buf, served, dest, up, seen>>


-----------------------------------------------------------------------------
(* The requests of an HTTP connection and where each is sent. *)

InReverse == conn.mode \in {"reverse", "reversetls", "reverseh3"}
InSocks == conn.mode = "socks"
InH3 == conn.mode \in {"reverseh3", "wireguardh3"}
IsConnect(t) == t = "200"

\* is_direct_cert_protocol_request, is_cert_protocol_request: a request for the
\* proxy itself or for its own host name.
OwnPage(h) ==
  \/ h.uri = "none" /\ h.host \in {"none", "self"}
  \/ h.uri = "proxel.ar" \/ h.host = "proxel.ar"

\* The request line's URL, and the one the forward services complete it to.
Url(h) ==
  IF h.method = "CONNECT" /\ ":protocol" \notin h.headers THEN <<"connect", h.uri>>
  ELSE (IF h.uri = "none" THEN <<>> ELSE <<scheme, h.uri>>) \o h.path
reconstruct_protocol_uri(h) == <<scheme, IF h.uri # "none" THEN h.uri ELSE h.host>> \o h.path

\* rewrite_uri fails for the bare authority of CONNECT.
Rewritable(url) == url[1] # "connect"
rewrite_uri(url) ==
  <<IF conn.mode = "reverse" THEN "http" ELSE "https", conn.target>> \o PathOf(url)

\* handle_request: a rule, a hook or the user answers the request or lets it
\* pass; a rule that fails lets pass what the earlier ones made of it.
handle_request(h, url) ==
  LET request == [method |-> h.method, url |-> url, headers |-> h.headers \ {":protocol"},
                  outcome |-> "forward"]
      ruled == {IF r.outcome = "error" THEN [r EXCEPT !.outcome = "forward"] ELSE r :
                  r \in apply(conn.rules, request)}
  IN ruled \union {[r EXCEPT !.outcome = "handler"] : r \in ruled}

Connects == Cardinality({i \in DOMAIN told : IsConnect(told[i])})

\* Where an upstream connection was fixed before any request came.
IsPinned == InSocks \/ conn.mode = "wireguardh3"
UpstreamTlsFor(url) == IF InSocks THEN up.tls ELSE InH3 \/ url[1] = "https"
Via == IF InH3 THEN "direct" ELSE conn.chain

BugUpstream(url) ==
  [what |-> "request", head |-> served + 1, inside |-> scheme, connects |-> Connects,
   to |-> url[2], tls |-> UpstreamTlsFor(url), via |-> Via]

\* NativeUpstream::send, ReverseH3Upstream::send: the shared pool and the reverse
\* target go by the URL, a pinned connection has its destination.
Upstream(url) ==
  [what |-> "request", head |-> served + 1, inside |-> scheme, connects |-> Connects,
   to |-> IF IsPinned THEN conn.dest ELSE url[2], tls |-> UpstreamTlsFor(url), via |-> Via]

Answer(what) == told' = Append(told, what) /\ UNCHANGED <<pc, then, pre, scheme, dest>>
AnswerOnly(what) == Answer(what) /\ UNCHANGED log

\* The stream becomes a WebSocket.
Upgrade(what) ==
  /\ pc' = "websocket" /\ told' = Append(told, what)
  /\ UNCHANGED <<pre, then, scheme, dest>>

\* The request goes upstream, and its answer or a 502 comes back.
Exchange(url, upgrade) ==
  \/ AnswerOnly("502")
  \/ /\ HasAuthority(url) \/ InSocks
     /\ log' = Append(log, Upstream(url))
     /\ Answer("502") \/ Answer("response") \/ (upgrade /\ Upgrade("101"))

\* The tunnel's first bytes are sniffed next; `rest' is what was read past the head.
Tunnel(h, caller, rest) ==
  /\ h.uri # "none"
  /\ pc' = "sniff" /\ then' = caller
  /\ pre' = Rewind(pre, rest)
  /\ scheme' = "http" /\ dest' = h.uri
  /\ told' = Append(told, "200") /\ UNCHANGED log

IsWebSocket(headers) == "upgrade" \in headers
is_extended_websocket(h) == h.method = "CONNECT" /\ ":protocol" \in h.headers

\* handle_extended_websocket, with the URL rewritten for a reverse target.
ExtendedWebSocket(h) ==
  \E r \in handle_request(h, Url(h)) :
    IF r.outcome # "forward" THEN AnswerOnly(r.outcome)
    ELSE IF "version" \notin r.headers THEN AnswerOnly("400")
    ELSE IF InReverse /\ ~Rewritable(r.url) THEN AnswerOnly("502")
    ELSE Exchange(IF InReverse THEN rewrite_uri(r.url) ELSE r.url, TRUE)

\* A request to any host, its URL completed first.
ForwardRequest(h, upgrade) ==
  \E r \in handle_request(h, reconstruct_protocol_uri(h)) :
    IF r.outcome # "forward" THEN AnswerOnly(r.outcome) ELSE Exchange(r.url, upgrade)

\* ForwardHttp1Service::call: the Upgrade is looked for before the handler runs.
ForwardHttp1(h, rest) ==
  \/ OwnPage(h) /\ AnswerOnly("page") /\ buf' = rest
  \/ ~OwnPage(h) /\ h.method = "CONNECT" /\ Tunnel(h, "connect", rest) /\ buf' = <<>>
  \/ /\ ~OwnPage(h) /\ h.method # "CONNECT" /\ buf' = rest
     /\ ForwardRequest(h, IsWebSocket(h.headers))

\* ForwardH2Service::handle
ForwardH2(h, rest) ==
  \/ OwnPage(h) /\ AnswerOnly("page") /\ buf' = rest
  \/ ~OwnPage(h) /\ is_extended_websocket(h) /\ ExtendedWebSocket(h) /\ buf' = rest
  \/ /\ ~OwnPage(h) /\ h.method = "CONNECT" /\ ~is_extended_websocket(h)
     /\ Tunnel(h, "h2connect", rest) /\ buf' = <<>>
  \/ ~OwnPage(h) /\ h.method # "CONNECT" /\ ForwardRequest(h, FALSE) /\ buf' = rest

\* A request for the one target: the rules see the URL the client sent.
ReverseRequest(h, Upgrades(_)) ==
  \E r \in handle_request(h, Url(h)) :
    IF r.outcome # "forward" THEN AnswerOnly(r.outcome)
    ELSE IF ~Rewritable(r.url) THEN AnswerOnly("502")
    ELSE Exchange(rewrite_uri(r.url), Upgrades(r.headers))

\* ReverseHttp1Service::call: the Upgrade is looked for after the handler.
ReverseHttp1(h, rest) == buf' = rest /\ ReverseRequest(h, IsWebSocket)

\* ReverseH2Service::call
ReverseH2(h, rest) ==
  /\ buf' = rest
  /\ IF is_extended_websocket(h) THEN ExtendedWebSocket(h)
     ELSE ReverseRequest(h, LAMBDA headers : FALSE)

\* ReverseH3Service::call: a URL that cannot be rewritten fails the stream.
ReverseH3(h) ==
  \/ is_extended_websocket(h) /\ ExtendedWebSocket(h)
  \/ /\ ~is_extended_websocket(h)
     /\ \E r \in handle_request(h, Url(h)) :
          IF r.outcome # "forward" THEN AnswerOnly(r.outcome)
          ELSE IF ~Rewritable(r.url) THEN AnswerOnly("reset")
          ELSE Exchange(rewrite_uri(r.url), FALSE)

\* WireGuardH3Service::call: one client for each authority, all to the original
\* destination.
WireGuardH3(h) ==
  \/ is_extended_websocket(h) /\ ExtendedWebSocket(h)
  \/ /\ ~is_extended_websocket(h)
     /\ \E r \in handle_request(h, Url(h)) :
          IF r.outcome # "forward" THEN AnswerOnly(r.outcome)
          ELSE IF ~HasAuthority(r.url) THEN AnswerOnly("400")
          ELSE Exchange(r.url, FALSE)

Call(h, rest) ==
  CASE InReverse -> IF pc = "h2" THEN ReverseH2(h, rest) ELSE ReverseHttp1(h, rest)
    [] OTHER -> IF pc = "h2" THEN ForwardH2(h, rest) ELSE ForwardHttp1(h, rest)

\* The head or the connection preface at the start of the server's buffer.
HeadLength ==
  IF pc = "h2" THEN IF is_h2_preface(buf) THEN Len(Preface) ELSE 1
  ELSE CHOOSE i \in DOMAIN buf : buf[i] = "end" /\ \A j \in 1 .. i - 1 : buf[j] # "end"

HeadArrived == IF pc = "h2" THEN is_h2_preface(buf) \/ (buf # <<>> /\ Head(buf) = "rq")
               ELSE Contains(buf, "end")

ServeHead ==
  /\ pc \in {"h1", "h2"} /\ HeadArrived
  /\ LET head == Take(HeadLength, buf)
         rest == Skip(HeadLength, buf)
     IN /\ taken' = taken \o By(pc, head)
        /\ IF is_h2_preface(head)
           THEN buf' = rest /\ UNCHANGED <<pc, then, pre, served, scheme, dest, seen>>
           ELSE /\ served < Len(conn.heads)
                /\ pc = "h2" \/ is_http1_request(head)
                /\ served' = served + 1 /\ Call(conn.heads[served + 1], rest)
  /\ UNCHANGED <<conn, net, up, pooled>>

ReadMore ==
  /\ pc \in {"h1", "h2"} /\ ~HeadArrived
  /\ \E r \in Reads(pre, net, Len(conn.bytes)) : net' = r.t /\ pre' = r.p /\ buf' = buf \o r.got
  /\ UNCHANGED <<conn, pc, then, taken, place, seen>>

\* The HTTP/3 driver hands over one stream's request after the other.
ServeStream ==
  /\ pc = "h3" /\ served < Len(conn.heads)
  /\ served' = served + 1
  /\ LET h == conn.heads[served + 1] IN IF InReverse THEN ReverseH3(h) ELSE WireGuardH3(h)
  /\ UNCHANGED <<conn, net, buf, taken, up, pooled>>

-----------------------------------------------------------------------------
(* Bytes of no known protocol, and a WebSocket after its upgrade. *)

\* handle_tunnel, then the connection the raw tunnel relays to; SOCKS5 has it
\* already.
OpenTunnel ==
  /\ pc = "raw"
  /\ \/ Close
     \/ /\ pc' = "relay"
        /\ log' = Append(log, [what |-> "raw", head |-> served, inside |-> scheme, to |-> dest,
                               connects |-> Connects, tls |-> FALSE,
                               via |-> IF then = "socks" THEN conn.chain ELSE "direct"])
        /\ UNCHANGED <<conn, then, stream, place, told>>

Relay ==
  /\ pc \in {"relay", "websocket"}
  /\ \E r \in Reads(IF buf = <<>> THEN pre ELSE Rewind(pre, buf), net, Len(conn.bytes)) :
       net' = r.t /\ pre' = r.p /\ buf' = <<>> /\ taken' = taken \o By(pc, r.got)
  /\ UNCHANGED <<conn, pc, then, place, seen>>

\* The client goes away, or a read or a handshake fails.
Disconnect == pc \notin {"start", "listen", "closed"} /\ Close

Done == pc = "closed" /\ UNCHANGED frontVars

FrontNext ==
  \/ Start \/ Accept \/ AcceptCaptured \/ StopListening
  \/ AcceptConnect \/ Dial \/ ReadProxyHead \/ ReadProxyReply \/ ReplyConnected \/ ReplyFailed
  \/ Sniff \/ SniffEof \/ SniffTimesOut \/ UpstreamTls \/ AcceptTls
  \/ ServeHead \/ ReadMore \/ ServeStream \/ OpenTunnel \/ Relay \/ Disconnect \/ Done

FrontSpec == FrontInit /\ [][FrontNext]_frontVars

-----------------------------------------------------------------------------
Bytes(s) == [i \in DOMAIN s |-> s[i].byte]

FrontTypeOK ==
  /\ conn \in Setups
  /\ pc \in {"start", "listen", "greet", "dial", "sniff", "uptls", "tls", "h1", "h2", "h3", "raw", "relay",
             "websocket", "closed"}
  /\ then \in {"plain", "connect", "h2connect", "captured", "socks", "pinned"}
  /\ served \in 0 .. Len(conn.heads) /\ scheme \in {"http", "https"} /\ pooled \in BOOLEAN

(* However the bytes arrive, and through however many wrappers they are put  *)
(* back, every byte of the client reaches exactly one consumer, in order;    *)
(* so does every byte an upstream proxy sends after its CONNECT response.    *)
EveryByteOnce ==
  /\ Bytes(taken) \o buf \o Unread(pre, net) = conn.bytes
  /\ up.state \notin {"failed"} =>
       up.read \o up.buf \o Unread(up.pre, up.net) = conn.up

(* The connection is in a state its mode allows and has lost no byte.         *)
BytesAreKept == FrontTypeOK /\ EveryByteOnce

BeforeTunnel == CHOOSE k \in 0 .. Len(taken) :
  \A i \in DOMAIN taken : taken[i].by = "relay" <=> i > k

TunnelBytes == Skip(BeforeTunnel, Bytes(taken)) \o buf \o Unread(pre, net)

(* A stream that is TLS or HTTP/2 is never tunnelled unseen, in whatever      *)
(* pieces its first bytes arrive, and nothing else is handed to TLS or HTTP   *)
(* by the sniff of a CONNECT, SOCKS5 or captured stream.                      *)
KnownIsInspected ==
  /\ pc = "relay" =>
       ~is_tls_handshake(TunnelBytes) /\ ~is_h2_preface(TunnelBytes)
  /\ pc = "tls" /\ then # "plain" => is_tls_handshake(Unread(pre, net))
  /\ pc \in {"h1", "h2"} /\ then \in {"connect", "captured"} /\ scheme = "http"
       /\ (taken = <<>> \/ Last(taken).by # pc) =>
       LET rest == buf \o Unread(pre, net)
       IN is_h2_preface(rest) \/ is_http1_request(rest)

\* The URL head h of a connection inside `inside' stands for.
Named(h, inside) ==
  IF h.method = "CONNECT" /\ ":protocol" \notin h.headers THEN <<"connect", h.uri>>
  ELSE (IF InReverse /\ h.uri = "none" THEN <<>>
        ELSE <<inside, IF h.uri # "none" THEN h.uri ELSE h.host>>) \o h.path

\* And what it stands for after the first i rules.
Mapped(h, inside) ==
  LET u[i \in 0 .. Len(conn.rules)] ==
        IF i = 0 THEN Named(h, inside)
        ELSE IF conn.rules[i].action = "map_remote" /\ IsPrefix(conn.rules[i].prefix, u[i - 1])
        THEN conn.rules[i].target \o Suffix(conn.rules[i], u[i - 1])
        ELSE u[i - 1]
  IN u

\* A rule that answers every request of this method and URL.
Answers(rule, h, url) ==
  /\ IsPrefix(rule.prefix, url)
  /\ CASE rule.action = "redirect" -> TRUE
       [] rule.action = "mock" -> rule.method \in {"any", h.method}
       [] rule.action = "map_local" -> h.method \notin {"GET", "HEAD"}
       [] OTHER -> FALSE

\* A rule that may fail on them: the file cannot be read, the URL is none.
MayFail(rule, h, url) ==
  /\ IsPrefix(rule.prefix, url)
  /\ CASE rule.action = "map_remote" -> ~IsUri(rule.target \o Suffix(rule, url))
       [] rule.action = "map_local" -> h.method \in {"GET", "HEAD"}
       [] OTHER -> FALSE

Placed(e, url) ==
  /\ e.via = IF InH3 THEN "direct" ELSE conn.chain
  /\ CASE InReverse -> e.to = conn.target /\ e.tls = (conn.mode # "reverse")
       [] conn.mode = "wireguardh3" -> e.to = conn.dest /\ e.tls
       [] InSocks -> e.connects = 0 => e.to = conn.dest /\ (e.inside = "https" => e.tls)
       [] OTHER -> /\ e.to = url[2] /\ e.tls = (url[1] = "https")
                   /\ ~OwnPage(conn.heads[e.head])

\* The first k rules let the request pass; the next one failed, or there is none.
RequestsGoRight(e) ==
  LET h == conn.heads[e.head]
      urls == Mapped(h, e.inside)
  IN \E k \in 0 .. Len(conn.rules) :
       /\ k < Len(conn.rules) => MayFail(conn.rules[k + 1], h, urls[k])
       /\ \A i \in 1 .. k : ~Answers(conn.rules[i], h, urls[i - 1])
       /\ Placed(e, urls[k])

TunnelsGoRight(e) ==
  e.to = IF e.connects = 0 THEN conn.dest ELSE conn.heads[e.head].uri

(* A request goes to the place its connection fixed (the reverse target, the  *)
(* SOCKS5 destination whatever its Host says) or else to the one it names, as *)
(* mapped by the rules in their order up to one that fails, and nowhere when  *)
(* a rule before that answers it or it asks for the proxy's own page; a       *)
(* tunnel goes where its CONNECT, or the original connection, went; what came *)
(* in over TLS leaves over TLS, and requests go through the upstream proxy,   *)
(* but for HTTP/3, which goes to its destination directly.                    *)
GoesWhereAsked ==
  \A i \in DOMAIN log :
    IF log[i].what = "raw" THEN TunnelsGoRight(log[i]) ELSE RequestsGoRight(log[i])
=============================================================================
