------------------------------ MODULE MCFront ------------------------------
(***************************************************************************)
(* Every mode against the streams that tell its branches apart: plain and  *)
(* encrypted requests, CONNECT over HTTP/1 and HTTP/2 with HTTP, TLS, and    *)
(* unknown bytes inside, a CONNECT within SOCKS5, a WebSocket, requests for *)
(* the proxy's own page, an upstream proxy that answers in pieces, and      *)
(* lists of rules that map, answer, fail and hide one another.              *)
(***************************************************************************)
EXTENDS Front

Get == <<"GE", "T", "sp", "/", "sp", "HTTP/1", ".1", "end">>
Connect == <<"CONN", "ECT", "sp", "b", "sp", "HTTP/1", ".1", "end">>
Long == <<"GE", "T", "sp">> \o [i \in 1 .. 9 |-> "/"] \o <<"sp", "HTTP/1", ".1", "end">>
Tls1 == <<"16", "03", "alpn1">>
Tls2 == <<"16", "03", "alpn2">>
Ssh == <<"SSH", "x", "x">>
H2 == Preface \o <<"rq">>

G(uri, host) ==
  [method |-> "GET", uri |-> uri, host |-> host, path |-> <<"/p">>, headers |-> {}]
C(uri) == [G(uri, uri) EXCEPT !.method = "CONNECT", !.path = <<>>]
W(uri, host) == [G(uri, host) EXCEPT !.headers = {"upgrade"}]
X(uri, version) == [G(uri, uri) EXCEPT !.method = "CONNECT", !.headers = {":protocol"} \union version]

S(mode, bytes, heads) ==
  [mode |-> mode, bytes |-> bytes, heads |-> heads, rules |-> <<>>, dest |-> "d", target |-> "t",
   chain |-> "direct", auth |-> FALSE, up |-> <<>>, custom |-> FALSE, http3 |-> TRUE]
Ruled(s, rules) == [s EXCEPT !.rules = rules]
Chained(s, kind, reply) == [s EXCEPT !.chain = kind, !.up = reply]

Greeting == <<"hello", "connect">>

Forward ==
  {S("forward", Get \o Get, <<G("a", "a"), h>>) :
     h \in {G("a", "b"), G("proxel.ar", "proxel.ar"), G("none", "self"), G("none", "b"), W("a", "a")}}
  \union {S("forward", H2 \o <<"rq">>, <<X("a", v), G("a", "a")>>) : v \in {{}, {"version"}}}
  \union {S("forward", Connect \o inner, <<C("b"), G("none", "a"), G("none", "proxel.ar")>>) :
     inner \in {Get, Long, Ssh, Tls1 \o Get \o Get, Tls2 \o H2, H2, <<>>, Tls1 \o Connect \o Tls1 \o Get}}
  \union {S("forward", H2 \o inner, <<C("b"), G("a", "a")>>) :
     inner \in {Get, Ssh, Tls1 \o Get, Tls2 \o H2, H2}}

Captured ==
  {S("captured", bytes, <<G("none", "a"), C("b"), G("none", "a")>>) :
     bytes \in {Get, Ssh, Tls1 \o Get, Tls2 \o H2, H2 \o <<"rq">> \o H2, H2 \o <<"rq">> \o Tls2 \o H2, <<>>}}

ReverseSetups ==
  {S("reverse", bytes, <<h, C("b")>>) :
     bytes \in {Get \o Connect, H2 \o <<"rq">>},
     h \in {G("none", "self"), W("none", "a"), X("a", {"version"})}}
  \union {S("reversetls", bytes, <<G("none", "a"), G("none", "a")>>) :
     bytes \in {Tls1 \o Get, Tls2 \o H2, Get}}

Socks ==
  {S("socks", Greeting \o bytes, <<G("none", "a"), C("b"), G("none", "a")>>) :
     bytes \in {Get, Ssh, Tls1 \o Get, Tls2 \o H2, H2}}
  \union {S("socks", Greeting \o Connect \o bytes, <<C("b"), G("none", "a")>>) :
     bytes \in {Ssh, Tls1 \o Get}}
  \union {S("socks", <<"hello", "bind">>, <<>>)}
  \union {Chained(S("socks", Greeting \o Get, <<G("none", "a")>>), "http", reply) :
     reply \in {<<"200", "x", "end", "hi", "hi">>, <<"403", "end">>, <<"200", "x", "x", "x", "x", "x">>}}
  \union {[Chained(S("socks", Greeting \o Ssh, <<>>), "socks5", reply) EXCEPT !.auth = auth] :
     reply \in {<<"none", "succeeded", "hi">>, <<"password", "granted", "succeeded">>,
                <<"password", "denied">>},
     auth \in BOOLEAN}

Map(prefix, target) == [action |-> "map_remote", prefix |-> prefix, target |-> target]
Local(prefix) == [action |-> "map_local", prefix |-> prefix, directory |-> "dir", index |-> "index"]
Redirect(prefix) == [action |-> "redirect", prefix |-> prefix, target |-> <<"http", "c">>]
Mock(prefix, method) == [action |-> "mock", prefix |-> prefix, method |-> method]
SetHeader(name) == [action |-> "set_request_header", prefix |-> <<>>, name |-> name]
RemoveHeader(name) == [action |-> "remove_request_header", prefix |-> <<"http">>, name |-> name]

RuleLists ==
  {<<Map(<<"http", "a">>, <<"https", "c">>), Mock(<<"http", "a">>, "any"), Redirect(<<"https", "b">>)>>,
   <<Map(<<"http", "a">>, <<"http", "c">>), Mock(<<"http", "c">>, "POST"), Redirect(<<"http", "c">>)>>,
   <<Map(<<"http", "a">>, <<"https", "c", "..">>), Local(<<"https", "c">>)>>,
   <<Map(<<"http">>, <<"invalid">>), Mock(<<"http", "a">>, "GET")>>,
   <<Local(<<"/p">>), Local(<<"http", "a", "/p">>)>>,
   <<Local(<<"http", "a">>), Redirect(<<"http">>)>>,
   <<Map(<<"http", "a">>, <<"invalid", "c">>), Mock(<<"http", "a">>, "any")>>,
   <<Map(<<"/p">>, <<"http", "c", "/q">>), SetHeader("upgrade")>>,
   <<Map(<<"http", "a">>, <<"/q">>), RemoveHeader("upgrade")>>,
   <<RemoveHeader("version"), Mock(<<"http", "a">>, "POST")>>}

WithRules ==
  {Ruled(s, rules) : rules \in RuleLists, s \in
     {S("forward", Get, <<G("a", "a")>>), S("forward", Get, <<W("a", "a")>>),
      S("forward", H2, <<X("a", {"version"})>>), S("forward", H2, <<G("a", "a")>>),
      S("reverse", Get, <<W("none", "a")>>), S("reverse", Get, <<G("a", "a")>>),
      S("reverse", H2, <<X("a", {"version"})>>), S("reversetls", Tls1 \o Get, <<G("none", "a")>>),
      S("captured", Tls1 \o Get, <<G("none", "a")>>),
      S("socks", Greeting \o Get, <<G("none", "a")>>)}}

H3Setups ==
  {S(mode, <<>>, <<h, G("a", "a")>>) : mode \in {"reverseh3", "wireguardh3"},
     h \in {G("a", "b"), X("a", {}), X("a", {"version"})}}
  \union {Ruled(S(mode, <<>>, <<G("a", "a")>>), rules) :
     mode \in {"reverseh3", "wireguardh3"}, rules \in
     {<<Map(<<"https", "a">>, <<"http", "c">>)>>, <<Map(<<"https", "a">>, <<"/q">>), Mock(<<"/q">>, "POST")>>,
      <<Map(<<"https", "a", "/p">>, <<"https", "c">>)>>}}
  \union {Chained(S("wireguardh3", <<>>, <<G("a", "a")>>), "http", <<>>)}

\* Configurations that run only without the HTTP/3 listener, or not at all.
Configured ==
  {[Chained(S("reversetls", Tls1 \o Get, <<G("none", "a")>>), "http", <<>>) EXCEPT !.http3 = b] :
     b \in BOOLEAN}
  \union {[S("reverseh3", <<>>, <<G("a", "a")>>) EXCEPT !.http3 = FALSE]}
  \union {S("reverseother", Get, <<G("none", "a")>>)}
  \union {[s EXCEPT !.custom = TRUE] :
     s \in {S("forward", Get, <<G("a", "a")>>), S("socks", Greeting \o Get, <<G("none", "a")>>)}}

Connections ==
  Forward \union Captured \union ReverseSetups \union Socks \union WithRules
  \union H3Setups \union Configured
=============================================================================
