------------------------------ MODULE MCRelay ------------------------------
EXTENDS Relay

Get == [version |-> "1.1", method |-> "GET", status |-> "0", target |-> "origin",
        hosts |-> 1, length |-> <<>>, coding |-> <<>>, connection |-> {}, te |-> {},
        other |-> {"accept"}, pseudo |-> <<>>]
Post == [Get EXCEPT !.method = "POST"]
Ok == [Get EXCEPT !.status = "200", !.method = "", !.target = "", !.hosts = 0]
Chunked(h) == [h EXCEPT !.coding = <<"chunked">>]
Sized(h, n) == [h EXCEPT !.length = <<n>>]
H2(h) == [h EXCEPT !.version = "2", !.hosts = 0,
                   !.target = IF h.method = "" THEN "" ELSE "absolute"]
H3(h) == [H2(h) EXCEPT !.version = "3",
                       !.pseudo = IF h.method = "" THEN <<":status", "field">>
                                  ELSE <<":method", ":scheme", ":authority", ":path", "field">>]
Status(s) == [Ok EXCEPT !.status = s]

Message(side, from, head, w, data, trailers, whole, next) ==
    [side |-> side, from |-> from, to |-> "h1", head |-> head, wire |-> w \o next,
     data |-> data, trailers |-> trailers, whole |-> whole, next |-> next,
     closes |-> FALSE, close |-> FALSE, version |-> "1.1",
     method |-> IF side = "request" THEN head.method ELSE "GET"]

Final == <<"0">> \o Crlf \o Crlf
One == <<"1">> \o Crlf \o <<"a">> \o Crlf
Tricky == <<"CR", "LF", "0">>
Three == <<"0", "3", ";", "x">> \o Crlf \o Tricky \o Crlf
WithTrailer == <<"0">> \o Crlf \o <<"t">> \o Crlf \o <<"u">> \o Crlf \o Crlf

G == <<"G", "E">>

\* Chunked bodies, whole and broken, of a request or a response.
ChunkedBodies ==
    {<<One \o Final, <<"a">>, <<>>, TRUE>>,
     <<Three \o One \o Final, Tricky \o <<"a">>, <<>>, TRUE>>,
     <<One \o WithTrailer, <<"a">>, <<"t", "u">>, TRUE>>,
     <<Final, <<>>, <<>>, TRUE>>,
     <<<<"2">> \o Crlf \o <<"a">> \o Crlf \o Final, <<"a", "CR">>, <<>>, FALSE>>,
     <<<<"g">> \o Crlf \o Final, <<>>, <<>>, FALSE>>,
     <<<<"2", "1">> \o Crlf \o Final, <<>>, <<>>, FALSE>>,
     <<<<"1", "LF", "a">> \o Crlf \o Final, <<>>, <<>>, FALSE>>,
     <<<<"1", ";", "x", "=", "q">> \o Crlf \o <<"a">> \o Crlf \o Final, <<"a">>, <<>>, TRUE>>,
     <<<<"1", ";", "=">> \o Crlf \o <<"a">> \o Crlf \o Final, <<>>, <<>>, FALSE>>,
     <<<<"1", ";", "x", ";">> \o Crlf \o <<"a">> \o Crlf \o Final, <<>>, <<>>, FALSE>>,
     <<<<"1", ";", "x", "x", "x", "x", "x">> \o Crlf \o <<"a">> \o Crlf \o Final, <<>>, <<>>, FALSE>>,
     <<One \o <<"0">> \o Crlf \o <<"content-length">> \o Crlf \o Crlf, <<"a">>, <<>>, FALSE>>,
     <<One \o <<"0">> \o Crlf \o <<"junk">> \o Crlf \o Crlf, <<"a">>, <<>>, FALSE>>,
     <<<<"0">> \o Crlf \o <<"t">> \o Crlf \o <<"t">> \o Crlf \o <<"t">> \o Crlf \o Crlf,
       <<>>, <<>>, FALSE>>}

Requests ==
    {Message("request", "h1", Chunked(Post), b[1], b[2], b[3], b[4], G) : b \in ChunkedBodies}
    \cup
    {Message("request", "h1", Sized(Post, 2), <<"a", "b">>, <<"a", "b">>, <<>>, TRUE, G),
     Message("request", "h1", [Post EXCEPT !.length = <<1, 1>>], <<"a">>, <<"a">>, <<>>, TRUE, G),
     Message("request", "h1", Sized(Post, 0), <<>>, <<>>, <<>>, TRUE, G),
     Message("request", "h1", [Get EXCEPT !.connection = {"x-hop", "close"},
                                          !.other = {"x-hop", "keep-alive", "accept"},
                                          !.te = {"trailers"}],
             <<>>, <<>>, <<>>, TRUE, G),
     Message("request", "h1", [Get EXCEPT !.target = "absolute"], <<>>, <<>>, <<>>, TRUE, G),
     \* heads that must not pass
     Message("request", "h1", Chunked(Sized(Post, 1)), <<"a">>, <<>>, <<>>, FALSE, G),
     Message("request", "h1", [Post EXCEPT !.length = <<1, 2>>], <<"a">>, <<>>, <<>>, FALSE, G),
     Message("request", "h1", [Post EXCEPT !.coding = <<"chunked", "chunked">>],
             Final, <<>>, <<>>, FALSE, G),
     Message("request", "h1", [Chunked(Post) EXCEPT !.version = "1.0"], Final, <<>>, <<>>, FALSE, G),
     Message("request", "h1", [Sized(Post, 1) EXCEPT !.connection = {"content-length"}],
             <<"a">>, <<>>, <<>>, FALSE, G),
     Message("request", "h1", [Get EXCEPT !.hosts = 2], <<>>, <<>>, <<>>, FALSE, G),
     \* HTTP/2 clients, and a body replaced by the handler
     Message("request", "h2", H2(Post), <<Data(<<"a">>), Data(<<"b">>), End>>,
             <<"a", "b">>, <<>>, TRUE, <<>>),
     Message("request", "h2", Sized(H2(Post), 1), <<Data(<<"a">>), Trailers(<<"t">>), End>>,
             <<"a">>, <<"t">>, TRUE, <<>>),
     Message("request", "h2", H2(Post), <<Data(<<"a">>), Trailers(<<"host">>), End>>,
             <<"a">>, <<"host">>, TRUE, <<>>),
     Message("request", "h2", H2(Post), <<Data(<<"a">>), Error>>, <<"a">>, <<>>, FALSE, <<>>),
     Message("request", "h2", [H2(Get) EXCEPT !.connection = {"close"}], <<End>>,
             <<>>, <<>>, FALSE, <<>>),
     Message("request", "h2", [H2(Get) EXCEPT !.target = "origin"], <<End>>, <<>>, <<>>, FALSE, <<>>),
     \* HTTP/3 clients, their heads in and out of order
     Message("request", "h3", Sized(H3(Post), 1), <<Data(<<"a">>), Trailers(<<"t">>), End>>,
             <<"a">>, <<"t">>, TRUE, <<>>),
     Message("request", "h3", H3(Get), <<End>>, <<>>, <<>>, TRUE, <<>>),
     Message("request", "h3", H3(Post), <<Data(<<"a">>), Error>>, <<"a">>, <<>>, FALSE, <<>>),
     Message("request", "h3", [H3(Post) EXCEPT !.length = <<1, 1>>], <<Data(<<"a">>), End>>,
             <<"a">>, <<>>, FALSE, <<>>),
     Message("request", "h3", [H3(Get) EXCEPT !.pseudo = <<":method", ":path", ":authority">>],
             <<End>>, <<>>, <<>>, FALSE, <<>>),
     Message("request", "h3",
             [H3(Get) EXCEPT !.pseudo = <<":method", ":scheme", "field", ":authority", ":path">>],
             <<End>>, <<>>, <<>>, FALSE, <<>>),
     Message("request", "h3", [H3(Get) EXCEPT !.pseudo = <<":method">> \o @],
             <<End>>, <<>>, <<>>, FALSE, <<>>),
     Message("request", "h3", [H3(Get) EXCEPT !.pseudo = <<":protocol">> \o @],
             <<End>>, <<>>, <<>>, FALSE, <<>>),
     Message("request", "edited", Chunked(Post), <<Data(<<"a", "b">>), End>>,
             <<"a", "b">>, <<>>, TRUE, <<>>),
     Message("request", "buffered", Chunked(Post),
             <<Data(<<"a", "b">>), Trailers(<<"t">>), End>>, <<"a", "b">>, <<"t">>, TRUE, <<>>),
     Message("request", "buffered", Sized(Post, 0), <<End>>, <<>>, <<>>, TRUE, <<>>)}

Long == [i \in 1..18 |-> "a"]

Responses ==
    {Message("response", "h1", Chunked(Ok), b[1], b[2], b[3], b[4], <<>>) : b \in ChunkedBodies}
    \cup
    {Message("response", "h1", Sized(Ok, 2), <<"a", "b">>, <<"a", "b">>, <<>>, TRUE, <<>>),
     [Message("response", "h1", Ok, <<"a", "b">>, <<"a", "b">>, <<>>, TRUE, <<>>)
        EXCEPT !.closes = TRUE],
     [Message("response", "h1", Sized(Ok, 2), <<>>, <<>>, <<>>, TRUE, <<>>)
        EXCEPT !.method = "HEAD"],
     Message("response", "h1", Status("204"), <<>>, <<>>, <<>>, TRUE, <<>>),
     Message("response", "h1", Sized(Status("204"), 1), <<>>, <<>>, <<>>, FALSE, <<>>),
     Message("response", "h1", Sized(Status("304"), 2), <<>>, <<>>, <<>>, TRUE, <<>>),
     Message("response", "h1", Sized(Status("205"), 1), <<"a">>, <<"a">>, <<>>, TRUE, <<>>),
     Message("response", "h1", [Chunked(Ok) EXCEPT !.connection = {"close", "x-hop"},
                                                   !.other = {"x-hop"}],
             Final, <<>>, <<>>, TRUE, <<>>),
     Message("response", "h1", [Sized(Ok, 1) EXCEPT !.te = {"gzip"}], <<"a">>, <<"a">>,
             <<>>, TRUE, <<>>),
     Message("response", "h2", H2(Ok), <<Data(Long), Trailers(<<"t">>), End>>,
             Long, <<"t">>, TRUE, <<>>),
     Message("response", "h2", Sized(H2(Status("204")), 0), <<End>>, <<>>, <<>>, TRUE, <<>>),
     Message("response", "h2", H2(Ok), <<Data(<<"a">>), Trailers(<<"connection">>), End>>,
             <<"a">>, <<"connection">>, TRUE, <<>>),
     Message("response", "h3", H3(Ok), <<Data(<<"a">>), Trailers(<<"t">>), End>>,
             <<"a">>, <<"t">>, TRUE, <<>>),
     Message("response", "h3", [H3(Ok) EXCEPT !.te = {"gzip"}], <<End>>, <<>>, <<>>, FALSE, <<>>),
     Message("response", "h3", [H3(Ok) EXCEPT !.pseudo = <<":status", ":path">>], <<End>>,
             <<>>, <<>>, FALSE, <<>>),
     Message("response", "edited", Chunked(Ok), <<Data(<<"a", "b">>), End>>,
             <<"a", "b">>, <<>>, TRUE, <<>>),
     Message("response", "scripted", Sized(Ok, 9), <<Data(<<"a", "b">>), End>>,
             <<"a", "b">>, <<>>, TRUE, <<>>)}

\* Every message to an HTTP/1.1, an HTTP/2 and an HTTP/3 side, and every response to an
\* HTTP/1.0 client and to one that wants the connection closed.
MCMessages ==
    {[x EXCEPT !.to = to] : x \in Requests \cup Responses, to \in {"h1", "h2", "h3"}}
    \cup {[x EXCEPT !.version = "1.0"] : x \in Responses}
    \cup {[x EXCEPT !.close = TRUE] : x \in Responses}
=============================================================================
