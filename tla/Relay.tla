------------------------------- MODULE Relay -------------------------------
(***************************************************************************)
(* One HTTP message on its way through the proxy: the wire of the sender,  *)
(* the validation of its head, the decoder of its body, the body channel,  *)
(* the head that is prepared for the other side, and the encoder of the    *)
(* body (proxelar-proto/src/http1, http2 and body.rs, proxyapi proxy/mod.rs*)
(* proxy/http1.rs and proxy/http3.rs).                                     *)
(*                                                                         *)
(* A wire is a sequence of tokens, one for one byte where the decoder looks*)
(* at bytes: hexadecimal digits, "CR", "LF", ";" and data.  A trailer line *)
(* is one token.  The wire of an HTTP/2 or HTTP/3 stream, and of a body the*)
(* handler has collected ("buffered") or replaced ("edited" when it mends  *)
(* the head, "scripted" when it does not), is a sequence of frames.        *)
(***************************************************************************)
EXTENDS Integers, Sequences, FiniteSets, SequencesExt

CONSTANTS
    Messages,       \* the messages: see MCRelay for the shape of one
    Cap,            \* body_channel_capacity
    SizeMax,        \* the largest chunk size and Content-Length (u64::MAX)
    LineMax,        \* max_chunk_line_bytes
    TrailerMax      \* max_trailer_bytes

ASSUME LimitAssumption == Cap \in Nat \ {0} /\ {SizeMax, LineMax, TrailerMax} \subseteq Nat

VARIABLES
    m,              \* the message relayed and where it goes
    wire,           \* what the sender has still to deliver
    buf,            \* bytes read and not decoded
    reader,         \* the task that decodes the body
    channel,        \* frames between the reader and the writer
    writer,         \* the task that encodes the body
    out,            \* what the other side has been sent
    faults          \* what has gone wrong around the proxy so far

relayVars == <<m, wire, buf, reader, channel, writer, out, faults>>

Crlf == <<"CR", "LF">>
Digits == <<"0", "1", "2", "3", "4", "5", "6", "7",
            "8", "9", "A", "B", "C", "D", "E", "F">>

Data(s) == [kind |-> "data", bytes |-> s]
Trailers(s) == [kind |-> "trailers", bytes |-> s]
Error == [kind |-> "error", bytes |-> <<>>]
End == [kind |-> "end", bytes |-> <<>>]

NoLength == -1
Multiplexed == {"h2", "h3"}
Collected == {"buffered", "edited", "scripted"}

\* The data frames of w take a count of bytes from a to b.
Size(frame) == IF frame.kind = "data" THEN Len(frame.bytes) ELSE 0

Carries(w, a, b) ==
    \E at \in [1..(Len(w) + 1) -> 0..b] :
       /\ at[1] = a /\ at[Len(w) + 1] = b
       /\ \A i \in 1..Len(w) : at[i + 1] = at[i] + Size(w[i])

\* The frames of a stream: data, and trailers last if at all; then it ends, or
\* it breaks off.
IsFrame(frame, kind) ==
    /\ frame = [kind |-> kind, bytes |-> frame.bytes]
    /\ frame.bytes \in Seq(ToSet(frame.bytes))

IsStream(w) ==
    /\ w \in Seq(ToSet(w)) /\ w # <<>>
    /\ w[Len(w)] \in {End, Error}
    /\ \A i \in 1..(Len(w) - 1) :
          \/ IsFrame(w[i], "data")
          \/ IsFrame(w[i], "trailers") /\ i = Len(w) - 1 /\ w[i + 1] = End

IsHead(h) ==
    /\ h = [version |-> h.version, method |-> h.method, status |-> h.status,
            target |-> h.target, hosts |-> h.hosts, length |-> h.length,
            coding |-> h.coding, connection |-> h.connection, te |-> h.te,
            other |-> h.other, pseudo |-> h.pseudo]
    /\ h.length \in Seq(Int)

\* A CONNECT request becomes a tunnel and is not relayed.  The h2 crate and the
\* HTTP/3 driver (check_content_length) end a stream with a Content-Length only
\* when they have counted that many bytes, and a body the handler has collected
\* is all there.
ASSUME MessageAssumption ==
    \A x \in Messages :
       /\ x.side \in {"request", "response"}
       /\ x.from \in {"h1"} \cup Multiplexed \cup Collected
       /\ x.to \in {"h1"} \cup Multiplexed
       /\ IsHead(x.head)
       /\ x.side = "request" => x.head.method # "CONNECT"
       /\ IF x.from = "h1" THEN x.wire \in Seq(ToSet(x.wire)) ELSE IsStream(x.wire)
       /\ x.from \in Collected =>
            /\ x.wire[Len(x.wire)] = End
            /\ x.data \in Seq(ToSet(x.data)) /\ Carries(x.wire, 0, Len(x.data))
       /\ x.from \in Multiplexed \cup {"buffered"} /\ x.head.length # <<>>
            /\ x.wire[Len(x.wire)] = End
            /\ ~(x.side = "response" /\ (x.method = "HEAD" \/ x.head.status \in {"204", "205", "304"}))
            => Carries(x.wire, 0, Head(x.head.length))
               /\ (x.from = "buffered" => Head(x.head.length) = Len(x.data))

-----------------------------------------------------------------------------
(* Heads (validation.rs).  A head has the fields the decisions look at: how
   often Host occurs, the Content-Length values, the transfer codings, the
   tokens of Connection, TE, the names of its other fields, and in an HTTP/3
   head the order of its pseudo-headers and fields.                        *)

Framing(kind, length) == [kind |-> kind, length |-> length]

ContentLengthIsBad(h) ==
    \/ \E i \in 1..Len(h.length) : h.length[i] \notin 0..SizeMax
    \/ \E i, j \in 1..Len(h.length) : h.length[i] # h.length[j]

CodingIsBad(h) ==
    /\ h.coding # <<>>
    /\ h.version # "1.1" \/ h.coding # <<"chunked">>

ConnectionIsBad(h) ==
    h.connection \cap {"content-length", "transfer-encoding", "host",
                       "connection", "trailer"} # {}

validate_framing(h) ==
    /\ ~ConnectionIsBad(h)
    /\ ~ContentLengthIsBad(h)
    /\ ~CodingIsBad(h)
    /\ h.length = <<>> \/ h.coding = <<>>

validate_host(h) == h.version = "1.1" => h.hosts = 1

validate_request_target(h) ==
    \/ h.method = "CONNECT" /\ h.target = "authority"
    \/ h.method = "OPTIONS" /\ h.target = "asterisk"
    \/ h.method # "CONNECT" /\ h.target \in {"origin", "absolute"}

validate_request(h) ==
    validate_request_target(h) /\ validate_host(h) /\ validate_framing(h)

validate_response(h) ==
    /\ validate_framing(h)
    /\ h.status = "204" => h.length = <<>> /\ h.coding = <<>>

HopByHop == {"keep-alive", "proxy-connection", "upgrade"}

\* HTTP/2 knows no connection-specific field, and TE only as "trailers".
validate_te(h) == h.te \subseteq {"trailers"}

validate_inbound_regular(h) ==
    h.connection = {} /\ h.coding = <<>> /\ h.other \cap HopByHop = {} /\ validate_te(h)

\* :scheme and :authority, or the authority alone for CONNECT.
validate_h2_uri(h) == h.target = IF h.method = "CONNECT" THEN "authority" ELSE "absolute"

from_h2_request(h) == validate_h2_uri(h) /\ validate_inbound_regular(h)
from_h2_response(h) == validate_inbound_regular(h)

from_h2(h) == IF m.side = "request" THEN from_h2_request(h) ELSE from_h2_response(h)

\* An HTTP/3 head is decoded here (http2/mod.rs): every pseudo-header once and
\* before the fields, and those the method calls for.
Ordered(h) ==
    \A i, j \in 1..Len(h.pseudo) :
        i < j => h.pseudo[j] \notin {h.pseudo[i]} \ {"field"}
                 /\ (h.pseudo[i] = "field" => h.pseudo[j] = "field")

decode_request_head(h) ==
    LET given == ToSet(h.pseudo) \ {"field"}
        extended == ":protocol" \in given
    IN  /\ Ordered(h) /\ validate_inbound_regular(h)
        /\ extended => h.method = "CONNECT"
        /\ given \ {":protocol"} =
             IF h.method = "CONNECT" /\ ~extended THEN {":method", ":authority"}
             ELSE {":method", ":scheme", ":authority", ":path"}

decode_response_head(h) ==
    Ordered(h) /\ validate_inbound_regular(h) /\ ToSet(h.pseudo) \ {"field"} = {":status"}

\* A repeated Content-Length resets an HTTP/3 stream, equal or not.
content_length(h) == h.length = <<>> \/ \E n \in 0..SizeMax : h.length = <<n>>

from_h3(h) == IF m.side = "request" THEN decode_request_head(h) ELSE decode_response_head(h)

HeadIsValid ==
    CASE m.from = "h2" -> from_h2(m.head)
      [] m.from = "h3" -> from_h3(m.head) /\ content_length(m.head)
      [] m.from \in Collected -> TRUE
      [] m.from = "h1" ->
           IF m.side = "request" THEN validate_request(m.head) ELSE validate_response(m.head)

-----------------------------------------------------------------------------
(* Which body follows a head (BodyFraming), and what the body announces.   *)

NoBody(status) == m.method = "HEAD" \/ status \in {"204", "304"}

response_body_is_forbidden(status) == NoBody(status) \/ status = "205"

for_request(h) ==
    IF h.coding # <<>> THEN Framing("chunked", 0)
    ELSE IF h.length # <<>> THEN Framing("length", Head(h.length))
    ELSE Framing("none", 0)

for_response(h) ==
    IF NoBody(h.status) THEN Framing("none", 0)
    ELSE IF h.coding # <<>> THEN Framing("chunked", 0)
    ELSE IF h.length # <<>> THEN Framing("length", Head(h.length))
    ELSE Framing("eof", 0)

FramingOf(h) == IF m.side = "request" THEN for_request(h) ELSE for_response(h)

\* ProxyBody::exact_length and may_have_trailers as the side that built the
\* body has set them: a server reader declares no body as empty, the client
\* driver declares only a Content-Length, the body of a stream declares nothing,
\* and a body the handler has collected or replaced declares all it has.
ExactLength ==
    CASE m.from \in Multiplexed -> NoLength
      [] m.from \in Collected -> Len(m.data)
      [] m.from = "h1" ->
           LET f == FramingOf(m.head)
           IN  IF f.kind = "length" \/ (f.kind = "none" /\ m.side = "request")
               THEN f.length ELSE NoLength

MayHaveTrailers ==
    IF m.from \in Collected THEN m.trailers # <<>> ELSE ExactLength = NoLength

-----------------------------------------------------------------------------
(* The head for the other side.                                            *)

\* A replaced request body takes the framing fields of the old one with it; of a
\* response only one that was decoded for the script has its length refreshed,
\* and another one keeps the Content-Length the script returned.
reconcile_edited_body_headers(h) ==
    [h EXCEPT !.coding = <<>>, !.length = <<Len(m.data)>>]

encode_from_hook(h) == [h EXCEPT !.length = <<Len(m.data)>>]

HandledHead ==
    IF m.from # "edited" THEN m.head
    ELSE IF m.side = "request" THEN reconcile_edited_body_headers(m.head)
    ELSE encode_from_hook(m.head)

prepare_upstream_protocol_request(h) ==
    [h EXCEPT !.other = @ \ (h.connection \cup HopByHop \cup {"proxy-authorization"}),
              !.connection = {}, !.coding = <<>>, !.te = {}, !.hosts = 0,
              !.version = "1.1", !.target = "absolute"]

prepare_http1_request(h) ==
    [prepare_upstream_protocol_request(h) EXCEPT !.hosts = 1, !.target = "origin"]

Unframed(h) == [h EXCEPT !.length = <<>>, !.coding = <<>>]

Framed(h, framing) ==
    CASE framing.kind = "chunked" -> [Unframed(h) EXCEPT !.coding = <<"chunked">>]
      [] framing.kind = "length" -> [Unframed(h) EXCEPT !.length = <<framing.length>>]
      [] OTHER -> Unframed(h)

prepare_request_framing ==
    IF MayHaveTrailers \/ ExactLength = NoLength THEN Framing("chunked", 0)
    ELSE IF ExactLength = 0 THEN Framing("none", 0)
    ELSE Framing("length", ExactLength)

prepare_response_framing(status) ==
    IF response_body_is_forbidden(status) THEN Framing("none", 0)
    ELSE IF ~MayHaveTrailers /\ ExactLength # NoLength THEN Framing("length", ExactLength)
    ELSE IF m.version = "1.1" THEN Framing("chunked", 0)
    ELSE Framing("eof", 0)

BugCloses(h, framing) == m.close \/ "close" \in h.connection

\* write_response closes for the request's sake, for the response's, and when
\* only the end of the connection can end the body.
Closes(h, framing) ==
    m.close \/ "close" \in h.connection \/ framing.kind = "eof"

ConnectionFor(h, framing) ==
    IF Closes(h, framing) THEN {"close"}
    ELSE IF m.version = "1.0" THEN {"keep-alive"} ELSE h.connection

\* A response that may carry no body keeps the Content-Length it describes,
\* unless its status forbids the field; 205 states that it is empty.
ForbiddenHead(h) ==
    [h EXCEPT !.coding = <<>>,
              !.length = IF h.status = "204" THEN <<>>
                         ELSE IF h.status = "205" THEN <<0>> ELSE @]

ResponseHead(h) ==
    LET framing == prepare_response_framing(h.status)
        framed == IF response_body_is_forbidden(h.status)
                  THEN ForbiddenHead(h) ELSE Framed(h, framing)
    IN  [framed EXCEPT !.version = m.version, !.connection = ConnectionFor(h, framing)]

\* to_h2_request and to_h2_response leave out what belongs to one connection.
WithoutConnection(h) ==
    [h EXCEPT !.other = @ \ (h.connection \cup HopByHop),
              !.connection = {}, !.coding = <<>>, !.version = "2"]

to_h2_request(h) == [WithoutConnection(h) EXCEPT !.hosts = 0]
to_h2_response(h) == WithoutConnection(h)

\* encode_request_head and encode_response_head of http2/mod.rs, for HTTP/3:
\* the pseudo-headers come out of the request line and Host, then the fields.
EncodedHead(h, pseudo) ==
    [WithoutConnection(h) EXCEPT !.hosts = 0, !.version = "3",
                                 !.pseudo = pseudo \o <<"field">>]

encode_request_headers(h) ==
    EncodedHead(h, IF h.method = "CONNECT" THEN <<":method", ":authority">>
                   ELSE <<":method", ":scheme", ":authority", ":path">>)
encode_response_headers(h) == EncodedHead(h, <<":status">>)

PreparedFraming ==
    IF m.side = "request" THEN prepare_request_framing
    ELSE prepare_response_framing(m.head.status)

PreparedHead ==
    CASE m.side = "request" /\ m.to = "h1" ->
           Framed(prepare_http1_request(HandledHead), PreparedFraming)
      [] m.side = "request" /\ m.to = "h2" ->
           to_h2_request(prepare_upstream_protocol_request(HandledHead))
      [] m.side = "response" /\ m.to = "h1" -> ResponseHead(HandledHead)
      [] m.side = "response" /\ m.to = "h2" -> to_h2_response(HandledHead)
      [] m.side = "request" /\ m.to = "h3" ->
           encode_request_headers(prepare_upstream_protocol_request(HandledHead))
      [] m.side = "response" /\ m.to = "h3" -> encode_response_headers(HandledHead)

\* The serializers validate what they are about to write.
encode_request_head(h) == h.version \in {"1.0", "1.1"} /\ validate_request(h)
encode_response_head(h) == h.version \in {"1.0", "1.1"} /\ validate_response(h)

HeadIsWritable ==
    CASE m.to \in Multiplexed -> validate_te(PreparedHead)
      [] m.to = "h1" -> IF m.side = "request" THEN encode_request_head(PreparedHead)
                        ELSE encode_response_head(PreparedHead)

\* An HTTP/2 stream whose body is known to be empty ends with its head, as does
\* the stream of a response that may have none.
EndsWithHead ==
    \/ m.to = "h2" /\ ExactLength = 0 /\ ~MayHaveTrailers
    \/ m.side = "response" /\ response_body_is_forbidden(m.head.status)

-----------------------------------------------------------------------------
NoHead == [version |-> "none"]

RelayInit ==
    /\ m \in Messages
    /\ wire = m.wire
    /\ buf = <<>>
    /\ reader = [state |-> "head", framing |-> Framing("none", 0), left |-> 0,
                 chunk |-> "complete"]
    /\ channel = <<>>
    /\ writer = [state |-> "head", framing |-> Framing("none", 0), left |-> 0,
                 complete |-> FALSE]
    /\ out = [head |-> NoHead, body |-> <<>>, trailers |-> <<>>, end |-> "open"]
    /\ faults = {}

\* HeadParser and the validation reject a head before anybody sees it.
AcceptHead ==
    /\ reader.state = "head"
    /\ LET framing == FramingOf(m.head) IN
       reader' =
         IF ~HeadIsValid THEN [reader EXCEPT !.state = "rejected"]
         ELSE IF m.from # "h1" THEN [reader EXCEPT !.state = "body"]
         ELSE [reader EXCEPT
                 !.state = IF framing.kind = "none" \/ framing = Framing("length", 0)
                           THEN "done" ELSE "body",
                 !.framing = framing,
                 !.left = framing.length,
                 !.chunk = IF framing.kind = "chunked" THEN "size" ELSE "complete"]
    /\ UNCHANGED <<m, wire, buf, channel, writer, out, faults>>

Decoding == m.from = "h1" /\ reader.state = "body"
Abandoned == writer.state \in {"done", "failed"}
Room == Abandoned \/ Len(channel) < Cap

\* body_tx.send: a frame nobody waits for is dropped, and reading goes on.
Push(frame) == channel' = IF Abandoned THEN channel ELSE Append(channel, frame)

Fail == reader' = [reader EXCEPT !.state = "failing"]

Crlfs(s) == {i \in 1..Len(s)-1 : SubSeq(s, i, i + 1) = Crlf}
FirstCrlf(s) == CHOOSE i \in Crlfs(s) : \A j \in Crlfs(s) : i <= j

reject_invalid_partial_line(s) ==
    \E i \in 1..Len(s) :
       \/ s[i] = "LF" /\ (i = 1 \/ s[i - 1] # "CR")
       \/ s[i] = "CR" /\ i < Len(s) /\ s[i + 1] # "LF"

\* What follows the size of a chunk: ";", a name, and then perhaps "=" and a
\* value, which may be quoted ("q"); as often as there are extensions.
TokenBytes == {"x"} \cup ToSet(Digits)

validate_chunk_extensions(s) ==
    \A i \in 1..Len(s) :
        LET after == IF i = Len(s) THEN ";" ELSE s[i + 1]
            name == 1 + Max({0} \cup {j \in 1..i : s[j] = ";"})
        IN  CASE s[i] = ";" -> i < Len(s) /\ after \in TokenBytes
              [] s[i] = "=" -> after \in TokenBytes \cup {"q"} /\ "=" \notin ToSet(SubSeq(s, name, i - 1))
              [] s[i] = "q" -> s[i - 1] = "=" /\ after = ";"
              [] OTHER -> s[i] \in TokenBytes

\* The size of a chunk line; SizeMax + 1 stands for every number that does not
\* fit, for what is no number at all, and for extensions that are none.
hex_value(d) == CHOOSE v \in 0..15 : Digits[v + 1] = d

parse_chunk_line(line) ==
    LET n == IF Contains(line, ";") THEN SelectInSeq(line, LAMBDA t : t = ";") - 1
             ELSE Len(line)
        size == SubSeq(line, 1, n)
        IsHex == size # <<>> /\ \A i \in 1..Len(size) : size[i] \in ToSet(Digits)
        value[i \in 0..Len(size)] ==
            IF i = 0 THEN 0
            ELSE IF value[i - 1] * 16 + hex_value(size[i]) > SizeMax THEN SizeMax + 1
            ELSE value[i - 1] * 16 + hex_value(size[i])
    IN  IF IsHex /\ validate_chunk_extensions(SubSeq(line, n + 1, Len(line)))
        THEN value[Len(size)] ELSE SizeMax + 1

\* The decoder needs more bytes: exactly the cases of BodyDecodeStatus::Incomplete.
Incomplete ==
    CASE reader.framing.kind \in {"length", "eof"} -> buf = <<>>
      [] reader.chunk = "data" -> buf = <<>>
      [] reader.chunk = "terminator" -> Len(buf) < 2
      [] reader.chunk = "size" ->
           Crlfs(buf) = {} /\ ~reject_invalid_partial_line(buf) /\ Len(buf) <= LineMax
      [] reader.chunk = "trailers" ->
           /\ ~IsPrefix(Crlf, buf)
           /\ ~\E i \in Crlfs(buf) : i + 2 \in Crlfs(buf)
           /\ ~reject_invalid_partial_line(buf)
           /\ Len(buf) <= TrailerMax

\* A read returns some of the bytes that are to come.
ReadMore ==
    /\ Decoding /\ Incomplete /\ wire # <<>>
    /\ \E n \in 1..Len(wire) :
          /\ buf' = buf \o SubSeq(wire, 1, n)
          /\ wire' = SubSeq(wire, n + 1, Len(wire))
    /\ UNCHANGED <<m, reader, channel, writer, out, faults>>

\* decode_eof: only a body that lasts until the end of the connection is whole.
Eof ==
    /\ Decoding /\ Incomplete /\ wire = <<>>
    /\ m.closes \/ "cut" \in faults
    /\ IF reader.framing.kind = "eof" THEN reader' = [reader EXCEPT !.state = "done"]
       ELSE Fail
    /\ UNCHANGED <<m, wire, buf, channel, writer, out, faults>>

\* The read timeout.
ReadTimesOut ==
    /\ Decoding /\ Incomplete
    /\ Fail
    /\ faults' = faults \cup {"timeout"}
    /\ UNCHANGED <<m, wire, buf, channel, writer, out>>

\* decode_fixed, and the body that lasts until the end of the connection.
DecodeUnchunked ==
    /\ Decoding /\ ~Incomplete /\ Room
    /\ reader.framing.kind \in {"length", "eof"}
    /\ LET n == IF reader.framing.kind = "eof" \/ Len(buf) < reader.left
                THEN Len(buf) ELSE reader.left
           left == IF reader.framing.kind = "eof" THEN 0 ELSE reader.left - n
       IN  /\ Push(Data(SubSeq(buf, 1, n)))
           /\ buf' = SubSeq(buf, n + 1, Len(buf))
           /\ reader' = [reader EXCEPT
                 !.left = left,
                 !.state = IF reader.framing.kind = "length" /\ left = 0 THEN "done" ELSE @]
    /\ UNCHANGED <<m, wire, writer, out, faults>>

DecodeSize ==
    /\ Decoding /\ ~Incomplete /\ reader.chunk = "size"
    /\ IF Crlfs(buf) = {} \/ FirstCrlf(buf) - 1 > LineMax
          \/ parse_chunk_line(SubSeq(buf, 1, FirstCrlf(buf) - 1)) > SizeMax
       THEN Fail /\ UNCHANGED buf
       ELSE LET size == parse_chunk_line(SubSeq(buf, 1, FirstCrlf(buf) - 1)) IN
            /\ buf' = SubSeq(buf, FirstCrlf(buf) + 2, Len(buf))
            /\ reader' = [reader EXCEPT !.left = size,
                             !.chunk = IF size = 0 THEN "trailers" ELSE "data"]
    /\ UNCHANGED <<m, wire, channel, writer, out, faults>>

DecodeChunk ==
    /\ Decoding /\ ~Incomplete /\ Room /\ reader.chunk = "data"
    /\ LET n == IF Len(buf) < reader.left THEN Len(buf) ELSE reader.left
       IN  /\ Push(Data(SubSeq(buf, 1, n)))
           /\ buf' = SubSeq(buf, n + 1, Len(buf))
           /\ reader' = [reader EXCEPT !.left = @ - n,
                            !.chunk = IF n = reader.left THEN "terminator" ELSE "data"]
    /\ UNCHANGED <<m, wire, writer, out, faults>>

DecodeTerminator ==
    /\ Decoding /\ ~Incomplete /\ reader.chunk = "terminator"
    /\ IF IsPrefix(Crlf, buf)
       THEN /\ buf' = SubSeq(buf, 3, Len(buf))
            /\ reader' = [reader EXCEPT !.chunk = "size"]
       ELSE Fail /\ UNCHANGED buf
    /\ UNCHANGED <<m, wire, channel, writer, out, faults>>

\* The trailer block: its lines, and where it ends in the buffer.
find_trailer_end(s) ==
    IF IsPrefix(Crlf, s) THEN 2
    ELSE (CHOOSE i \in Crlfs(s) : /\ i + 2 \in Crlfs(s)
                                  /\ \A j \in Crlfs(s) : j + 2 \in Crlfs(s) => i <= j) + 3

FieldsOf(block) == SelectSeq(block, LAMBDA t : t \notin ToSet(Crlf))

is_forbidden_trailer(t) == t \in {"content-length", "host", "connection"}

\* parse_trailers: every line a field, and none that belongs in a head.
TrailersAreBad(block) ==
    \/ reject_invalid_partial_line(block)
    \/ \E i \in 1..Len(block) : block[i] = "junk" \/ is_forbidden_trailer(block[i])

DecodeTrailers ==
    /\ Decoding /\ ~Incomplete /\ reader.chunk = "trailers"
    /\ LET ends == IsPrefix(Crlf, buf) \/ \E i \in Crlfs(buf) : i + 2 \in Crlfs(buf)
           n == find_trailer_end(buf)
           block == SubSeq(buf, 1, n)
       IN  IF ~ends \/ n > TrailerMax \/ TrailersAreBad(block)
           THEN Fail /\ UNCHANGED <<buf, channel>>
           ELSE /\ buf' = SubSeq(buf, n + 1, Len(buf))
                /\ reader' = [reader EXCEPT !.state = "done", !.chunk = "complete"]
                /\ IF FieldsOf(block) = <<>> THEN UNCHANGED channel
                   ELSE Room /\ Push(Trailers(FieldsOf(block)))
    /\ UNCHANGED <<m, wire, writer, out, faults>>

\* read_body passes its error on as the last frame.
PushError ==
    /\ reader.state = "failing" /\ Room
    /\ Push(Error)
    /\ reader' = [reader EXCEPT !.state = "failed"]
    /\ UNCHANGED <<m, wire, buf, writer, out, faults>>

\* The coordinator of the server connection aborts its reader when it stops
\* after an early response: the channel ends without an error.
AbortReader ==
    /\ m.side = "request" /\ m.from = "h1"
    /\ reader.state \in {"body", "failing"}
    /\ reader' = [reader EXCEPT !.state = "aborted"]
    /\ faults' = faults \cup {"abort"}
    /\ UNCHANGED <<m, wire, buf, channel, writer, out>>

\* The sender goes away: what it has not delivered never comes.  Whether a
\* part of this message is lost with it is recorded for the properties.
Cut ==
    /\ m.from \in {"h1"} \cup Multiplexed /\ "cut" \notin faults
    /\ wire # <<>> /\ ~(m.from # "h1" /\ writer.complete)
    /\ reader.state \in {"body", "done"}
    /\ wire' = IF m.from # "h1" THEN <<Error>> ELSE <<>>
    /\ faults' = faults \cup {"cut"} \cup
                 (IF Len(wire) > Len(m.next) THEN {"lost"} ELSE {})
    /\ UNCHANGED <<m, buf, reader, channel, writer, out>>

-----------------------------------------------------------------------------
\* The head goes out as soon as it is known; the body follows it.
SendHead ==
    /\ writer.state = "head" /\ reader.state \notin {"head", "rejected"}
    /\ IF ~HeadIsWritable
       THEN /\ writer' = [writer EXCEPT !.state = "failed"]
            /\ UNCHANGED out
       ELSE LET ended == IF m.to \in Multiplexed THEN EndsWithHead
                         ELSE PreparedFraming.kind = "none" IN
            /\ out' = [out EXCEPT !.head = PreparedHead,
                                  !.end = IF ended THEN "ended" ELSE "open"]
            /\ writer' = [state |-> IF ended THEN "done" ELSE "body",
                          framing |-> IF m.to \in Multiplexed THEN Framing(m.to, 0)
                                      ELSE PreparedFraming,
                          left |-> PreparedFraming.length, complete |-> FALSE]
    /\ UNCHANGED <<m, wire, buf, reader, channel, faults>>

\* ProxyBody::next: the channel of an HTTP/1 reader, or the stream itself.
ReaderGone == reader.state \in {"done", "failed", "aborted"}

Ready == IF m.from = "h1" THEN channel # <<>> \/ ReaderGone ELSE wire # <<>>

NextFrame ==
    IF m.from = "h1" THEN (IF channel = <<>> THEN End ELSE Head(channel)) ELSE Head(wire)

Taken ==
    IF m.from = "h1"
    THEN channel' = (IF channel = <<>> THEN <<>> ELSE Tail(channel)) /\ UNCHANGED wire
    ELSE wire' = Tail(wire) /\ UNCHANGED channel

put_hex(n) ==
    LET hex[v \in 0..n] ==
          IF v < 16 THEN <<Digits[v + 1]>> ELSE Append(hex[v \div 16], Digits[(v % 16) + 1])
    IN  hex[n]

\* The bytes BodyEncoder::encode writes for a frame under each framing.
Encoded(frame) ==
    IF frame.kind = "data"
    THEN IF writer.framing.kind = "chunked" /\ frame.bytes # <<>>
         THEN put_hex(Len(frame.bytes)) \o Crlf \o frame.bytes \o Crlf
         ELSE frame.bytes
    ELSE <<"0">> \o Crlf \o FlattenSeq([i \in 1..Len(frame.bytes) |-> <<frame.bytes[i]>> \o Crlf])
         \o Crlf

\* A connection-specific field is no trailer of HTTP/2 or HTTP/3 in either
\* direction; receive_headers and encode_trailers of HTTP/3 ask to_h2_trailers.
from_h2_trailers(fields) == ~Contains(fields, "connection")
to_h2_trailers(fields) == ~Contains(fields, "connection")

\* What the framing cannot carry: data beyond Content-Length, trailers without
\* chunks, a field that may not be a trailer, any frame after the trailers.
CannotCarry(frame) ==
    \/ frame.kind = "error"
    \/ writer.complete
    \/ frame.kind = "data" /\ writer.framing.kind = "length"
         /\ Len(frame.bytes) > writer.left
    \/ frame.kind = "trailers" /\ writer.framing.kind \in {"length", "eof"}
    \/ frame.kind = "trailers" /\ writer.framing.kind = "chunked"
         /\ \E i \in 1..Len(frame.bytes) : is_forbidden_trailer(frame.bytes[i])
    \/ frame.kind = "trailers" /\ m.from = "h2" /\ ~from_h2_trailers(frame.bytes)
    \/ frame.kind = "trailers" /\ (m.from = "h3" \/ m.to \in Multiplexed)
         /\ ~to_h2_trailers(frame.bytes)

\* Over HTTP/3 send_body is done with the trailers.
WriteFrame ==
    /\ writer.state = "body" /\ Ready
    /\ NextFrame.kind \in {"data", "trailers"} /\ ~CannotCarry(NextFrame)
    /\ Taken
    /\ LET trailers == NextFrame.kind = "trailers" IN
       /\ out' = IF m.to \in Multiplexed /\ trailers
                 THEN [out EXCEPT !.trailers = NextFrame.bytes, !.end = "ended"]
                 ELSE [out EXCEPT !.body = @ \o Encoded(NextFrame)]
       /\ writer' = [writer EXCEPT
             !.left = IF writer.framing.kind = "length" THEN @ - Len(NextFrame.bytes) ELSE @,
             !.complete = @ \/ trailers,
             !.state = IF m.to = "h3" /\ trailers THEN "done" ELSE @]
    /\ UNCHANGED <<m, buf, reader, faults>>

\* An error ends the connection or resets the stream; the rest is not written.
Failed ==
    /\ out' = [out EXCEPT !.end = IF @ = "open" THEN "cut" ELSE @]
    /\ writer' = [writer EXCEPT !.state = "failed"]

BugWriteFails ==
    /\ writer.state = "body" /\ Ready /\ NextFrame.kind # "end"
    /\ CannotCarry(NextFrame)
    /\ Taken
    /\ out' = [out EXCEPT !.body = @ \o (IF writer.framing.kind = "chunked"
                                         THEN <<"0">> \o Crlf \o Crlf ELSE <<>>)]
    /\ writer' = [writer EXCEPT !.state = "failed"]
    /\ UNCHANGED <<m, buf, reader, faults>>

WriteFails ==
    /\ writer.state = "body" /\ Ready /\ NextFrame.kind # "end"
    /\ CannotCarry(NextFrame)
    /\ Taken
    /\ Failed
    /\ UNCHANGED <<m, buf, reader, faults>>

BugFinish ==
    /\ writer.state = "body" /\ Ready /\ NextFrame.kind = "end"
    /\ Taken
    /\ IF writer.framing.kind = "length" /\ writer.left # 0 THEN Failed
       ELSE /\ writer' = [writer EXCEPT !.state = "done", !.complete = TRUE]
            /\ out' = [out EXCEPT !.end = "ended"]
    /\ UNCHANGED <<m, buf, reader, faults>>

\* BodyEncoder::finish, and the empty frame that ends an HTTP/2 stream.
Finish ==
    /\ writer.state = "body" /\ Ready /\ NextFrame.kind = "end"
    /\ Taken
    /\ IF writer.framing.kind = "length" /\ writer.left # 0 THEN Failed
       ELSE /\ writer' = [writer EXCEPT !.state = "done", !.complete = TRUE]
            /\ out' = [out EXCEPT
                  !.end = "ended",
                  !.body = IF writer.framing.kind = "chunked" /\ ~writer.complete
                           THEN @ \o <<"0">> \o Crlf \o Crlf ELSE @]
    /\ UNCHANGED <<m, buf, reader, faults>>

\* The other side stops reading, resets the stream or is too slow.
ReceiverFails ==
    /\ writer.state = "body"
    /\ Failed
    /\ faults' = faults \cup {"receiver"}
    /\ UNCHANGED <<m, wire, buf, reader, channel>>

-----------------------------------------------------------------------------
Done ==
    /\ reader.state \in {"rejected", "done", "failed", "aborted"} \/ m.from # "h1"
    /\ writer.state \in {"done", "failed"} \/ reader.state = "rejected"

Decode ==
    DecodeUnchunked \/ DecodeSize \/ DecodeChunk \/ DecodeTerminator \/ DecodeTrailers

Deliver == SendHead \/ WriteFrame \/ WriteFails \/ Finish

Environment == ReadTimesOut \/ AbortReader \/ Cut \/ ReceiverFails

RelayNext ==
    \/ AcceptHead \/ ReadMore \/ Eof \/ Decode \/ PushError \/ Deliver
    \/ Environment
    \/ Done /\ UNCHANGED relayVars

\* Every task that can run does; a read that stays incomplete is timed out.
Fairness ==
    /\ WF_relayVars(AcceptHead \/ ReadMore \/ Eof \/ Decode \/ PushError \/ ReadTimesOut)
    /\ WF_relayVars(Deliver)

RelaySpec == RelayInit /\ [][RelayNext]_relayVars
RelayFairSpec == RelaySpec /\ Fairness

-----------------------------------------------------------------------------
(* What the other side reads, by the grammar of RFC 9112 alone.            *)

Unread == [whole |-> FALSE, data |-> <<>>, trailers |-> <<>>, over |-> <<>>]

ReadChunked(s) ==
    LET Rest(p) == SubSeq(s, p, Len(s))
        read[p \in 1..(Len(s) + 1)] ==
          IF Crlfs(Rest(p)) = {} THEN Unread
          ELSE LET line == SubSeq(s, p, p + FirstCrlf(Rest(p)) - 2)
                   size == parse_chunk_line(line)
                   q == p + Len(line) + 2
                   block == SubSeq(s, q, q + find_trailer_end(Rest(q)) - 1)
               IN  IF size = 0
                   THEN [whole |-> TRUE, data |-> <<>>, trailers |-> FieldsOf(block),
                         over |-> Rest(q + Len(block))]
                   ELSE LET tail == read[q + size + 2]
                        IN  [tail EXCEPT !.data = SubSeq(s, q, q + size - 1) \o @]
    IN  read[1]

Received ==
    LET f == FramingOf(out.head) IN
    IF out.head = NoHead THEN Unread ELSE
    CASE m.to \in Multiplexed ->
           [whole |-> out.end = "ended", data |-> out.body,
            trailers |-> out.trailers, over |-> <<>>]
      [] m.to = "h1" /\ f.kind = "none" -> [Unread EXCEPT !.whole = TRUE, !.over = out.body]
      [] m.to = "h1" /\ f.kind = "eof" ->
           [Unread EXCEPT !.whole = out.end # "open", !.data = out.body]
      [] m.to = "h1" /\ f.kind = "length" ->
           IF Len(out.body) < f.length THEN Unread
           ELSE [Unread EXCEPT !.whole = TRUE,
                               !.data = SubSeq(out.body, 1, f.length),
                               !.over = SubSeq(out.body, f.length + 1, Len(out.body))]
      [] m.to = "h1" /\ f.kind = "chunked" -> ReadChunked(out.body)

Bodiless == m.side = "response" /\ response_body_is_forbidden(m.head.status)

\* A body that ends with its connection: neither side can tell an early end.
EofDelimited ==
    m.side = "response" /\ (\/ m.from = "h1" /\ FramingOf(m.head).kind = "eof"
                            \/ m.to = "h1" /\ PreparedFraming.kind = "eof")

RelayTypeOK ==
    /\ m \in Messages
    /\ reader.state \in {"head", "rejected", "body", "failing", "failed", "aborted", "done"}
    /\ reader.left \in 0..SizeMax
    /\ reader.chunk \in {"size", "data", "terminator", "trailers", "complete"}
    /\ Len(channel) <= Cap
    /\ writer.state \in {"head", "body", "done", "failed"} /\ writer.complete \in BOOLEAN
    /\ faults \subseteq {"timeout", "abort", "cut", "lost", "receiver"}

\* The receiver never takes a broken message for a whole one.  If what it was
\* sent reads as complete, then the sender's message was complete, its data
\* and its trailers are the sender's, in order, and nothing follows it.  Left
\* out are bodies that only the end of a connection delimits, of which the
\* receiver gets a prefix, and the reader aborted after an early response.
RelayedWhole ==
    /\ Received.whole /\ "abort" \notin faults =>
         IF Bodiless THEN Received.data = <<>> /\ Received.over = <<>>
         ELSE IF EofDelimited THEN IsPrefix(Received.data, m.data)
         ELSE /\ m.whole /\ "lost" \notin faults
              /\ Received.data = m.data /\ Received.trailers = m.trailers
              /\ Received.over = <<>>
    /\ m.from = "h1" /\ reader.state = "done" /\ "cut" \notin faults =>
         buf \o wire = m.next

\* The message keeps to the limits of its decoder and reaches the other side whole.
MessageIsWhole == RelayTypeOK /\ RelayedWhole

\* Both sides of the hop agree on where the message ends: the head that goes
\* out is valid, its framing fields say what the encoder does, a body without
\* a length closes the connection, a Content-Length kept for an HTTP/2 or HTTP/3
\* side is the length of the data, unless a script has replaced a response it
\* saw as it came, and what the sender said of its own connection stays there.
OneFraming ==
    out.head # NoHead =>
      /\ m.to = "h1" =>
           /\ IF m.side = "request" THEN validate_request(out.head)
              ELSE validate_response(out.head)
           /\ IF Bodiless
              THEN FramingOf(out.head) \in {Framing("none", 0), Framing("length", 0)}
              ELSE FramingOf(out.head) = writer.framing
           /\ m.side = "response" /\ FramingOf(out.head).kind = "eof" =>
                "close" \in out.head.connection
      /\ m.to \in Multiplexed =>
           /\ IF m.to = "h2" THEN from_h2(out.head) ELSE from_h3(out.head)
           /\ Received.whole /\ "abort" \notin faults /\ ~Bodiless
                /\ out.head.length # <<>> /\ m.from # "scripted" =>
                Head(out.head.length) = Len(out.body)
      /\ m.side = "request" \/ m.to \in Multiplexed =>
           out.head.other \cap (m.head.connection \cup HopByHop) = {}

\* What neither the head nor the framing of the other side can express.
Carriable ==
    /\ HeadIsValid /\ HeadIsWritable
    /\ \A i \in 1..Len(m.trailers) : ~is_forbidden_trailer(m.trailers[i])
    /\ m.trailers = <<>> \/ m.to \in Multiplexed \/ PreparedFraming.kind # "eof"

\* Every message is settled, and one that is whole and that nothing disturbs
\* reaches the other side.
EveryMessageSettles ==
    <>[](/\ Done
         /\ faults = {} /\ m.whole /\ Carriable =>
              Received.whole /\ (Bodiless \/ Received.data = m.data))
=============================================================================
