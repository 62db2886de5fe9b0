------------------------------ MODULE HttpMessages ------------------------------
(***************************************************************************)
(* What a connection says: messages as a sender writes them, the symbols   *)
(* they become on the wire, and what a receiver has to be told of them by  *)
(* RFC 7230, section 3.3.3, which http_parser.c quotes.  It knows nothing  *)
(* of the parser.                                                          *)
(***************************************************************************)
EXTENDS HttpUrl

Told(kind, syms) == IF syms = <<>> THEN <<<<kind, "">>>> ELSE [i \in DOMAIN syms |-> <<kind, syms[i]>>]
Concat(seqs) == FoldLeft(LAMBDA a, s : a \o s, <<>>, seqs)
Crlf == <<CR, LF>>

-------------------------------------------------------------------------------
(* Headers: what is written, what is delivered, what it says               *)

Header(name, wire, text, says) == [name |-> name, wire |-> wire, text |-> text, says |-> says]
Plain(name, value, says) == Header(name, value, value, says)

Length(digits)   == Plain(<<"c", "ontent-length">>, digits, {"length"})
Chunked          == Plain(<<"t", "ransfer-encoding">>, <<"c", "hunked">>, {"coded", "chunked"})
LastChunked      == Plain(<<"t", "ransfer-encoding">>, <<"x", ",", " ", "c", "hunked">>, {"coded", "chunked"})
Coded            == Plain(<<"t", "ransfer-encoding">>, <<"c", "hunked", ",", "x">>, {"coded"})
Close            == Plain(<<"c", "onnection">>, <<"c", "lose", " ">>, {"close"})
KeepAlive        == Plain(<<"p", "roxy-connection">>, <<"k", "eep-alive">>, {"keep-alive"})
CloseAndUpgrade  == Plain(<<"c", "onnection">>, <<"u", "pgrade", ",", "x", ",", "c", "lose">>, {"close", "to-upgrade"})
ToUpgrade        == Plain(<<"c", "onnection">>, <<"x", ",", " ", "u", "pgrade">>, {"to-upgrade"})
UpgradeTo        == Plain(<<"u", "pgrade">>, <<"x">>, {"upgrade"})
Other            == Plain(<<"x", "a">>, <<"x", ":", "x">>, {})
Empty            == Plain(<<"c", "a">>, <<>>, {})
Binary           == Plain(<<"x">>, <<"a", "NUL">>, {})
Folded           == Header(<<"t", "x">>, <<"x", CR, LF, " ", "a">>, <<"x", " ", "a">>, {})
FoldedLength     == Header(<<"c", "ontent-length">>, <<"1", CR, LF, " ", "1">>, <<"1", " ", "1">>, {"length"})
FoldedAtStart    == Header(<<"c", "onnection">>, <<CR, LF, " ", "c", "lose">>, <<"c", "lose">>, {"close"})

HeaderSyms(h, eol) == h.name \o <<":", " ">> \o h.wire \o eol
HeaderEvents(h)    == Told("header_field", h.name) \o Told("header_value", h.text)

-------------------------------------------------------------------------------
(* Messages                                                                *)

\* chunks: lengths of the chunks of the body or, if it has none, <<its length>>.
Message(isRequest, line, events, method, status, version, headers, chunks, trailer, eol) ==
    [isRequest |-> isRequest, line |-> line, events |-> events, method |-> method, status |-> status,
     version |-> version, headers |-> headers, chunks |-> chunks, trailer |-> trailer, eol |-> eol]

Version(v, proto) == IF v = "0.9" THEN <<>> ELSE <<" ">> \o proto \o <<v>>
RequestLine(m, rest, url, v, proto, eol) == <<m, rest, " ">> \o url \o Version(v, proto) \o eol
Request(url, v, headers, chunks) ==
    Message(TRUE, RequestLine("G", "ET", url, v, <<"H", "TTP/">>, Crlf), Told("url", url), "GET", 0, v, headers,
            chunks, <<>>, Crlf)
Get(headers, chunks) == Request(<<"/">>, "1.1", headers, chunks)

\* Other methods, and a request all of whose lines end with eol.
MethodRequest(method, m, rest, url, proto, headers, chunks) ==
    [Request(url, "1.1", headers, chunks) EXCEPT
        !.method = method, !.line = RequestLine(m, rest, url, "1.1", proto, Crlf)]
Connect(url, headers, chunks) == MethodRequest("CONNECT", "C", "ONNECT", url, <<"H", "TTP/">>, headers, chunks)
EndingWith(r, eol) == [r EXCEPT !.eol = eol, !.line = SubSeq(@, 1, Len(@) - 2) \o eol]
WithTrailer(r, headers) == [r EXCEPT !.trailer = headers]
Response(status, reason, v, headers, chunks) ==
    Message(FALSE, <<"H", "TTP/", v, " ">> \o status.digits \o
                       (IF reason = <<>> THEN <<>> ELSE <<" ">> \o reason) \o Crlf,
            Told("status", reason), "", status.code, v, headers, chunks, <<>>, Crlf)
Code(d1, d2, d3) == [digits |-> <<d1, d2, d3>>,
                     code |-> DecimalDigit(d1) * 100 + DecimalDigit(d2) * 10 + DecimalDigit(d3)]

Says(m) == UNION {m.headers[i].says : i \in DOMAIN m.headers}

\* How the body is delimited, or why the message is refused.
IsUpgrade(m, skip) == \/ skip = 2 \/ m.method = "CONNECT"
                      \/ {"upgrade", "to-upgrade"} \subseteq Says(m) /\ (m.isRequest \/ m.status = 101)
Framing(m, skip, lenient) ==
    CASE {"coded", "length"} \subseteq Says(m) /\ (~lenient \/ "chunked" \in Says(m)) -> "UNEXPECTED_CONTENT_LENGTH"
      [] OTHER ->
            IF skip > 0 \/ m.method = "CONNECT" THEN "none"
            ELSE IF "chunked" \in Says(m) THEN "chunked"
            ELSE IF "coded" \in Says(m)
                 THEN IF m.isRequest /\ ~lenient THEN "INVALID_TRANSFER_ENCODING" ELSE "eof"
            ELSE IF "length" \in Says(m) THEN "length"
            ELSE IF m.isRequest \/ m.status \div 100 = 1 \/ m.status \in {204, 304} \/ IsUpgrade(m, skip)
                 THEN "none" ELSE "eof"
Persists(m, framing) ==
    /\ framing # "eof"
    /\ IF m.version = "1.1" THEN "close" \notin Says(m) ELSE "keep-alive" \in Says(m)

BodyOf(n) == [i \in 1 .. n |-> "x"]
ChunkSyms(n) == <<<<"1", "2", "3">>[n]>> \o Crlf \o BodyOf(n) \o Crlf
ChunkEvents(n) == <<<<"chunk_header">>>> \o Told("body", BodyOf(n)) \o <<<<"chunk_complete">>>>
HeadersSyms(hs, eol) == Concat([i \in DOMAIN hs |-> HeaderSyms(hs[i], eol)]) \o eol
HeadersEvents(hs) == Concat([i \in DOMAIN hs |-> HeaderEvents(hs[i])])

Head1(m) == m.line \o HeadersSyms(m.headers, m.eol)
BodySyms(m, framing) ==
    IF framing = "chunked"
    THEN Concat([i \in DOMAIN m.chunks |-> ChunkSyms(m.chunks[i])]) \o <<"0">> \o Crlf \o HeadersSyms(m.trailer, Crlf)
    ELSE BodyOf(IF m.chunks = <<>> THEN 0 ELSE m.chunks[1])
Body1(m, framing) ==
    CASE framing = "chunked" ->
            Concat([i \in DOMAIN m.chunks |-> ChunkEvents(m.chunks[i])]) \o <<<<"chunk_header">>>>
              \o HeadersEvents(m.trailer) \o <<<<"chunk_complete">>>>
      [] framing \in {"length", "eof"} /\ m.chunks # <<>> -> Told("body", BodyOf(m.chunks[1]))
      [] OTHER -> <<>>

HeadEvents(m) == <<<<"message_begin">>>> \o m.events \o HeadersEvents(m.headers)
Events(m, framing) ==
    CASE framing = "UNEXPECTED_CONTENT_LENGTH" -> HeadEvents(m)
      [] framing = "INVALID_TRANSFER_ENCODING" -> HeadEvents(m) \o <<<<"headers_complete">>>>
      [] OTHER -> HeadEvents(m) \o <<<<"headers_complete">>>> \o Body1(m, framing) \o <<<<"message_complete">>>>

-------------------------------------------------------------------------------
(* Connections                                                             *)

\* A connection that carries a message m after what a says.
Carry(a, m) ==
    LET framing == Framing(m, a.skip, a.lenient)
        refused == framing \in {"UNEXPECTED_CONTENT_LENGTH", "INVALID_TRANSFER_ENCODING"}
        syms    == a.syms \o Head1(m) \o BodySyms(m, framing)
        head    == a.counted + Len(Head1(m))
        sent    == [a EXCEPT !.syms = syms,
                       !.longestHead = IF head > @ THEN head ELSE @,
                       !.counted = IF framing = "chunked" THEN Len(HeadersSyms(m.trailer, Crlf)) ELSE 0]
    IN  CASE a.after = "upgraded" \/ a.error # "OK" -> [a EXCEPT !.syms = syms]
          [] a.after = "closed" /\ a.error = "OK" -> [a EXCEPT !.syms = syms, !.error = "CLOSED_CONNECTION"]
          [] OTHER -> [sent EXCEPT !.events = @ \o Events(m, framing),
                          !.stop = IF framing = "none" THEN Len(a.syms \o Head1(m)) ELSE Len(syms),
                          !.error = IF refused THEN framing ELSE "OK",
                          !.after = IF IsUpgrade(m, a.skip) THEN "upgraded"
                                    ELSE IF Persists(m, framing) THEN "open" ELSE "closed"]

Connection(type, skip, lenient, messages) ==
    FoldLeft(Carry, [type |-> type, skip |-> skip, lenient |-> lenient, syms |-> <<>>, events |-> <<>>,
                     error |-> "OK", cut |-> FALSE, after |-> "open", stop |-> 0, longestHead |-> 0,
                     counted |-> 0, url |-> [parts |-> <<>>, ok |-> FALSE]], messages)

Requests(messages)  == Connection("REQUEST", 0, FALSE, messages)
Responses(messages) == Connection("RESPONSE", 0, FALSE, messages)

\* The connection breaks off after k symbols; a symbol of it is another.
Truncated(c, k)     == [c EXCEPT !.syms = SubSeq(@, 1, k), !.error = "any"]
Garbled(c, i, sym)  == [c EXCEPT !.syms[i] = sym, !.error = "any"]
Inserted(c, i, syms) == [c EXCEPT !.syms = SubSeq(@, 1, i) \o syms \o SubSeq(@, i + 1, Len(@)),
                                  !.stop = @ + Len(syms)]
\* The receiver finds error e before the end of the last message.
Refused(c, e) == [c EXCEPT !.error = e, !.cut = TRUE]

-------------------------------------------------------------------------------
(* URLs, composed of their parts                                           *)

Before == [SCHEMA |-> <<>>, USERINFO |-> <<>>, HOST |-> <<>>, PORT |-> <<":">>, PATH |-> <<>>,
           QUERY |-> <<"?">>, FRAGMENT |-> <<"#">>]
After  == [SCHEMA |-> <<":", "/", "/">>, USERINFO |-> <<"@">>, HOST |-> <<>>, PORT |-> <<>>, PATH |-> <<>>,
           QUERY |-> <<>>, FRAGMENT |-> <<>>]
UrlOrder == <<"SCHEMA", "USERINFO", "HOST", "PORT", "PATH", "QUERY", "FRAGMENT">>

\* An IPv6 address stands in brackets.
Written(k, part) == IF k = "HOST" /\ ":" \in {part[i] : i \in DOMAIN part} THEN <<"[">> \o part \o <<"]">> ELSE part
Composed(parts) ==
    Concat([i \in DOMAIN UrlOrder |-> LET k == UrlOrder[i] IN
              IF k \in DOMAIN parts THEN Before[k] \o Written(k, parts[k]) \o After[k] ELSE <<>>])

\* A request for a URL that is to be reported as its parts, or refused.
Asks(parts, ok)    == [Requests(<<Request(Composed(parts), "1.1", <<>>, <<>>)>>) EXCEPT
                          !.url = [parts |-> parts, ok |-> ok]]
Tunnels(parts, ok) == [Requests(<<Connect(Composed(parts), <<>>, <<>>)>>) EXCEPT
                          !.url = [parts |-> parts, ok |-> ok]]
===============================================================================
