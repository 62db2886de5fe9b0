------------------------------- MODULE HttpParser -------------------------------
(***************************************************************************)
(* http_parser_execute, http_parser.c: a parser that is fed the bytes of a *)
(* connection in pieces cut anywhere, calls back for what it finds, and    *)
(* keeps between the calls nothing but the struct http_parser.             *)
(*                                                                         *)
(* The application sets every callback; each may fail or pause the parser. *)
(* It feeds what is left from the offset a call returned, unpauses, stops  *)
(* at an error or when a message was an upgrade, and signals the end of    *)
(* the connection once.  Symbols are those of HttpUrl: literals are cut in *)
(* two, so that state, index and matched literal become one state.         *)
(***************************************************************************)
EXTENDS HttpUrl

CONSTANTS
    Streams,       \* connections: [syms, type, lenient, skip, ...]
    PieceLens,     \* bound: bytes handed to a call, or all that is left
    ULLONG_MAX,    \* 2^64 - 1 in the code
    MaxHeaderSize, \* max_header_size
    MaxPauses      \* bound: times a callback pauses the parser

ASSUME ParserAssumption ==
    /\ ULLONG_MAX \in Nat \ (0 .. 16) /\ MaxHeaderSize \in Nat /\ MaxPauses \in Nat
    /\ PieceLens \subseteq Nat \ {0}
    /\ \A c \in Streams : /\ c.syms \in Seq(Symbols) /\ c.lenient \in BOOLEAN
                          /\ c.type \in {"REQUEST", "RESPONSE", "BOTH"}

VARIABLES
    stream,    \* the connection
    parser,    \* struct http_parser
    run,       \* locals of http_parser_execute; pc is "idle" outside of it
    log,       \* what the callbacks were given: a symbol at a time, and its place
    pauses     \* times a callback paused

vars == <<stream, parser, run, log, pauses>>

Size == Len(stream.syms)
ch   == stream.syms[run.at]

\* PARSING_HEADER is state <= s_headers_done.
BodyStates == {"s_chunk_data", "s_chunk_data_almost_done", "s_chunk_data_done",
               "s_body_identity", "s_body_identity_eof", "s_message_done"}
StartStates == {"s_dead", "s_start_req_or_res", "s_start_res", "s_start_req"}

DataKinds == {"header_field", "header_value", "url", "body", "status"}
NoMarks   == [k \in DataKinds |-> 0]
Idle(at)  == [pc |-> "idle", at |-> at, end |-> 0, nread |-> 0, mark |-> NoMarks, start |-> 0]

StartOf(type) == CASE type = "REQUEST" -> "s_start_req" [] type = "RESPONSE" -> "s_start_res"
                   [] OTHER -> "s_start_req_or_res"

http_parser_init(type, lenient) ==
    [type |-> type, lenient |-> lenient, state |-> StartOf(type), header_state |-> "h_general",
     flags |-> {}, content_length |-> 0, nread |-> 0, index |-> 0, method |-> "DELETE",
     version |-> "0.0", status_code |-> 0, upgrade |-> FALSE, errno |-> "OK"]

Init ==
    /\ stream \in Streams
    /\ parser = http_parser_init(stream.type, stream.lenient)
    /\ run = Idle(1) /\ log = <<>> /\ pauses = 0

-------------------------------------------------------------------------------
(* How a byte is left: break, REEXECUTE, RETURN, error, callbacks          *)

In(states) == run.pc = "switch" /\ run.at <= run.end /\ parser.state \in states
To(s)      == [parser EXCEPT !.state = s]
Next1(r)   == [r EXCEPT !.pc = "top", !.at = @ + 1]
Again(r)   == [r EXCEPT !.pc = "switch"]
Set(q, r)  == parser' = q /\ run' = r /\ UNCHANGED <<stream, log, pauses>>
Break(q)     == Set(q, Next1(run))
Reexecute(q) == Set(q, Again(run))
Fail(e)      == Set([parser EXCEPT !.errno = e, !.nread = run.nread], Idle(run.at))

\* A callback, with the parser at q: the call goes on as r, or the callback fails
\* or pauses and http_parser_execute returns to `back`.  Only a failure stores
\* the local nread.
Call(q, r, events, back) ==
    /\ log' = log \o events
    /\ \/ parser' = q /\ run' = r /\ UNCHANGED pauses
       \/ parser' = [q EXCEPT !.errno = "CB", !.nread = r.nread] /\ run' = back /\ UNCHANGED pauses
       \/ /\ pauses < MaxPauses
          /\ parser' = [q EXCEPT !.errno = "PAUSED"] /\ run' = back /\ pauses' = pauses + 1
    /\ UNCHANGED stream

\* CALLBACK_NOTIFY, CALLBACK_NOTIFY_NOADVANCE and REEXECUTE
Notify(k, q, r)   == Call(q, Next1(r), <<<<k>>>>, Idle(run.at + 1))
NotifyAgain(k, q) == Call(q, Again(run), <<<<k>>>>, Idle(run.at))

\* What is handed over: the bytes from the mark to `to`; a string that is empty
\* leaves an event of its own, a further empty piece of a string does not.
Piece(k, from, to) ==
    IF to >= from THEN [i \in 1 .. to - from + 1 |-> <<k, stream.syms[from + i - 1], from + i - 1>>]
    ELSE IF log # <<>> /\ log[Len(log)][1] = k THEN <<>> ELSE <<<<k, "", from>>>>

MarkStays(r, k) == r                                    \* fault
MarkCleared(r, k) == [r EXCEPT !.mark[k] = 0]

\* CALLBACK_DATA_
Data(k, q, next, to, at) ==
    IF run.mark[k] = 0 THEN Set(q, next)
    ELSE Call(q, MarkCleared(next, k), Piece(k, run.mark[k], to), Idle(at))
CallbackData(k, q)     == Data(k, q, Next1(run), run.at - 1, run.at + 1)

MarkAt(r, k) == IF r.mark[k] = 0 THEN [r EXCEPT !.mark[k] = run.at] ELSE r

-------------------------------------------------------------------------------
(* The call, its loop and its return                                       *)

MarkedButUrl(s) == CASE s = "s_header_field" -> {"header_field"}   \* fault: not the URL
                     [] s = "s_header_value" -> {"header_value"} [] OTHER -> {}
MarkedAtEntry(s) == CASE s = "s_header_field" -> {"header_field"} [] s = "s_header_value" -> {"header_value"}
                      [] s \in UrlStates -> {"url"} [] s = "s_res_status" -> {"status"} [] OTHER -> {}

\* An upgraded connection is no longer HTTP: the application feeds no more.
Upgraded == parser.upgrade /\ log # <<>> /\ log[Len(log)] = <<"message_complete">>
CanFeed  == run.pc = "idle" /\ parser.errno = "OK" /\ ~Upgraded

http_parser_execute(n) ==
    /\ CanFeed /\ n > 0 /\ run.at + n - 1 <= Size
    /\ Set(parser, [pc |-> "top", at |-> run.at, end |-> run.at + n - 1, nread |-> parser.nread, start |-> 0,
                    mark |-> [k \in DataKinds |-> IF k \in MarkedAtEntry(parser.state) THEN run.at ELSE 0]])

\* len = 0: the connection has ended.
http_parser_execute_eof ==
    /\ CanFeed /\ run.at = Size + 1
    /\ LET closed == [Idle(run.at) EXCEPT !.pc = "closed", !.nread = parser.nread]
       IN  CASE parser.state = "s_body_identity_eof" -> Call(parser, closed, <<<<"message_complete">>>>, closed)
             [] parser.state \in StartStates -> Set(parser, closed)
             [] OTHER -> Set([parser EXCEPT !.errno = "INVALID_EOF_STATE"], closed)

\* http_parser_pause(parser, 0), between two calls
http_parser_pause == parser.errno = "PAUSED" /\ Set([parser EXCEPT !.errno = "OK"], run)

\* The top of the loop: COUNT_HEADER_SIZE(1) in the states before the body.
NextByte ==
    /\ run.pc = "top" /\ run.at <= run.end
    /\ LET n == IF parser.state \in BodyStates THEN run.nread ELSE run.nread + 1
       IN  IF n > MaxHeaderSize
           THEN Set([parser EXCEPT !.errno = "HEADER_OVERFLOW", !.nread = n], Idle(run.at))
           ELSE Set(parser, [run EXCEPT !.pc = "switch", !.nread = n])

\* The inner loops over a header field and a header value count when they end.
InScan    == IF run.start = 0 THEN [run EXCEPT !.start = run.at] ELSE run
ScanOn(q) == Set(q, [InScan EXCEPT !.at = @ + 1])
ScanUncounted(at) == run.nread                          \* fault
ScanCount(at) == run.nread + at - InScan.start
Overflow(at)  == Set([parser EXCEPT !.errno = "HEADER_OVERFLOW", !.nread = ScanCount(at)], Idle(at))
Scanned(at)   == [run EXCEPT !.nread = ScanCount(at), !.start = 0, !.at = at]

ScanEnds ==
    /\ run.pc = "scanned" \/ (run.pc = "switch" /\ run.at > run.end)
    /\ LET at == IF run.at > run.end THEN run.end ELSE run.at
       IN  IF ScanCount(at) > MaxHeaderSize THEN Overflow(at) ELSE Set(parser, Next1(Scanned(at)))

\* All bytes are used: the string under way is handed over, then RETURN(len).
Pending == {k \in DataKinds : run.mark[k] # 0}
EndOfData ==
    /\ run.pc \in {"top", "return"} /\ run.at > run.end
    /\ IF Pending = {} THEN Set([parser EXCEPT !.nread = run.nread], Idle(run.at))
       ELSE \E k \in Pending : Data(k, parser, [run EXCEPT !.pc = "return"], run.end, run.at)

-------------------------------------------------------------------------------
(* Moves that have no effect but the next state, and what is refused       *)

StartMoves == {<<{s}, {CR, LF}, s>> : s \in StartStates}

StatusLineMoves ==
    { <<{"s_res_H"}, {"TTP/"}, "s_res_http_major">>,
      <<{"s_res_http_end"}, {" "}, "s_res_first_status_code">>,
      <<{"s_res_first_status_code"}, {" "}, "s_res_first_status_code">>,
      <<{"s_res_status_code"}, {" "}, "s_res_status_start">>,
      <<{"s_res_line_almost_done"}, {LF}, "s_header_field_start">> }

RequestLineMoves ==
    { <<{"s_req_spaces_before_url"}, {" "}, "s_req_spaces_before_url">>,
      <<{"s_req_http_start"}, {" "}, "s_req_http_start">>,
      <<{"s_req_http_start"}, {"H"}, "s_req_http_H">>,
      <<{"s_req_http_H"}, {"TTP/"}, "s_req_http_major">>,
      <<{"s_req_http_I"}, {"CE/"}, "s_req_http_major">>,
      <<{"s_req_http_end"}, {CR}, "s_req_line_almost_done">>,
      <<{"s_req_http_end", "s_req_line_almost_done"}, {LF}, "s_header_field_start">> }

HeaderMoves ==
    { <<{"s_header_field_start"}, {CR}, "s_headers_almost_done">>,
      <<{"s_header_value_discard_ws"}, {" "}, "s_header_value_discard_ws">>,
      <<{"s_header_value_discard_ws"}, {CR}, "s_header_value_discard_ws_almost_done">>,
      <<{"s_header_value_discard_ws", "s_header_value_discard_ws_almost_done"}, {LF}, "s_header_value_discard_lws">>,
      <<{"s_header_value_discard_lws"}, {" "}, "s_header_value_discard_ws">>,
      <<{"s_header_almost_done"}, {LF}, "s_header_value_lws">> }

ChunkMoves ==
    { <<{"s_chunk_size"}, {";", " "}, "s_chunk_parameters">>,
      <<{"s_chunk_parameters"}, Symbols \ {CR}, "s_chunk_parameters">>,
      <<{"s_chunk_size", "s_chunk_parameters"}, {CR}, "s_chunk_size_almost_done">> }

Moves == StartMoves \cup StatusLineMoves \cup RequestLineMoves \cup HeaderMoves \cup ChunkMoves
Move == In({parser.state}) /\ \E m \in Moves : parser.state \in m[1] /\ ch \in m[2] /\ Break(To(m[3]))

\* What a byte that a state does not accept is refused with.
ErrorOf ==
    { <<{"s_dead"}, "CLOSED_CONNECTION">>,
      <<{"s_res_or_resp_H", "s_start_res", "s_req_http_start"}, "INVALID_CONSTANT">>,
      <<{"s_start_req", "s_req_method"}, "INVALID_METHOD">>,
      <<UrlStates \cup {"s_req_spaces_before_url"}, "INVALID_URL">>,
      <<{"s_res_http_major", "s_res_http_end", "s_req_http_major", "s_req_http_end"}, "INVALID_VERSION">>,
      <<{"s_res_first_status_code", "s_res_status_code"}, "INVALID_STATUS">>,
      <<{"s_req_line_almost_done", "s_header_almost_done"}, "LF_EXPECTED">>,
      <<{"s_header_field_start", "s_header_field"}, "INVALID_HEADER_TOKEN">>,
      <<{"s_chunk_size_start", "s_chunk_size"}, "INVALID_CHUNK_SIZE">>,
      <<{"s_res_H", "s_req_http_H", "s_req_http_I", "s_res_line_almost_done",
         "s_header_value_discard_ws_almost_done", "s_headers_almost_done", "s_headers_done",
         "s_chunk_size_almost_done", "s_chunk_data_almost_done", "s_chunk_data_done"}, "STRICT">> }
Refuse == \E e \in ErrorOf : parser.state \in e[1] /\ Fail(e[2])

\* States whose bytes are all moves or refused.
MoveOnly == {"s_dead", "s_res_H", "s_res_http_end", "s_res_line_almost_done", "s_req_http_H", "s_req_http_I",
             "s_req_http_end", "s_req_line_almost_done", "s_header_almost_done",
             "s_header_value_discard_ws_almost_done"}
MoveRefused == In(MoveOnly) /\ (\A m \in Moves : parser.state \in m[1] => ch \notin m[2]) /\ Refuse

-------------------------------------------------------------------------------
(* The first line                                                          *)

Fresh == [parser EXCEPT !.flags = {}, !.content_length = ULLONG_MAX]

StartReqOrRes ==
    /\ In({"s_start_req_or_res"}) /\ ch \notin {CR, LF}
    /\ IF ch = "H" THEN Notify("message_begin", [Fresh EXCEPT !.state = "s_res_or_resp_H"], run)
       ELSE Reexecute([Fresh EXCEPT !.type = "REQUEST", !.state = "s_start_req"])

ResOrRespH ==
    /\ In({"s_res_or_resp_H"})
    /\ CASE ch = "TTP/" -> Break([parser EXCEPT !.type = "RESPONSE", !.state = "s_res_http_major"])
         [] ch = "EAD"  -> Break([parser EXCEPT !.type = "REQUEST", !.method = "HEAD", !.index = 2,
                                                !.state = "s_req_method"])
         [] OTHER -> Refuse

StartRes ==
    /\ In({"s_start_res"}) /\ ch \notin {CR, LF}
    /\ IF ch = "H" THEN Notify("message_begin", [Fresh EXCEPT !.state = "s_res_H"], run) ELSE Refuse

MethodOf   == [G |-> "GET", C |-> "CONNECT", H |-> "HEAD", S |-> "SOURCE"]
MethodRest == [GET |-> "ET", CONNECT |-> "ONNECT", HEAD |-> "EAD", SOURCE |-> "OURCE"]

StartReq ==
    /\ In({"s_start_req"}) /\ ch \notin {CR, LF}
    /\ IF ch \in DOMAIN MethodOf
       THEN Notify("message_begin",
                   [Fresh EXCEPT !.method = MethodOf[ch], !.index = 1, !.state = "s_req_method"], run)
       ELSE Refuse

ReqMethod ==
    /\ In({"s_req_method"})
    /\ CASE parser.index = 2 /\ ch = " " -> Break(To("s_req_spaces_before_url"))
         [] parser.index = 1 /\ ch = MethodRest[parser.method] -> Break([parser EXCEPT !.index = 2])
         [] OTHER -> Refuse

UrlFirst ==
    /\ In({"s_req_spaces_before_url"}) /\ ch # " "
    /\ LET s == parse_url_char(IF parser.method = "CONNECT" THEN "s_req_server_start" ELSE parser.state, ch)
       IN  IF s = "s_dead" THEN Refuse ELSE Set(To(s), Next1(MarkAt(run, "url")))

\* A request without a version is one of HTTP/0.9.
UrlByte ==
    /\ In(UrlStates)
    /\ IF parser.state \in UrlTail \cup {"s_req_server", "s_req_server_with_at"} /\ ch \in {" ", CR, LF}
       THEN CallbackData("url",
                IF ch = " " THEN To("s_req_http_start")
                ELSE [parser EXCEPT !.version = "0.9",
                        !.state = IF ch = CR THEN "s_req_line_almost_done" ELSE "s_header_field_start"])
       ELSE LET s == parse_url_char(parser.state, ch)
            IN  IF s = "s_dead" THEN Refuse ELSE Break(To(s))

ReqIce ==
    /\ In({"s_req_http_start"}) /\ ch \notin {" ", "H"}
    /\ IF ch = "I" /\ parser.method = "SOURCE" THEN Break(To("s_req_http_I")) ELSE Refuse

ReqVersion ==
    /\ In({"s_req_http_major"})
    /\ IF ch \in {"1.0", "1.1"} THEN Break([parser EXCEPT !.version = ch, !.state = "s_req_http_end"]) ELSE Refuse

ResVersion ==
    /\ In({"s_res_http_major"})
    /\ IF ch \in {"1.0", "1.1"} THEN Break([parser EXCEPT !.version = ch, !.state = "s_res_http_end"]) ELSE Refuse

FirstStatusCode ==
    /\ In({"s_res_first_status_code"}) /\ ch # " "
    /\ IF ch \in Digits
       THEN Break([parser EXCEPT !.status_code = DecimalDigit(ch), !.state = "s_res_status_code"]) ELSE Refuse

StatusCode ==
    /\ In({"s_res_status_code"}) /\ ch # " "
    /\ CASE ch \in {CR, LF} -> Reexecute(To("s_res_status_start"))
         [] ch \in Digits /\ parser.status_code * 10 + DecimalDigit(ch) <= 999 ->
                Break([parser EXCEPT !.status_code = @ * 10 + DecimalDigit(ch)])
         [] OTHER -> Refuse

StatusStart ==
    /\ In({"s_res_status_start"})
    /\ Set(To("s_res_status"),
           IF ch \in {CR, LF} THEN Again(MarkAt(run, "status")) ELSE Next1(MarkAt(run, "status")))

Status ==
    /\ In({"s_res_status"})
    /\ CASE ch = CR -> CallbackData("status", To("s_res_line_almost_done"))
         [] ch = LF -> CallbackData("status", To("s_header_field_start"))
         [] OTHER   -> Break(parser)

-------------------------------------------------------------------------------
(* The headers                                                             *)

Token == Letters \cup Digits \cup Words \cup {".", "*", "%", "#", "1.1", "1.0"}

FirstLetterRules ==
    { <<{"s_header_field"}, {"c", "C"}, "h_C">>,
      <<{"s_header_field"}, {"p"}, "h_matching_proxy_connection">>,
      <<{"s_header_field"}, {"t"}, "h_matching_transfer_encoding">>,
      <<{"s_header_field"}, {"u"}, "h_matching_upgrade">> }

EndOfHeadersForgotten(q) == q                           \* fault: the LF is executed again as it is
EndOfHeadersBack(q) == [q EXCEPT !.state = "s_header_value_lws"]   \* fault: the LF goes to and fro
EndOfHeaders(q) == [q EXCEPT !.state = "s_headers_almost_done"]

HeaderFieldStart ==
    /\ In({"s_header_field_start"}) /\ ch # CR
    /\ CASE ch = LF -> Reexecute(EndOfHeaders(parser))
         [] ch \in Token ->
                Set([parser EXCEPT !.state = "s_header_field",
                        !.header_state = Lookup(FirstLetterRules, "s_header_field", ch, "h_general")],
                    Next1(MarkAt(run, "header_field")))
         [] OTHER -> Refuse

NameRules ==
    { <<{"h_C"}, {"onnection"}, "h_connection">>,
      <<{"h_C"}, {"ontent-length"}, "h_content_length">>,
      <<{"h_matching_proxy_connection"}, {"roxy-connection"}, "h_connection">>,
      <<{"h_matching_transfer_encoding"}, {"ransfer-encoding"}, "h_transfer_encoding">>,
      <<{"h_matching_upgrade"}, {"pgrade"}, "h_upgrade">> }

HeaderField ==
    /\ In({"s_header_field"})
    /\ IF ch \in Token
       THEN LET h == Lookup(NameRules, parser.header_state, ch, "h_general")
            IN  ScanOn([parser EXCEPT !.header_state = h,
                          !.flags = @ \cup IF h = "h_transfer_encoding" THEN {"F_TRANSFER_ENCODING"} ELSE {}])
       ELSE CASE ScanCount(run.at) > MaxHeaderSize -> Overflow(run.at)
              [] ScanCount(run.at) <= MaxHeaderSize /\ ch = ":" ->
                     Data("header_field", To("s_header_value_discard_ws"), Next1(Scanned(run.at)),
                          run.at - 1, run.at + 1)
              [] OTHER -> Refuse

ValueFirstRules ==
    { <<{"h_transfer_encoding"}, {"c", "C"}, "h_matching_transfer_encoding_chunked">>,
      <<{"h_transfer_encoding"}, Symbols \ {"c", "C"}, "h_matching_transfer_encoding_token">>,
      <<{"h_connection"}, {"k"}, "h_matching_connection_keep_alive">>,
      <<{"h_connection"}, {"c", "C"}, "h_matching_connection_close">>,
      <<{"h_connection"}, {"u"}, "h_matching_connection_upgrade">>,
      <<{"h_connection"}, Symbols \ {"k", "c", "C", "u"}, "h_matching_connection_token">> }
    \cup {<<{h}, Symbols, h>> : h \in {"h_matching_transfer_encoding_token_start",
                                       "h_matching_connection_token_start", "h_content_length_ws"}}

\* s_header_value_start, also reached from s_header_value_discard_ws
HeaderValueStart ==
    /\ \/ In({"s_header_value_start"})
       \/ In({"s_header_value_discard_ws"}) /\ ch \notin {" ", CR, LF}
    /\ LET h == parser.header_state
           value(q) == Set([q EXCEPT !.state = "s_header_value"], Next1(MarkAt(run, "header_value")))
       IN  CASE h = "h_content_length" /\ ch \notin Digits -> Fail("INVALID_CONTENT_LENGTH")
             [] h = "h_content_length" /\ ch \in Digits /\ "F_CONTENTLENGTH" \in parser.flags ->
                    Fail("UNEXPECTED_CONTENT_LENGTH")
             [] h = "h_content_length" /\ ch \in Digits /\ "F_CONTENTLENGTH" \notin parser.flags ->
                    value([parser EXCEPT !.flags = @ \cup {"F_CONTENTLENGTH"},
                             !.content_length = DecimalDigit(ch), !.header_state = "h_content_length_num"])
             [] h # "h_content_length" ->
                    value([parser EXCEPT !.header_state = Lookup(ValueFirstRules, h, ch, "h_general"),
                             !.flags = @ \cup IF h = "h_upgrade" THEN {"F_UPGRADE"} ELSE {}])

TransferRules ==
    { <<{"h_matching_transfer_encoding_token_start"}, {"c", "C"}, "h_matching_transfer_encoding_chunked">>,
      <<{"h_matching_transfer_encoding_token_start"}, Token \ {"c", "C"}, "h_matching_transfer_encoding_token">>,
      <<{"h_matching_transfer_encoding_token_start"}, {" "}, "h_matching_transfer_encoding_token_start">>,
      <<{"h_matching_transfer_encoding_chunked"}, {"hunked"}, "h_transfer_encoding_chunked">>,
      <<{"h_matching_transfer_encoding_chunked"}, Symbols \ {"hunked"}, "h_matching_transfer_encoding_token">>,
      <<{"h_matching_transfer_encoding_token"}, {","}, "h_matching_transfer_encoding_token_start">>,
      <<{"h_matching_transfer_encoding_token"}, Symbols \ {","}, "h_matching_transfer_encoding_token">>,
      <<{"h_transfer_encoding_chunked"}, {" "}, "h_transfer_encoding_chunked">>,
      <<{"h_transfer_encoding_chunked"}, Symbols \ {" "}, "h_matching_transfer_encoding_token">> }

ConnectionWords == {<<"h_matching_connection_keep_alive", "eep-alive", "h_connection_keep_alive">>,
                    <<"h_matching_connection_close", "lose", "h_connection_close">>,
                    <<"h_matching_connection_upgrade", "pgrade", "h_connection_upgrade">>}
\* Where a token of a Connection header starts, and one that is no known word.
TokenRules ==
    { <<{"h_matching_connection_token_start"}, {"k"}, "h_matching_connection_keep_alive">>,
      <<{"h_matching_connection_token_start"}, {"c", "C"}, "h_matching_connection_close">>,
      <<{"h_matching_connection_token_start"}, {"u"}, "h_matching_connection_upgrade">>,
      <<{"h_matching_connection_token_start"}, Token \ {"k", "c", "C", "u"}, "h_matching_connection_token">>,
      <<{"h_matching_connection_token_start"}, {" "}, "h_matching_connection_token_start">>,
      <<{"h_matching_connection_token"}, {","}, "h_matching_connection_token_start">>,
      <<{"h_matching_connection_token"}, Symbols \ {","}, "h_matching_connection_token">> }
\* The rest of a known word, and what may come after it.
WordRules(w) ==
    { <<{w[1]}, {w[2]}, w[3]>>, <<{w[1]}, Symbols \ {w[2]}, "h_matching_connection_token">>,
      <<{w[3]}, {","}, "h_matching_connection_token_start">>, <<{w[3]}, {" "}, w[3]>>,
      <<{w[3]}, Symbols \ {",", " "}, "h_matching_connection_token">> }
ConnectionRules == TokenRules \cup UNION {WordRules(w) : w \in ConnectionWords}

\* The flag of a token of a Connection header that has ended.
ConnectionFlag(h) ==
    CASE h = "h_connection_keep_alive" -> {"F_CONNECTION_KEEP_ALIVE"}
      [] h = "h_connection_close" -> {"F_CONNECTION_CLOSE"}
      [] h = "h_connection_upgrade" -> {"F_CONNECTION_UPGRADE"}
      [] OTHER -> {}

\* A digit more, unless the number may pass ULLONG_MAX.
Widen(base, d) == (parser.content_length * base + d) % (ULLONG_MAX + 1)
TooLongNever(base) == FALSE                             \* fault: the number wraps
TooLong(base) == (ULLONG_MAX - base) \div base < parser.content_length

ContentLengthByte ==
    LET h == parser.header_state
    IN  CASE ch = " " -> ScanOn([parser EXCEPT !.header_state = "h_content_length_ws"])
          [] h = "h_content_length_num" /\ ch \in Digits /\ ~TooLong(10) ->
                 ScanOn([parser EXCEPT !.content_length = Widen(10, DecimalDigit(ch))])
          [] OTHER -> Fail("INVALID_CONTENT_LENGTH")

\* A CR hands the value over before it counts it, an LF after.
HeaderValue ==
    /\ In({"s_header_value"})
    /\ LET h == parser.header_state
           ended == To("s_header_almost_done")
       IN  CASE ch = CR -> Data("header_value", ended, [InScan EXCEPT !.pc = "scanned"], run.at - 1, run.at + 1)
             [] ch = LF /\ ScanCount(run.at) > MaxHeaderSize -> Overflow(run.at)
             [] ch = LF /\ ScanCount(run.at) <= MaxHeaderSize ->
                    Data("header_value", ended, Again(Scanned(run.at)), run.at - 1, run.at)
             [] ch = "NUL" /\ ~parser.lenient -> Fail("INVALID_HEADER_TOKEN")
             [] OTHER ->
                    IF h \in {"h_content_length_num", "h_content_length_ws"} THEN ContentLengthByte
                    ELSE ScanOn([parser EXCEPT
                            !.header_state = Lookup(TransferRules \cup ConnectionRules, h, ch, "h_general"),
                            !.flags = @ \cup IF ch = "," THEN ConnectionFlag(h) ELSE {}])

\* The flags that a header sets when its value has ended.
ValueFlags(h) == ConnectionFlag(h) \cup IF h = "h_transfer_encoding_chunked" THEN {"F_CHUNKED"} ELSE {}

HeaderValueLws ==
    /\ In({"s_header_value_lws"})
    /\ LET h == parser.header_state
       IN  IF ch = " "
           THEN Reexecute([parser EXCEPT !.state = "s_header_value_start",
                    !.header_state = IF h = "h_content_length_num" THEN "h_content_length_ws" ELSE h])
           ELSE Reexecute([parser EXCEPT !.state = "s_header_field_start", !.flags = @ \cup ValueFlags(h)])

\* The value was empty.
HeaderValueDiscardLws ==
    /\ In({"s_header_value_discard_lws"}) /\ ch # " "
    /\ IF parser.header_state = "h_content_length" THEN Fail("INVALID_CONTENT_LENGTH")
       ELSE Call([parser EXCEPT !.state = "s_header_field_start", !.flags = @ \cup ValueFlags(parser.header_state)],
                 Again(run), Piece("header_value", run.at, run.at - 1), Idle(run.at))

-------------------------------------------------------------------------------
(* The end of the headers                                                  *)

http_message_needs_eof(q) ==
    /\ q.type # "REQUEST"
    /\ ~(q.status_code \div 100 = 1 \/ q.status_code \in {204, 304} \/ "F_SKIPBODY" \in q.flags)
    /\ \/ "F_TRANSFER_ENCODING" \in q.flags /\ "F_CHUNKED" \notin q.flags
       \/ "F_CHUNKED" \notin q.flags /\ q.content_length = ULLONG_MAX

http_should_keep_alive(q) ==
    /\ IF q.version = "1.1" THEN "F_CONNECTION_CLOSE" \notin q.flags ELSE "F_CONNECTION_KEEP_ALIVE" \in q.flags
    /\ ~http_message_needs_eof(q)

\* NEW_MESSAGE()
NewMessage(q) ==
    [q EXCEPT !.state = IF ~http_should_keep_alive(q) THEN "s_dead"
                        ELSE IF q.type = "REQUEST" THEN "s_start_req" ELSE "s_start_res"]

BothLengthsNever(q) == FALSE                            \* fault: both headers are accepted
BothLengths(q) ==
    /\ {"F_TRANSFER_ENCODING", "F_CONTENTLENGTH"} \subseteq q.flags
    /\ ~q.lenient \/ "F_CHUNKED" \in q.flags

UpgradeOf(q) ==
    IF {"F_UPGRADE", "F_CONNECTION_UPGRADE"} \subseteq q.flags
    THEN q.type = "REQUEST" \/ q.status_code = 101
    ELSE q.method = "CONNECT"

InTrailerNever(q) == FALSE                              \* fault: the trailer is taken for a head
InTrailer(q) == "F_TRAILING" \in q.flags

\* on_headers_complete returns stream.skip: 1 for no body, 2 for no more HTTP.
\* Here a pause stores nread as well.
HeadersAlmostDone ==
    /\ In({"s_headers_almost_done"})
    /\ CASE ch # LF -> Refuse
         [] ch = LF /\ InTrailer(parser) -> NotifyAgain("chunk_complete", To("s_message_done"))
         [] ch = LF /\ ~InTrailer(parser) /\ BothLengths(parser) -> Fail("UNEXPECTED_CONTENT_LENGTH")
         [] OTHER ->
                NotifyAgain("headers_complete",
                    [parser EXCEPT !.state = "s_headers_done", !.nread = run.nread,
                        !.upgrade = UpgradeOf(parser) \/ stream.skip = 2,
                        !.flags = @ \cup IF stream.skip > 0 THEN {"F_SKIPBODY"} ELSE {}])

\* The message has ended; after an upgrade the call returns.
EndMessage(q, r) ==
    Call([NewMessage(q) EXCEPT !.nread = IF q.upgrade THEN r.nread ELSE @],
         IF q.upgrade THEN Idle(run.at + 1) ELSE Next1(r), <<<<"message_complete">>>>, Idle(run.at + 1))

\* The byte is the LF that ended the headers.
HeadersDone ==
    /\ In({"s_headers_done"})
    /\ LET q == [parser EXCEPT !.nread = 0]
           r == [run EXCEPT !.nread = 0]
           has(f) == f \in q.flags
           body(s) == Set([q EXCEPT !.state = s], Next1(r))
           noBody == ~has("F_CHUNKED") /\ q.content_length \in {0, ULLONG_MAX}
       IN  IF q.upgrade /\ (q.method = "CONNECT" \/ has("F_SKIPBODY") \/ noBody) THEN EndMessage(q, r)
           ELSE IF has("F_SKIPBODY") THEN EndMessage(q, r)
           ELSE IF has("F_CHUNKED") THEN body("s_chunk_size_start")
           ELSE IF has("F_TRANSFER_ENCODING") THEN
                    IF q.type = "REQUEST" /\ ~q.lenient
                    THEN Set([q EXCEPT !.errno = "INVALID_TRANSFER_ENCODING"], Idle(run.at))
                    ELSE body("s_body_identity_eof")
           ELSE IF q.content_length \notin {0, ULLONG_MAX} THEN body("s_body_identity")
           ELSE IF q.content_length = 0 \/ ~http_message_needs_eof(q) THEN EndMessage(q, r)
           ELSE body("s_body_identity_eof")

-------------------------------------------------------------------------------
(* The body                                                                *)

\* to_read bytes of the body from p on, and the last of them.
Left   == run.end - run.at + 1
ToReadAll == Left                                       \* fault: the rest of the piece
ToRead == IF parser.content_length < Left THEN parser.content_length ELSE Left
LastRead == run.at + ToRead - 1

BodyIdentity ==
    /\ In({"s_body_identity"})
    /\ LET q == [parser EXCEPT !.content_length = @ - ToRead]
           r == [MarkAt(run, "body") EXCEPT !.at = LastRead]
       IN  IF q.content_length > 0 THEN Set(q, Next1(r))
           ELSE Call([q EXCEPT !.state = "s_message_done"], MarkCleared(Again(r), "body"),
                     Piece("body", r.mark["body"], LastRead), Idle(LastRead))

BodyIdentityEof ==
    /\ In({"s_body_identity_eof"})
    /\ Set(parser, Next1([MarkAt(run, "body") EXCEPT !.at = run.end]))

\* Reached again on the last byte of the body.
MessageDone == In({"s_message_done"}) /\ EndMessage(parser, run)

HexDigit(c) == CASE c = "a" -> 10 [] c = "c" \/ c = "C" -> 12 [] c = "f" -> 15 [] OTHER -> DecimalDigit(c)
IsHex(c) == c \in Digits \cup HexLetters

ChunkSizeStart ==
    /\ In({"s_chunk_size_start"})
    /\ IF IsHex(ch) THEN Break([parser EXCEPT !.content_length = HexDigit(ch), !.state = "s_chunk_size"])
       ELSE Refuse

ChunkSize ==
    /\ In({"s_chunk_size"}) /\ ch \notin {CR, ";", " "}
    /\ CASE ~IsHex(ch) -> Refuse
         [] IsHex(ch) /\ TooLong(16) -> Fail("INVALID_CONTENT_LENGTH")
         [] OTHER -> Break([parser EXCEPT !.content_length = Widen(16, HexDigit(ch))])

NreadKept(n) == n                                       \* fault: nread is not reset
NreadReset(n) == 0

\* A chunk of length 0 is the last; the trailer follows.
ChunkSizeAlmostDone ==
    /\ In({"s_chunk_size_almost_done"})
    /\ IF ch # LF THEN Refuse
       ELSE Notify("chunk_header",
                IF parser.content_length = 0
                THEN [parser EXCEPT !.nread = 0, !.flags = @ \cup {"F_TRAILING"}, !.state = "s_header_field_start"]
                ELSE [parser EXCEPT !.nread = 0, !.state = "s_chunk_data"],
                [run EXCEPT !.nread = NreadReset(@)])

ChunkData ==
    /\ In({"s_chunk_data"})
    /\ Set([parser EXCEPT !.content_length = @ - ToRead,
              !.state = IF parser.content_length = ToRead THEN "s_chunk_data_almost_done" ELSE @],
           Next1([MarkAt(run, "body") EXCEPT !.at = LastRead]))

ChunkDataAlmostDone ==
    /\ In({"s_chunk_data_almost_done"})
    /\ IF ch # CR THEN Refuse ELSE CallbackData("body", To("s_chunk_data_done"))

ChunkDataDone ==
    /\ In({"s_chunk_data_done"})
    /\ IF ch # LF THEN Refuse
       ELSE Notify("chunk_complete", [parser EXCEPT !.nread = 0, !.state = "s_chunk_size_start"],
                   [run EXCEPT !.nread = NreadReset(@)])

-------------------------------------------------------------------------------

Loop == NextByte \/ ScanEnds \/ EndOfData \/ Move \/ MoveRefused

FirstLine ==
    \/ StartReqOrRes \/ ResOrRespH \/ StartRes \/ StartReq \/ ReqMethod \/ UrlFirst \/ UrlByte \/ ReqIce
    \/ ReqVersion \/ ResVersion \/ FirstStatusCode \/ StatusCode \/ StatusStart \/ Status

Headers ==
    \/ HeaderFieldStart \/ HeaderField \/ HeaderValueStart \/ HeaderValue \/ HeaderValueLws
    \/ HeaderValueDiscardLws \/ HeadersAlmostDone \/ HeadersDone

Body ==
    \/ BodyIdentity \/ BodyIdentityEof \/ MessageDone \/ ChunkSizeStart \/ ChunkSize
    \/ ChunkSizeAlmostDone \/ ChunkData \/ ChunkDataAlmostDone \/ ChunkDataDone

Feed == (\E n \in PieceLens \cup {Size - run.at + 1} : http_parser_execute(n)) \/ http_parser_execute_eof

Next == Feed \/ http_parser_pause \/ Loop \/ FirstLine \/ Headers \/ Body

Spec == Init /\ [][Next]_vars

\* A call runs to its end; the application unpauses and feeds what there is.
FairSpec == Spec /\ WF_vars(Next)

-------------------------------------------------------------------------------
(* Properties                                                              *)

Flags == {"F_CHUNKED", "F_CONNECTION_KEEP_ALIVE", "F_CONNECTION_CLOSE", "F_CONNECTION_UPGRADE", "F_TRAILING",
          "F_UPGRADE", "F_SKIPBODY", "F_CONTENTLENGTH", "F_TRANSFER_ENCODING"}

\* Type invariant.
TypeOK ==
    /\ pauses \in 0 .. MaxPauses
    /\ parser.flags \subseteq Flags
    /\ parser.content_length \in 0 .. ULLONG_MAX /\ parser.nread \in Nat
    /\ parser.index \in 0 .. 2 /\ parser.status_code \in 0 .. 999
    /\ run.pc \in {"idle", "top", "switch", "scanned", "return", "closed"}
    /\ run.at \in 1 .. Size + 1 /\ run.end \in 0 .. Size /\ run.nread \in Nat
    /\ run.mark \in [DataKinds -> 0 .. Size] /\ run.start \in 0 .. Size

\* Wherever the connection is cut into pieces, and whichever callback pauses,
\* what the callbacks get is what was sent, in order, no byte lost or twice.
Given == [i \in DOMAIN log |-> IF log[i][1] \in DataKinds THEN <<log[i][1], log[i][2]>> ELSE log[i]]
DeliversInOrder == stream.error # "any" => IsPrefix(Given, stream.events)

\* When the connection has been fed, all of it has been delivered, up to the
\* byte after an upgrade or the error that the standard asks for; it is refused as
\* too long only if a head is, with the trailer before it, or one of exactly the
\* limit was paused at its end.  (Inside a header, what was delivered before the
\* error depends on how it was cut.)
Finished == run.pc = "closed" \/ (run.pc = "idle" /\ (Upgraded \/ parser.errno \notin {"OK", "PAUSED"}))
PausedAtLimit == /\ stream.longestHead = MaxHeaderSize /\ pauses > 0
                 /\ log # <<>> /\ log[Len(log)] = <<"headers_complete">>
EndsAsSent ==
    Finished /\ parser.errno # "CB" /\ stream.error # "any" =>
        IF parser.errno = "HEADER_OVERFLOW" THEN stream.longestHead > MaxHeaderSize \/ PausedAtLimit
        ELSE /\ stream.cut \/ Given = stream.events
             /\ parser.errno = stream.error \/ (parser.errno = "PAUSED" /\ stream.error = "OK")
             /\ stream.error = "OK" => run.at = stream.stop + 1

\* Whatever bytes come, however they are cut and whichever callback pauses, the
\* bytes handed over are the connection's in its order, none of them twice; and
\* the pieces of a string that a call's end or a pause cuts are adjacent.  (The
\* fold of a header's value is left out of it.)
IsByte(e) == e[1] \in DataKinds /\ e[2] # ""
Place(e) == e[3]
HandedOverInOrder ==
    /\ \A j \in DOMAIN log : IsByte(log[j]) => \A i \in 1 .. j - 1 : IsByte(log[i]) => Place(log[i]) < Place(log[j])
    /\ \A i \in 1 .. Len(log) - 1 :
          log[i][1] = log[i + 1][1] /\ IsByte(log[i + 1]) /\ log[i][1] # "header_value" =>
              IsByte(log[i]) /\ Place(log[i + 1]) = Place(log[i]) + 1

\* Whatever bytes come, the callbacks keep the order of a message.
CallbacksAfter ==
    [message_begin |-> {"url", "status"}, url |-> {"url", "header_field", "headers_complete"},
     status |-> {"status", "header_field", "headers_complete"}, header_field |-> {"header_field", "header_value"},
     header_value |-> {"header_value", "header_field", "headers_complete", "chunk_complete"},
     headers_complete |-> {"body", "chunk_header", "message_complete"},
     body |-> {"body", "chunk_complete", "message_complete"},
     chunk_header |-> {"body", "header_field", "chunk_complete"},
     chunk_complete |-> {"chunk_header", "message_complete"}, message_complete |-> {"message_begin"}]
CallbackOrder ==
    /\ log # <<>> => log[1] = <<"message_begin">>
    /\ \A i \in 1 .. Len(log) - 1 : log[i + 1][1] \in CallbacksAfter[log[i][1]]

\* Why a call can end anywhere: at the top of the loop the marks are those that
\* the next call would set from the state alone, and never two of them.
MarksFollowState ==
    /\ Cardinality(Pending) <= 1
    /\ run.pc = "top" => Pending \ {"body"} = MarkedAtEntry(parser.state)

\* The assertions of http_parser_execute, about lengths, chunks and headers.
HeaderFieldStates ==
    {"h_general", "h_C", "h_matching_proxy_connection", "h_matching_transfer_encoding", "h_matching_upgrade",
     "h_connection", "h_content_length", "h_transfer_encoding", "h_upgrade"}
AssertionsHold ==
    /\ In({"s_chunk_size_start"}) => run.nread = 1
    /\ parser.state \in {"s_chunk_size_start", "s_chunk_size", "s_chunk_parameters", "s_chunk_size_almost_done",
                         "s_chunk_data", "s_chunk_data_almost_done", "s_chunk_data_done"}
            => "F_CHUNKED" \in parser.flags
    /\ In({"s_header_field"}) => parser.header_state \in HeaderFieldStates
    /\ In({"s_header_value"}) => parser.header_state \notin {"h_connection", "h_transfer_encoding"}
    /\ In({"s_chunk_data", "s_body_identity"}) => parser.content_length \notin {0, ULLONG_MAX}
    /\ parser.state = "s_chunk_data_almost_done" => parser.content_length = 0

\* Whatever bytes come: as long as no callback has paused, the first head of a
\* connection is accepted, and a call returns to ask for more of it, only while
\* the bytes read are within the limit.
Announced(l) == \E i \in DOMAIN l : l[i] = <<"headers_complete">>
HeadWithinLimit ==
    [][pauses = 0 /\ ~Announced(log) =>
          /\ Announced(log') => run.at <= MaxHeaderSize
          /\ run'.pc = "idle" /\ parser'.errno = "OK" => run'.at - 1 <= MaxHeaderSize]_vars

\* The states of a byte that is executed again (goto reexecute) and of the end
\* of a call are passed in one direction: how many may still come at this byte.
InCall(r) == r.pc \in {"top", "switch", "scanned", "return"}
Turns(s) == CASE s \in {"s_header_value_lws", "s_header_value_discard_lws"} -> 4
              [] s \in {"s_header_field_start", "s_res_status_code"} -> 3
              [] s \in {"s_headers_almost_done", "s_res_status_start", "s_start_req_or_res",
                        "s_header_value", "s_body_identity"} -> 2
              [] OTHER -> 1
Ahead(q, r) == IF r.at > r.end THEN (CASE r.pc = "switch" -> 2 [] r.pc = "top" -> 1 [] OTHER -> 0)
               ELSE (CASE r.pc = "top" -> 5 [] r.pc = "switch" -> Turns(q.state) [] OTHER -> 0)

\* No call loops, whatever bytes it is given and whatever the callbacks do: each
\* step of a call goes to a later byte, or brings the end of this byte nearer.
Advances(r, s) == r.at > run.at \/ (r.at = run.at /\ s < Ahead(parser, run))
CallsProgress ==
    [][InCall(run) /\ InCall(run') => run'.end = run.end /\ Advances(run', Ahead(parser', run'))]_vars

\* The connection is fed to its end: no call returns without having used a byte
\* or found an error, none loops.
Finishes == <>Finished

\* The URL of the last message of l, as far as it was handed over: what comes
\* after place b, where the message began, up to place e.
Begins(l, b) == l[b] = <<"message_begin">> /\ \A i \in b + 1 .. Len(l) : l[i] # <<"message_begin">>
UrlEnds(l, b, e) == (\A i \in b + 1 .. e : l[i][1] = "url") /\ (e < Len(l) => l[e + 1][1] # "url")
UrlOf(l) ==
    LET b == CHOOSE b \in DOMAIN l : Begins(l, b)
        e == CHOOSE e \in b .. Len(l) : UrlEnds(l, b, e)
    IN  [i \in 1 .. e - b |-> l[b + i][2]]
Url == UrlOf(log)

\* Whatever bytes come: http_parser_execute hands over only what the automaton
\* of http_parser_parse_url accepts too, however the URL was cut; the parts that
\* http_parser_parse_url then reports are not empty, lie in the URL, and follow
\* each other as those of a URL do, unless offsets no longer fit a uint16_t.
UrlPartsInOrder ==
    log # <<>> /\ log[Len(log)] = <<"headers_complete">> =>
        LET connect == parser.method = "CONNECT"
            parts == http_parser_parse_url(Url, connect).fields
        IN  UrlScan(Url, connect).s # "s_dead"
            /\ (Len(Url) <= UINT16_MAX => InUrl(parts, Len(Url)) /\ PartsInOrder(parts))

\* http_parser_parse_url cuts the URL of a request, as it was delivered, into
\* the parts it was composed of, and refuses what is not a URL.
UrlFieldsAsComposed ==
    log # <<>> /\ log[Len(log)] = <<"headers_complete">> /\ stream.url.parts # <<>> =>
        LET u == http_parser_parse_url(Url, parser.method = "CONNECT")
        IN  /\ u.ok = stream.url.ok
            /\ u.ok => [k \in DOMAIN u.fields |->
                          SubSeq(Url, u.fields[k].off, u.fields[k].off + u.fields[k].len - 1)] = stream.url.parts

-------------------------------------------------------------------------------
(* What comments of the code say and the code does not do                  *)

\* "too many header bytes seen" is reported only when there are too many in a head.
OverflowMeansTooLong == parser.errno = "HEADER_OVERFLOW" => stream.longestHead > MaxHeaderSize
===============================================================================
