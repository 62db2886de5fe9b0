-------------------------------- MODULE HttpUrl --------------------------------
(***************************************************************************)
(* URLs in http_parser.c: the automaton that http_parser_execute and       *)
(* http_parser_parse_url share, that of the host part, and the fields that *)
(* http_parser_parse_url reports.                                          *)
(*                                                                         *)
(* A string is a sequence of symbols.  A symbol is a byte, one of a class  *)
(* that the code treats alike, or a lexeme that it compares with a literal *)
(* ("transfer-encoding" without its "t"): a literal is two symbols.        *)
(* HTTP_PARSER_STRICT is 1, as in the build.                               *)
(***************************************************************************)
EXTENDS Integers, Sequences, FiniteSets, SequencesExt

CONSTANTS
    MaxPort,      \* 65535 in the code
    UINT16_MAX    \* largest offset or length of a field, 65535 in the code

ASSUME UrlAssumption == MaxPort \in Nat /\ UINT16_MAX \in Nat \ {0}

CR == "CR"
LF == "LF"
Digits  == {"0", "1", "2", "3", "4", "5", "6", "7", "8", "9"}
Letters == {"a", "f", "c", "k", "p", "t", "u", "x", "G", "C", "H", "S", "I"}
Words   == {"ET", "ONNECT", "EAD", "OURCE", "onnection", "ontent-length", "ransfer-encoding",
            "pgrade", "roxy-connection", "hunked", "lose", "eep-alive"}
Punct   == {":", ",", ";", "/", "?", "#", "@", "[", "]", "%", ".", "*"}
Symbols == Digits \cup Letters \cup Words \cup Punct
             \cup {" ", CR, LF, "NUL", "TTP/", "CE/", "1.1", "1.0"}

HexLetters == {"a", "c", "f", "C"}
UserInfo   == Letters \cup Digits \cup {".", "*", "%", ";", ":", ","}
UrlChar    == Symbols \ {" ", CR, LF, "NUL", "?", "#"}
HostChar   == Letters \cup Digits \cup {"."}

\* An automaton is a set of rules <<states, symbols, next state>>.
Lookup(rules, s, ch, default) ==
    LET hits == {r \in rules : s \in r[1] /\ ch \in r[2]}
    IN  IF hits = {} THEN default ELSE (CHOOSE r \in hits : TRUE)[3]

-------------------------------------------------------------------------------
(* The URL, byte by byte                                                   *)

UrlServer == {"s_req_server_start", "s_req_server", "s_req_server_with_at"}
UrlTail   == {"s_req_path", "s_req_query_string_start", "s_req_query_string",
              "s_req_fragment_start", "s_req_fragment"}
UrlStates == UrlServer \cup UrlTail
               \cup {"s_req_schema", "s_req_schema_slash", "s_req_schema_slash_slash"}

UrlServerRules ==
    { <<{"s_req_spaces_before_url"}, {"/", "*"}, "s_req_path">>,
      <<{"s_req_spaces_before_url", "s_req_schema"}, Letters, "s_req_schema">>,
      <<{"s_req_schema"}, {":"}, "s_req_schema_slash">>,
      <<{"s_req_schema_slash"}, {"/"}, "s_req_schema_slash_slash">>,
      <<{"s_req_schema_slash_slash"}, {"/"}, "s_req_server_start">>,
      <<UrlServer, {"/"}, "s_req_path">>,
      <<UrlServer, {"?"}, "s_req_query_string_start">>,
      <<UrlServer \ {"s_req_server_with_at"}, {"@"}, "s_req_server_with_at">>,
      <<UrlServer, UserInfo \cup {"[", "]"}, "s_req_server">> }

UrlTailRules ==
    { <<{"s_req_path"}, UrlChar, "s_req_path">>,
      <<{"s_req_path"}, {"?"}, "s_req_query_string_start">>,
      <<{"s_req_query_string_start", "s_req_query_string"}, UrlChar \cup {"?"}, "s_req_query_string">>,
      <<{"s_req_path", "s_req_query_string_start", "s_req_query_string"}, {"#"}, "s_req_fragment_start">>,
      <<{"s_req_fragment_start"}, {"#"}, "s_req_fragment_start">>,
      <<{"s_req_fragment_start"}, UrlChar \cup {"?"}, "s_req_fragment">>,
      <<{"s_req_fragment"}, UrlChar \cup {"?", "#"}, "s_req_fragment">> }

parse_url_char(s, ch) == Lookup(UrlServerRules \cup UrlTailRules, s, ch, "s_dead")

HostRules ==
    { <<{"s_http_userinfo", "s_http_userinfo_start"}, {"@"}, "s_http_host_start">>,
      <<{"s_http_userinfo", "s_http_userinfo_start"}, UserInfo, "s_http_userinfo">>,
      <<{"s_http_host_start"}, {"["}, "s_http_host_v6_start">>,
      <<{"s_http_host_start", "s_http_host"}, HostChar, "s_http_host">>,
      <<{"s_http_host", "s_http_host_v6_end"}, {":"}, "s_http_host_port_start">>,
      <<{"s_http_host_v6", "s_http_host_v6_zone"}, {"]"}, "s_http_host_v6_end">>,
      <<{"s_http_host_v6", "s_http_host_v6_start"}, Digits \cup HexLetters \cup {":", "."}, "s_http_host_v6">>,
      <<{"s_http_host_v6"}, {"%"}, "s_http_host_v6_zone_start">>,
      <<{"s_http_host_v6_zone", "s_http_host_v6_zone_start"}, HostChar \cup {"%"}, "s_http_host_v6_zone">>,
      <<{"s_http_host_port", "s_http_host_port_start"}, Digits, "s_http_host_port">> }

http_parse_host_char(s, ch) == Lookup(HostRules, s, ch, "s_http_host_dead")

-------------------------------------------------------------------------------
(* The fields                                                              *)

\* The off and len of a field are a uint16_t.
Wrapped(n) == n % (UINT16_MAX + 1)

\* struct http_parser_url: field_set is the domain of the field data.
FieldData(k, off, len) == [x \in {k} |-> [off |-> off, len |-> len]]
Merge(f, g) == [k \in DOMAIN f \cup DOMAIN g |-> IF k \in DOMAIN f THEN f[k] ELSE g[k]]

\* fault: the length of the host is not reset before the host is cut again
GrowFromOld(fields, k, i, goesOn) ==
    LET old == IF k \in DOMAIN fields THEN fields[k].len ELSE 0
    IN  IF goesOn THEN [fields EXCEPT ![k].len = Wrapped(@ + 1)]
        ELSE Merge(FieldData(k, Wrapped(i - 1) + 1, Wrapped(old + 1)), fields)
\* Byte i belongs to field k: a run of it goes on or starts.  Bytes count from 1.
Grow(fields, k, i, goesOn) ==
    IF goesOn THEN [fields EXCEPT ![k].len = Wrapped(@ + 1)]
    ELSE Merge(FieldData(k, Wrapped(i - 1) + 1, 1), fields)

DecimalDigit(ch) == CHOOSE d \in 0 .. 9 : ch = <<"0", "1", "2", "3", "4", "5", "6", "7", "8", "9">>[d + 1]

HostFieldOf == [s_http_host |-> "HOST", s_http_host_v6 |-> "HOST", s_http_host_v6_zone_start |-> "HOST",
                s_http_host_v6_zone |-> "HOST", s_http_host_port |-> "PORT", s_http_userinfo |-> "USERINFO"]

HostStartWithout(found_at) == "s_http_host_start"       \* fault: the @ is forgotten
HostStart(found_at) == IF found_at THEN "s_http_userinfo_start" ELSE "s_http_host_start"

HostStep(h, i, c) ==
    LET s == http_parse_host_char(h.s, c)
        zone == s \in {"s_http_host_v6_zone_start", "s_http_host_v6_zone"}
    IN  [s |-> s, fields |-> IF s \notin DOMAIN HostFieldOf THEN h.fields
                             ELSE Grow(h.fields, HostFieldOf[s], i, s = h.s \/ zone)]

\* The host field is cut again: user information, host and port.
http_parse_host(buf, fields, found_at) ==
    LET from == fields["HOST"].off
        len  == fields["HOST"].len
        host[j \in 0 .. len] ==
            IF j = 0 THEN [s |-> HostStart(found_at), fields |-> fields]
            ELSE HostStep(host[j - 1], from + j - 1, buf[from + j - 1])
    IN  [ok |-> host[len].s \in {"s_http_host", "s_http_host_v6_end", "s_http_host_port"}, fields |-> host[len].fields]

UrlFieldOf == [s_req_schema |-> "SCHEMA", s_req_server_with_at |-> "HOST", s_req_server |-> "HOST",
               s_req_path |-> "PATH", s_req_query_string |-> "QUERY", s_req_fragment |-> "FRAGMENT"]

UrlStep(u, i, c) ==
    LET s == parse_url_char(u.s, c)
    IN  IF s \notin DOMAIN UrlFieldOf THEN [u EXCEPT !.s = s]
        ELSE [s |-> s, old |-> UrlFieldOf[s], found_at |-> u.found_at \/ s = "s_req_server_with_at",
              fields |-> Grow(u.fields, UrlFieldOf[s], i, UrlFieldOf[s] = u.old)]

UrlStart(is_connect) == [s |-> IF is_connect THEN "s_req_server_start" ELSE "s_req_spaces_before_url",
                         old |-> "MAX", found_at |-> FALSE, fields |-> <<>>]

UrlScan(buf, is_connect) ==
    LET url[i \in 0 .. Len(buf)] == IF i = 0 THEN UrlStart(is_connect) ELSE UrlStep(url[i - 1], i, buf[i])
    IN  url[Len(buf)]

PortValue(buf, port) ==
    LET value[j \in 0 .. port.len] == IF j = 0 THEN 0 ELSE value[j - 1] * 10 + DecimalDigit(buf[port.off + j - 1])
    IN  value[port.len]

\* What is returned for a URL that is refused.
NoUrl == [ok |-> FALSE, fields |-> <<>>, port |-> 0]

http_parser_parse_url(buf, is_connect) ==
    LET u == UrlScan(buf, is_connect)
        h == IF "HOST" \in DOMAIN u.fields THEN http_parse_host(buf, u.fields, u.found_at)
             ELSE [ok |-> "SCHEMA" \notin DOMAIN u.fields, fields |-> u.fields]
        port == IF "PORT" \in DOMAIN h.fields THEN PortValue(buf, h.fields["PORT"]) ELSE 0
    IN  IF \/ buf = <<>> \/ u.s = "s_dead" \/ ~h.ok
           \/ is_connect /\ DOMAIN h.fields # {"HOST", "PORT"}
           \/ port > MaxPort
        THEN NoUrl
        ELSE [ok |-> TRUE, fields |-> h.fields, port |-> port]

-------------------------------------------------------------------------------
(* What a caller relies on who reads the parts where they are said to be   *)

UrlParts == <<"SCHEMA", "USERINFO", "HOST", "PORT", "PATH", "QUERY", "FRAGMENT">>
LastByte(field) == field.off + field.len - 1
InUrl(fields, n) == \A k \in DOMAIN fields : fields[k].off > 0 /\ fields[k].len > 0 /\ LastByte(fields[k]) <= n
PartsInOrder(fields) ==
    \A i, j \in DOMAIN UrlParts : i < j /\ {UrlParts[i], UrlParts[j]} \subseteq DOMAIN fields =>
        LastByte(fields[UrlParts[i]]) < fields[UrlParts[j]].off
===============================================================================
