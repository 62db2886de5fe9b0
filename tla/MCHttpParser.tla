------------------------------ MODULE MCHttpParser ------------------------------
(* Connections for HttpParser: each is one way to use the protocol, or to  *)
(* break it.                                                               *)
EXTENDS HttpParser, HttpMessages

OK200 == Code("2", "0", "0")
Plain200(headers, chunks) == Response(OK200, <<"x", "a">>, "1.1", headers, chunks)
Lenient(type, messages) == Connection(type, 0, TRUE, messages)
Chunks == WithTrailer(Get(<<Chunked>>, <<2, 1>>), <<Other>>)

\* Messages that follow each other, and what ends a connection.
Persistence ==
    { Requests(<<Get(<<Other>>, <<>>), Get(<<Close>>, <<>>), Get(<<>>, <<>>)>>),
      Requests(<<Request(<<"*">>, "1.0", <<KeepAlive>>, <<>>), Request(<<"/">>, "1.0", <<Empty>>, <<>>),
                 Get(<<>>, <<>>)>>),
      Requests(<<Request(<<"/", "x">>, "0.9", <<>>, <<>>)>>),
      Requests(<<EndingWith(Request(<<"/">>, "0.9", <<Empty>>, <<>>), <<LF>>)>>),
      Requests(<<EndingWith(Get(<<Other, Empty, FoldedAtStart>>, <<>>), <<LF>>), Get(<<>>, <<>>)>>),
      Requests(<<Get(<<Folded, Empty>>, <<>>), Get(<<FoldedAtStart>>, <<>>)>>),
      Requests(<<MethodRequest("SOURCE", "S", "OURCE", <<"/">>, <<"I", "CE/">>, <<>>, <<>>)>>) }

Bodies ==
    { Requests(<<Get(<<Length(<<"1", "1">>)>>, <<11>>), Get(<<>>, <<>>)>>),
      Requests(<<Get(<<Length(<<"0">>)>>, <<>>), Get(<<Length(<<"3">>), Close>>, <<3>>)>>),
      Requests(<<Chunks, Get(<<>>, <<>>)>>),
      Requests(<<WithTrailer(Get(<<LastChunked>>, <<>>), <<Empty, Empty>>), Get(<<>>, <<>>)>>),
      Responses(<<Plain200(<<Length(<<"2">>)>>, <<2>>), Plain200(<<>>, <<3>>)>>),
      Responses(<<Response(OK200, <<>>, "1.1", <<Chunked>>, <<1>>), Response(Code("3", "0", "4"), <<>>, "1.1", <<>>, <<>>)>>),
      Responses(<<Response(Code("1", "0", "0"), <<>>, "1.1", <<>>, <<>>),
                  Response(Code("2", "0", "4"), <<"x">>, "1.0", <<KeepAlive>>, <<>>), Plain200(<<Coded>>, <<2>>)>>),
      Responses(<<EndingWith(Response(OK200, <<"x">>, "1.1", <<Length(<<"1">>)>>, <<1>>), <<LF>>)>>),
      Connection("RESPONSE", 1, FALSE, <<Plain200(<<Length(<<"2">>)>>, <<>>), Plain200(<<>>, <<>>)>>),
      Connection("BOTH", 0, FALSE, <<Plain200(<<Length(<<"1">>)>>, <<1>>)>>),
      Connection("BOTH", 0, FALSE, <<Get(<<>>, <<>>), Get(<<>>, <<>>)>>),
      Connection("BOTH", 0, FALSE, <<MethodRequest("HEAD", "H", "EAD", <<"/">>, <<"H", "TTP/">>, <<Close>>, <<>>)>>) }

\* The size of the first chunk is symbol 21.
OneChunk == Get(<<Chunked>>, <<1>>)
ChunkSizes ==
    { Inserted(Requests(<<OneChunk, Get(<<>>, <<>>)>>), 21, <<";", "x", ";">>),
      Inserted(Requests(<<OneChunk>>), 21, <<" ">>),
      Inserted(Requests(<<OneChunk>>), 20, <<"0", "0">>),
      Refused(Inserted(Requests(<<OneChunk>>), 21, <<"f", "C">>), "INVALID_CONTENT_LENGTH"),
      Refused(Inserted(Requests(<<OneChunk>>), 21, <<"x">>), "INVALID_CHUNK_SIZE") }

\* After an upgrade come the bytes of another protocol.
Upgrades ==
    { Requests(<<Get(<<UpgradeTo, ToUpgrade>>, <<>>), Get(<<>>, <<>>)>>),
      Requests(<<Get(<<UpgradeTo, CloseAndUpgrade, Length(<<"2">>)>>, <<2>>), Get(<<>>, <<>>)>>),
      Requests(<<Get(<<UpgradeTo, Chunked, ToUpgrade>>, <<1>>), Get(<<>>, <<>>)>>),
      Requests(<<Get(<<UpgradeTo>>, <<>>), Get(<<ToUpgrade>>, <<>>)>>),
      Requests(<<Connect(<<"a", ":", "1">>, <<Length(<<"3">>)>>, <<3>>), Get(<<>>, <<>>)>>),
      Responses(<<Response(Code("1", "0", "1"), <<"x">>, "1.1", <<UpgradeTo, ToUpgrade>>, <<>>), Plain200(<<>>, <<>>)>>),
      Responses(<<Plain200(<<UpgradeTo, ToUpgrade, Length(<<"1">>)>>, <<1>>)>>),
      Connection("RESPONSE", 2, FALSE, <<Plain200(<<Length(<<"2">>)>>, <<>>), Plain200(<<>>, <<>>)>>) }

\* Messages whose length is not well defined.
Ambiguous ==
    { Requests(<<Get(<<Chunked, Length(<<"1">>)>>, <<1>>)>>),
      Requests(<<Get(<<Coded>>, <<1>>)>>),
      Requests(<<Get(<<Length(<<"1">>), Coded>>, <<1>>)>>),
      Lenient("REQUEST", <<Get(<<Length(<<"2">>), Coded>>, <<2>>)>>),
      Lenient("REQUEST", <<Get(<<Length(<<"2">>), LastChunked>>, <<2>>)>>),
      Refused(Requests(<<Get(<<Length(<<"1">>), Length(<<"1">>)>>, <<>>)>>), "UNEXPECTED_CONTENT_LENGTH"),
      Refused(Requests(<<Get(<<Length(<<"2", "5", "0", "0">>)>>, <<>>)>>), "INVALID_CONTENT_LENGTH"),
      Refused(Requests(<<Get(<<Length(<<"1", " ", "1">>)>>, <<>>)>>), "INVALID_CONTENT_LENGTH"),
      Refused(Requests(<<Get(<<Length(<<>>)>>, <<>>)>>), "INVALID_CONTENT_LENGTH"),
      Refused(Requests(<<Get(<<Length(<<"x">>)>>, <<>>)>>), "INVALID_CONTENT_LENGTH"),
      Refused(Requests(<<Get(<<FoldedLength>>, <<>>)>>), "INVALID_CONTENT_LENGTH"),
      Refused(Requests(<<Get(<<Binary>>, <<>>)>>), "INVALID_HEADER_TOKEN"),
      Lenient("REQUEST", <<Get(<<Binary>>, <<>>)>>),
      Refused(Inserted(Responses(<<Response(OK200, <<>>, "1.1", <<>>, <<>>)>>), 7, <<"0">>), "INVALID_STATUS") }

LongHead == <<Other, Other, Other, Other, Empty>>
Long ==
    { Requests(<<Get(LongHead, <<>>)>>),
      Requests(<<Get(<<Other>>, <<>>), Get(LongHead, <<>>)>>),
      Requests(<<WithTrailer(Get(<<Chunked>>, <<1>>), <<Other>>), Get(<<Other, Other>>, <<>>)>>) }

\* The head has as many symbols as are allowed.
HeadsAtLimit ==
    { Requests(<<Get(<<Folded, Other>>, <<>>), Get(<<Other>>, <<>>)>>),
      Requests(<<Request(<<"/", "x">>, "1.1", <<Empty, Empty, Length(<<"3">>)>>, <<3>>)>>),
      Responses(<<Response(OK200, <<>>, "1.1", <<Chunked, Empty, UpgradeTo>>, <<1>>), Response(OK200, <<>>, "1.1", <<>>, <<>>)>>),
      Requests(<<WithTrailer(Get(<<Chunked>>, <<1>>), <<Other>>), Get(<<Other>>, <<>>)>>) }

Urls ==
    { Asks([SCHEMA |-> <<"p">>, HOST |-> <<"a", "x">>, PATH |-> <<"/">>], TRUE),
      Asks([SCHEMA |-> <<"p", "x">>, USERINFO |-> <<"a", ":", "1">>, HOST |-> <<"a", ".", "f">>, PORT |-> <<"8", "0">>,
            PATH |-> <<"/", "@">>, QUERY |-> <<"x", "?", "/">>, FRAGMENT |-> <<"a", "#", "?">>], TRUE),
      Asks([SCHEMA |-> <<"p">>, USERINFO |-> <<"x">>, HOST |-> <<"a", ":", "1", "%", "x", "t">>, PORT |-> <<"0">>,
            QUERY |-> <<"a">>], TRUE),
      Asks([SCHEMA |-> <<"p">>, HOST |-> <<":", ":">>, QUERY |-> <<"a">>, FRAGMENT |-> <<"?">>], TRUE),
      Refused(Asks([SCHEMA |-> <<"p">>, HOST |-> <<"a">>, FRAGMENT |-> <<"a">>], FALSE), "INVALID_URL"),
      Refused(Asks([SCHEMA |-> <<"p">>, USERINFO |-> <<"a", "@">>, HOST |-> <<"a">>], FALSE), "INVALID_URL"),
      Refused(Asks([USERINFO |-> <<"a">>, HOST |-> <<"a">>], FALSE), "INVALID_URL"),
      Asks([SCHEMA |-> <<"p">>, HOST |-> <<"a">>, PORT |-> <<"1", "0", "0">>], FALSE),
      Asks([SCHEMA |-> <<"p">>, PATH |-> <<"/">>], FALSE),
      Asks([SCHEMA |-> <<"p">>, HOST |-> <<":", "x">>, PATH |-> <<"/">>], FALSE),
      Asks([PATH |-> <<"/", ":">>, QUERY |-> <<"[">>, FRAGMENT |-> <<"a">>], TRUE),
      Asks([PATH |-> <<"*">>], TRUE),
      Tunnels([HOST |-> <<"a">>, PORT |-> <<"9", "9">>], TRUE),
      Tunnels([HOST |-> <<"a">>], FALSE),
      Tunnels([USERINFO |-> <<"a">>, HOST |-> <<"x">>, PORT |-> <<"1">>], FALSE) }

\* A request, a chunked one and a response with one symbol changed, or broken off.
Samples == { Requests(<<Get(<<Empty, Length(<<"1">>)>>, <<1>>)>>), Requests(<<Get(<<Chunked>>, <<1>>)>>),
             Responses(<<Response(OK200, <<"x">>, "1.1", <<Folded>>, <<>>)>>) }
Broken ==
    UNION {{Garbled(c, i, ":") : i \in DOMAIN c.syms} \cup {Garbled(c, i, LF) : i \in {3, 8, 12, 18}}
             \cup {Truncated(c, 3 * i) : i \in 1 .. Len(c.syms) \div 3} : c \in Samples}

MCStreams == Persistence \cup Bodies \cup ChunkSizes \cup Upgrades \cup Ambiguous \cup Long \cup HeadsAtLimit \cup Urls \cup Broken
===============================================================================
