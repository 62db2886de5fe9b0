---------------------------- MODULE HttpParserProofs ----------------------------
(* Theorems about HttpParser for all connections, cuttings, pauses and     *)
(* limits: types, the order of the callbacks, the marks at which a call    *)
(* can end, and the assertions of the code.                                *)
EXTENDS HttpParser, FiniteSetTheorems, TLAPS

-------------------------------------------------------------------------------
(* The invariant: what each state of the parser implies                    *)

\* A callback without data is an event of its own, one with data an event per byte.
Notices == {"message_begin", "headers_complete", "chunk_header", "chunk_complete", "message_complete"}
Kinds   == DataKinds \cup Notices
Events  == {<<k>> : k \in Notices} \cup (DataKinds \X (Symbols \cup {""}) \X Nat)

\* The kind of the last callback.
LastKind(l) == IF l = <<>> THEN "none" ELSE l[Len(l)][1]

FieldNames == {"type", "lenient", "state", "header_state", "flags", "content_length", "nread", "index", "method",
               "version", "status_code", "upgrade", "errno"}
Typed(p) ==
    /\ DOMAIN p = FieldNames
    /\ p.flags \subseteq Flags /\ p.content_length \in 0 .. ULLONG_MAX /\ p.nread \in Nat
    /\ p.index \in 0 .. 2 /\ p.status_code \in 0 .. 999

\* The callback that each state comes after.
LineStates ==
    {"s_res_or_resp_H", "s_res_H", "s_res_http_major", "s_res_http_end", "s_res_first_status_code",
     "s_res_status_code", "s_res_status_start", "s_req_method", "s_req_spaces_before_url"}
VersionStates ==
    {"s_req_http_start", "s_req_http_H", "s_req_http_I", "s_req_http_major", "s_req_http_end",
     "s_req_line_almost_done"}
DiscardStates ==
    {"s_header_value_discard_ws", "s_header_value_discard_ws_almost_done", "s_header_value_discard_lws"}
ValueEndStates == {"s_header_almost_done", "s_header_value_lws", "s_header_value_start"}
FieldStates == {"s_header_field_start", "s_headers_almost_done"}
SizeStates  == {"s_chunk_size", "s_chunk_parameters", "s_chunk_size_almost_done"}
ChunkStates == {"s_chunk_size_start", "s_chunk_data", "s_chunk_data_almost_done", "s_chunk_data_done"}
                 \cup SizeStates
Identities  == {"s_body_identity", "s_body_identity_eof"}

BeforeField(flags) ==
    IF "F_TRAILING" \in flags THEN {"chunk_header", "header_value"} ELSE {"status", "url", "header_value"}

LineFits(s, flags, last) ==
    /\ s \in StartStates => last \in {"none", "message_complete"}
    /\ s \in LineStates => last = "message_begin"
    /\ s \in UrlStates => last \in {"message_begin", "url"}
    /\ s \in VersionStates => last = "url"
    /\ s = "s_res_status" => last \in {"message_begin", "status"}
    /\ s = "s_res_line_almost_done" => last = "status"
    /\ s \in LineStates \cup UrlStates \cup VersionStates \cup {"s_res_status", "s_res_line_almost_done"} =>
          "F_TRAILING" \notin flags

HeadFits(s, flags, last) ==
    /\ s \in FieldStates => last \in BeforeField(flags)
    /\ s = "s_header_field" => last \in BeforeField(flags) \cup {"header_field"}
    /\ s \in DiscardStates => last = "header_field"
    /\ s = "s_header_value" => last \in {"header_field", "header_value"}
    /\ s \in ValueEndStates => last = "header_value"
    /\ s = "s_headers_done" => last = "headers_complete"

BodyFits(s, last) ==
    /\ s \in {"s_chunk_size_start"} \cup SizeStates => last \in {"headers_complete", "chunk_complete"}
    /\ s \in {"s_chunk_data", "s_chunk_data_almost_done", "s_chunk_data_done"} => last \in {"chunk_header", "body"}
    /\ s \in Identities => last \in {"headers_complete", "body"}
    /\ s = "s_message_done" => last \in {"body", "chunk_complete"}

\* What the code asserts, state by state.
Asserted(p) ==
    /\ p.state \in ChunkStates => "F_CHUNKED" \in p.flags
    /\ p.state \in SizeStates => p.content_length < ULLONG_MAX
    /\ p.state \in {"s_chunk_data", "s_body_identity"} => p.content_length \in 1 .. ULLONG_MAX - 1
    /\ p.state = "s_chunk_data_almost_done" => p.content_length = 0
    /\ p.state = "s_header_field" => p.header_state \in HeaderFieldStates
    /\ p.state = "s_header_value" => p.header_state \notin {"h_connection", "h_transfer_encoding"}

States == StartStates \cup LineStates \cup UrlStates \cup VersionStates \cup DiscardStates \cup ValueEndStates
            \cup FieldStates \cup ChunkStates \cup Identities
            \cup {"s_res_status", "s_res_line_almost_done", "s_header_field", "s_header_value", "s_headers_done",
                  "s_message_done"}

Sound(p)       == Typed(p) /\ p.state \in States /\ Asserted(p)
Fits(p, last)  == LineFits(p.state, p.flags, last) /\ HeadFits(p.state, p.flags, last) /\ BodyFits(p.state, last)
ParserOK(p, last) == Sound(p) /\ Fits(p, last)

\* The locals of a call.
Places == {"idle", "top", "switch", "scanned", "return", "closed"}
RunTyped(r) ==
    /\ DOMAIN r = {"pc", "at", "end", "nread", "mark", "start"}
    /\ r.pc \in Places /\ r.at \in 1 .. Size + 1 /\ r.end \in 0 .. Size /\ r.nread \in Nat
    /\ r.mark \in [DataKinds -> 0 .. Size] /\ r.start \in 0 .. Size

PendingOf(r) == {k \in DataKinds : r.mark[k] # 0}

RangeOK(r) ==
    /\ RunTyped(r)
    /\ r.start <= r.at
    /\ r.pc \in {"top", "switch", "scanned", "return"} => r.at <= r.end + 1
    /\ r.pc = "scanned" => r.at <= r.end /\ r.start # 0

MarksOK(s, r) ==
    /\ r.pc \in {"idle", "closed", "return"} => PendingOf(r) = {}
    /\ r.pc \in {"top", "switch", "scanned"} => PendingOf(r) \ {"body"} = MarkedAtEntry(s)
    /\ "body" \in PendingOf(r) => s \in Identities \cup {"s_chunk_data", "s_chunk_data_almost_done"}
    /\ r.pc = "switch" /\ r.at > r.end => s \in {"s_header_field", "s_header_value"} /\ r.start \in 1 .. r.end
    /\ r.pc = "scanned" => s = "s_header_almost_done"

CountOK(p, r) ==
    p.state = "s_chunk_size_start" =>
        /\ r.pc \in {"top", "return"} => r.nread = 0
        /\ r.pc = "switch" => r.nread = 1
        /\ r.pc = "idle" /\ p.errno \in {"OK", "PAUSED"} => p.nread = 0

RunOK(p, r) == RangeOK(r) /\ MarksOK(p.state, r) /\ CountOK(p, r)

ParserInv ==
    /\ stream \in Streams /\ pauses \in 0 .. MaxPauses
    /\ log \in Seq(Events) /\ CallbackOrder
    /\ Sound(parser) /\ RunOK(parser, run)
    /\ run.pc # "closed" => Fits(parser, LastKind(log))

-------------------------------------------------------------------------------
(* How a step keeps it                                                     *)

LEMMA Stream ==
    ASSUME stream \in Streams
    PROVE  /\ stream.syms \in Seq(Symbols) /\ Size \in Nat
           /\ stream.type \in {"REQUEST", "RESPONSE", "BOTH"} /\ stream.lenient \in BOOLEAN
           /\ \A i \in 1 .. Size : stream.syms[i] \in Symbols
  BY ParserAssumption DEF Size

LEMMA RunSame ==
    ASSUME NEW q, NEW r, RunOK(q, r), stream' = stream, parser' = q, run' = r
    PROVE  RunOK(parser, run)'
  BY DEF RunOK, RangeOK, RunTyped, Size, MarksOK, CountOK

\* A step that calls nothing back.
LEMMA SetStep ==
    ASSUME ParserInv, NEW q, NEW r, Set(q, r), ParserOK(q, LastKind(log)), RunOK(q, r)
    PROVE  ParserInv'
<1>1. parser' = q /\ run' = r /\ stream' = stream /\ log' = log /\ pauses' = pauses
  BY DEF Set
<1>2. Sound(parser)' /\ Fits(parser, LastKind(log))'
  BY <1>1 DEF ParserOK
<1>3. RunOK(parser, run)'
  BY <1>1, RunSame
<1> QED
  BY <1>1, <1>2, <1>3 DEF ParserInv, CallbackOrder

\* What an error does not change.
Alike(p, q) ==
    /\ Typed(q) /\ q.state = p.state /\ q.flags = p.flags
    /\ q.content_length = p.content_length /\ q.header_state = p.header_state

LEMMA SameOK ==
    ASSUME NEW p, Sound(p), NEW q, Alike(p, q)
    PROVE  /\ Sound(q)
           /\ \A last : Fits(p, last) => Fits(q, last)
<1>1. Sound(q)
  BY DEF Sound, Asserted, Alike
<1> QED
  BY <1>1 DEF Fits, Alike

LEMMA IdleOK ==
    ASSUME NEW at \in 1 .. Size + 1, stream \in Streams
    PROVE  /\ RangeOK(Idle(at))
           /\ \A s : MarksOK(s, Idle(at))
           /\ \A p : (p.errno \notin {"OK", "PAUSED"} \/ p.nread = 0) => CountOK(p, Idle(at))
<1>1. 0 \in 0 .. Size /\ NoMarks \in [DataKinds -> 0 .. Size]
  BY Stream DEF NoMarks
<1>2. RangeOK(Idle(at))
  BY <1>1 DEF RangeOK, RunTyped, Idle, Places
<1>3. \A s : MarksOK(s, Idle(at))
  BY DEF MarksOK, Idle, PendingOf, NoMarks
<1> QED
  BY <1>2, <1>3 DEF CountOK, Idle

\* A refusal leaves the call.
LEMMA ErrorStep ==
    ASSUME ParserInv, run.pc # "closed", NEW e, e \notin {"OK", "PAUSED"}, NEW m \in Nat,
           NEW at \in 1 .. Size + 1, Set([parser EXCEPT !.errno = e, !.nread = m], Idle(at))
    PROVE  ParserInv'
<1>1. PICK q : q = [parser EXCEPT !.errno = e, !.nread = m]
  OBVIOUS
<1>0. Typed(parser)
  BY DEF ParserInv, Sound
<1>2. Alike(parser, q) /\ q.errno = e
  BY <1>0, <1>1 DEF Typed, FieldNames, Alike
<1>3. ParserOK(q, LastKind(log))
  BY <1>2, SameOK DEF ParserInv, ParserOK
<1>4. RunOK(q, Idle(at))
  BY <1>2, IdleOK DEF RunOK, ParserInv
<1>5. Set(q, Idle(at))
  BY <1>1 DEF Set
<1> QED
  BY <1>3, <1>4, <1>5, SetStep

LEMMA FailStep ==
    ASSUME ParserInv, run.pc # "closed", NEW e, Fail(e), e \notin {"OK", "PAUSED"}
    PROVE  ParserInv'
<1>1. run.nread \in Nat /\ run.at \in 1 .. Size + 1
  BY DEF ParserInv, RunOK, RangeOK, RunTyped
<1>2. Set([parser EXCEPT !.errno = e, !.nread = run.nread], Idle(run.at))
  BY DEF Fail
<1> QED
  BY <1>1, <1>2, ErrorStep

LEMMA RefuseStep ==
    ASSUME ParserInv, run.pc # "closed", Refuse
    PROVE  ParserInv'
<1>1. \A e \in ErrorOf : e[2] \notin {"OK", "PAUSED"}
  BY DEF ErrorOf
<1>2. PICK e \in ErrorOf : Fail(e[2])
  BY DEF Refuse
<1> QED
  BY <1>1, <1>2, FailStep

-------------------------------------------------------------------------------
(* Callbacks                                                               *)

\* Events of one kind k, in their place after log l.
InPlace(l, events, k) ==
    /\ events \in Seq(Events) /\ \A j \in DOMAIN events : events[j][1] = k
    /\ Len(events) > 1 => k \in CallbacksAfter[k]
    /\ IF events = <<>> THEN LastKind(l) = k
       ELSE IF l = <<>> THEN k = "message_begin" ELSE k \in CallbacksAfter[LastKind(l)]

InOrder(l) ==
    /\ l # <<>> => l[1] = <<"message_begin">>
    /\ \A i \in 1 .. Len(l) - 1 : l[i + 1][1] \in CallbacksAfter[l[i][1]]

LEMMA LogExtended ==
    ASSUME NEW l, NEW events, NEW k, NEW m,
           l \in Seq(Events), InOrder(l), InPlace(l, events, k), m = l \o events
    PROVE  m \in Seq(Events) /\ InOrder(m) /\ LastKind(m) = k
<1>1. events \in Seq(Events) /\ \A j \in DOMAIN events : events[j][1] = k
  BY DEF InPlace
<1>2. CASE events = <<>>
  <2>1. m = l
    BY <1>2
  <2> QED
    BY <1>2, <2>1 DEF InPlace
<1>3. CASE events # <<>>
  <2>1. /\ m \in Seq(Events) /\ Len(m) = Len(l) + Len(events) /\ Len(l) \in Nat /\ Len(events) \in Nat \ {0}
        /\ m # <<>>
    BY <1>1, <1>3
  <2>2. \A i \in 1 .. Len(l) : m[i] = l[i]
    BY <1>1
  <2>3. ASSUME NEW i \in Len(l) + 1 .. Len(m)
        PROVE  m[i][1] = k /\ m[i] \in Events
    <3>1. i - Len(l) \in DOMAIN events /\ m[i] = events[i - Len(l)]
      BY <1>1, <2>1
    <3> QED
      BY <1>1, <3>1
  <2>4. LastKind(m) = k
    BY <2>1, <2>3 DEF LastKind
  <2>5. m[1] = <<"message_begin">>
    <3>1. CASE l = <<>>
      <4>1. k = "message_begin" /\ Len(l) = 0
        BY <1>3, <3>1 DEF InPlace
      <4>2. m[1][1] = "message_begin" /\ m[1] \in Events
        BY <2>1, <2>3, <4>1
      <4> QED
        <5>1. CASE m[1] \in DataKinds \X (Symbols \cup {""}) \X Nat
          BY <4>2, <5>1 DEF DataKinds
        <5>2. CASE m[1] \in {<<x>> : x \in Notices}
          <6>1. PICK x \in Notices : m[1] = <<x>>
            BY <5>2
          <6> QED
            BY <4>2, <6>1
        <5> QED
          BY <4>2, <5>1, <5>2 DEF Events
    <3>2. CASE l # <<>>
      <4>1. 1 \in 1 .. Len(l)
        BY <3>2
      <4> QED
        BY <2>2, <3>2, <4>1 DEF InOrder
    <3> QED
      BY <3>1, <3>2
  <2>6. ASSUME NEW i \in 1 .. Len(m) - 1
        PROVE  m[i + 1][1] \in CallbacksAfter[m[i][1]]
    <3>1. CASE i < Len(l)
      <4>1. m[i] = l[i] /\ m[i + 1] = l[i + 1] /\ i \in 1 .. Len(l) - 1
        BY <2>1, <2>2, <3>1
      <4> QED
        BY <4>1 DEF InOrder
    <3>2. CASE i = Len(l)
      <4>1. m[i + 1][1] = k /\ m[i] = l[i]
        BY <2>1, <2>2, <2>3, <3>2
      <4>2. l # <<>> /\ LastKind(l) = l[i][1]
        BY <3>2 DEF LastKind
      <4> QED
        BY <1>3, <4>1, <4>2 DEF InPlace
    <3>3. CASE i > Len(l)
      <4>1. m[i + 1][1] = k /\ m[i][1] = k /\ Len(events) > 1
        BY <2>1, <2>3, <3>3
      <4> QED
        BY <4>1 DEF InPlace
    <3> QED
      BY <2>1, <3>1, <3>2, <3>3
  <2> QED
    BY <2>1, <2>4, <2>5, <2>6 DEF InOrder
<1> QED
  BY <1>2, <1>3

BodyMarked == Identities \cup {"s_chunk_data", "s_chunk_data_almost_done"}

\* In the switch, at a symbol.
Here == run.pc = "switch" /\ run.at <= run.end

LEMMA HereFacts ==
    ASSUME ParserInv, Here
    PROVE  /\ stream \in Streams /\ Size \in Nat /\ run.at \in 1 .. Size /\ run.end \in 1 .. Size /\ ch \in Symbols
           /\ run.nread \in Nat /\ RunTyped(run) /\ run.start \in 0 .. run.at /\ run.pc # "closed"
           /\ Typed(parser) /\ ParserOK(parser, LastKind(log))
           /\ PendingOf(run) \ {"body"} = MarkedAtEntry(parser.state)
           /\ "body" \in PendingOf(run) => parser.state \in BodyMarked
           /\ log \in Seq(Events) /\ InOrder(log)
<1>1. stream \in Streams /\ Size \in Nat /\ RunTyped(run) /\ run.start <= run.at /\ run.pc # "closed"
  BY Stream DEF ParserInv, RunOK, RangeOK, Here
<1>2. run.at \in 1 .. Size /\ run.end \in 1 .. Size /\ run.start \in 0 .. run.at /\ run.nread \in Nat
  BY <1>1 DEF RunTyped, Here
<1>3. ch \in Symbols
  BY <1>1, <1>2, Stream DEF ch
<1>4. Typed(parser) /\ ParserOK(parser, LastKind(log))
  BY <1>1 DEF ParserInv, ParserOK, Sound
<1>5. /\ PendingOf(run) \ {"body"} = MarkedAtEntry(parser.state)
      /\ "body" \in PendingOf(run) => parser.state \in BodyMarked
  BY DEF ParserInv, RunOK, MarksOK, Here, BodyMarked
<1>6. log \in Seq(Events) /\ InOrder(log)
  BY DEF ParserInv, InOrder, CallbackOrder
<1> QED
  BY <1>1, <1>2, <1>3, <1>4, <1>5, <1>6

\* A call goes on with r: at the next symbol or, in another state, at this one.
Onward(q, r) ==
    /\ RunTyped(r) /\ r.end = run.end /\ r.start <= run.at
    /\ (r.pc = "top" /\ r.at = run.at + 1) \/ (r.pc = "switch" /\ r.at = run.at)
    /\ PendingOf(r) \ {"body"} = MarkedAtEntry(q.state)
    /\ "body" \in PendingOf(r) => q.state \in BodyMarked
    /\ q.state = "s_chunk_size_start" => r.pc = "top" /\ r.nread = 0

LEMMA OnwardOK ==
    ASSUME ParserInv, Here, NEW q, NEW r, Onward(q, r)
    PROVE  RunOK(q, r)
<1>1. run.at \in 1 .. Size /\ run.end \in 1 .. Size /\ Size \in Nat /\ run.at <= run.end
  BY HereFacts DEF Here
<1>2. RangeOK(r)
  BY <1>1 DEF Onward, RangeOK, RunTyped
<1>3. MarksOK(q.state, r)
  BY <1>1 DEF Onward, MarksOK, BodyMarked
<1>4. CountOK(q, r)
  BY DEF Onward, CountOK
<1> QED
  BY <1>2, <1>3, <1>4 DEF RunOK

LEMMA MoveRun ==
    ASSUME NEW p, RunTyped(p), p.at \in 1 .. Size, Size \in Nat, NEW r
    PROVE  /\ r = Next1(p) => /\ RunTyped(r) /\ r.pc = "top" /\ r.at = p.at + 1 /\ r.end = p.end /\ r.nread = p.nread
                              /\ r.start = p.start /\ r.mark = p.mark /\ PendingOf(r) = PendingOf(p)
           /\ r = Again(p) => /\ RunTyped(r) /\ r.pc = "switch" /\ r.at = p.at /\ r.end = p.end /\ r.nread = p.nread
                              /\ r.start = p.start /\ r.mark = p.mark /\ PendingOf(r) = PendingOf(p)
<1>1. ASSUME r = Next1(p)
      PROVE  /\ RunTyped(r) /\ r.pc = "top" /\ r.at = p.at + 1 /\ r.end = p.end /\ r.nread = p.nread
             /\ r.start = p.start /\ r.mark = p.mark
  BY <1>1 DEF Next1, RunTyped, Places
<1>2. ASSUME r = Again(p)
      PROVE  /\ RunTyped(r) /\ r.pc = "switch" /\ r.at = p.at /\ r.end = p.end /\ r.nread = p.nread
             /\ r.start = p.start /\ r.mark = p.mark
  BY <1>2 DEF Again, RunTyped, Places
<1>3. r.mark = p.mark => PendingOf(r) = PendingOf(p)
  BY DEF PendingOf
<1> QED
  BY <1>1, <1>2, <1>3

LEMMA MarkRun ==
    ASSUME NEW p, RunTyped(p), p.at \in 1 .. Size, run.at = p.at, Size \in Nat, NEW k \in DataKinds, NEW r, r = MarkAt(p, k)
    PROVE  /\ RunTyped(r) /\ r.pc = p.pc /\ r.at = p.at /\ r.end = p.end /\ r.nread = p.nread
           /\ r.start = p.start /\ PendingOf(r) = PendingOf(p) \cup {k} /\ r.mark[k] # 0
<1>1. CASE p.mark[k] = 0
  <2>1. r = [p EXCEPT !.mark[k] = run.at]
    BY <1>1 DEF MarkAt
  <2> QED
    BY <2>1 DEF RunTyped, Places, PendingOf
<1>2. CASE p.mark[k] # 0
  BY <1>2 DEF MarkAt, PendingOf
<1> QED
  BY <1>1, <1>2

\* break and REEXECUTE
LEMMA GoStep ==
    ASSUME ParserInv, Here, NEW q, Set(q, Next1(run)) \/ Set(q, Again(run)), ParserOK(q, LastKind(log)),
           MarkedAtEntry(q.state) = MarkedAtEntry(parser.state),
           parser.state \notin BodyMarked \/ q.state \in BodyMarked, q.state # "s_chunk_size_start"
    PROVE  ParserInv'
<1>1. PICK r \in {Next1(run), Again(run)} : Set(q, r)
  OBVIOUS
<1>2. Onward(q, r)
  BY HereFacts, MoveRun DEF Onward, Here
<1>3. RunOK(q, r)
  BY <1>2, OnwardOK
<1> QED
  BY <1>1, <1>3, SetStep

\* MARK and break or REEXECUTE
LEMMA MarkStep ==
    ASSUME ParserInv, Here, NEW q, NEW k \in DataKinds \ {"body"},
           Set(q, Next1(MarkAt(run, k))) \/ Set(q, Again(MarkAt(run, k))), ParserOK(q, LastKind(log)),
           MarkedAtEntry(q.state) = {k}, MarkedAtEntry(parser.state) \subseteq {k},
           parser.state \notin BodyMarked
    PROVE  ParserInv'
<1>0. PICK p : p = MarkAt(run, k)
  OBVIOUS
<1>1. PICK r \in {Next1(p), Again(p)} : Set(q, r)
  BY <1>0
<1>2. /\ RunTyped(p) /\ p.pc = run.pc /\ p.at = run.at /\ p.end = run.end /\ p.nread = run.nread
      /\ p.start = run.start /\ PendingOf(p) = PendingOf(run) \cup {k}
  BY <1>0, HereFacts, MarkRun
<1>3. Onward(q, r)
  <2>1. /\ RunTyped(r) /\ r.end = run.end /\ r.start = run.start /\ PendingOf(r) = PendingOf(run) \cup {k}
        /\ (r.pc = "top" /\ r.at = run.at + 1) \/ (r.pc = "switch" /\ r.at = run.at)
    BY <1>1, <1>2, HereFacts, MoveRun
  <2>2. q.state # "s_chunk_size_start"
    BY DEF MarkedAtEntry, UrlStates, UrlServer, UrlTail
  <2> QED
    BY <2>1, <2>2, HereFacts DEF Onward
<1>4. RunOK(q, r)
  BY <1>3, OnwardOK
<1> QED
  BY <1>1, <1>4, SetStep

Follows(l, k) == IF l = <<>> THEN k = "message_begin" ELSE k \in CallbacksAfter[LastKind(l)]

LEMMA FollowsOK ==
    ASSUME NEW l \in Seq(Events), NEW k,
           \/ k = "message_begin" /\ LastKind(l) \in {"none", "message_complete"}
           \/ LastKind(l) # "none" /\ k \in CallbacksAfter[LastKind(l)]
    PROVE  Follows(l, k)
<1>1. CASE l = <<>>
  BY <1>1 DEF LastKind, Follows
<1>2. CASE l # <<>>
  <2>1. l[Len(l)] \in Events /\ LastKind(l) = l[Len(l)][1]
    BY <1>2 DEF LastKind
  <2>2. LastKind(l) \in Kinds
    <3>1. CASE l[Len(l)] \in DataKinds \X (Symbols \cup {""}) \X Nat
      BY <2>1, <3>1 DEF Kinds
    <3>2. CASE l[Len(l)] \in {<<x>> : x \in Notices}
      <4>1. PICK x \in Notices : l[Len(l)] = <<x>>
        BY <3>2
      <4> QED
        BY <2>1, <4>1 DEF Kinds
    <3> QED
      BY <2>1, <3>1, <3>2 DEF Events
  <2>3. LastKind(l) # "none"
    BY <2>2 DEF Kinds, Notices, DataKinds
  <2>4. "message_begin" \in CallbacksAfter["message_complete"]
    BY DEF CallbacksAfter
  <2> QED
    BY <1>2, <2>3, <2>4 DEF Follows
<1> QED
  BY <1>1, <1>2

LEMMA OneEvent ==
    ASSUME NEW l, NEW k \in Notices, Follows(l, k)
    PROVE  InPlace(l, <<<<k>>>>, k)
<1>1. PICK e : e = <<k>>
  OBVIOUS
<1>2. e \in {<<x>> : x \in Notices} /\ e[1] = k
  BY <1>1
<1>3. e \in Events
  BY <1>2 DEF Events
<1>4. <<e>> \in Seq(Events) /\ Len(<<e>>) = 1 /\ <<e>> # <<>> /\ \A j \in DOMAIN <<e>> : <<e>>[j][1] = k
  BY <1>2, <1>3
<1>5. InPlace(l, <<e>>, k)
  BY <1>4 DEF InPlace, Follows
<1> QED
  BY <1>1, <1>5

\* What a call back may end with.
LEMMA CallEnds ==
    ASSUME ParserInv, NEW events, NEW k, InPlace(log, events, k), log' = log \o events,
           NEW q, NEW r, parser' = q, run' = r, stream' = stream, ParserOK(q, k), RunOK(q, r),
           pauses' \in 0 .. MaxPauses
    PROVE  ParserInv'
<1>1. log \in Seq(Events) /\ InOrder(log)
  BY DEF ParserInv, CallbackOrder, InOrder
<1>2. PICK m : m = log \o events
  OBVIOUS
<1>3. m \in Seq(Events) /\ InOrder(m) /\ LastKind(m) = k
  BY <1>1, <1>2, LogExtended, Zenon
<1>4. log' \in Seq(Events) /\ CallbackOrder' /\ LastKind(log)' = k
  BY <1>2, <1>3 DEF CallbackOrder, InOrder, LastKind
<1>5. Sound(parser)' /\ Fits(parser, LastKind(log))'
  BY <1>4 DEF ParserOK
<1>6. RunOK(parser, run)'
  BY RunSame
<1>7. (stream \in Streams)'
  BY DEF ParserInv
<1> QED
  BY <1>4, <1>5, <1>6, <1>7 DEF ParserInv

LEMMA CallStep ==
    ASSUME ParserInv, NEW q, NEW r, NEW events, NEW k, NEW at \in 1 .. Size + 1,
           Call(q, r, events, Idle(at)), InPlace(log, events, k), ParserOK(q, k), RunOK(q, r),
           q.state = "s_chunk_size_start" => q.nread = 0
    PROVE  ParserInv'
<1>1. log' = log \o events /\ stream' = stream /\ stream \in Streams
  BY DEF Call, ParserInv
<1>2. pauses \in 0 .. MaxPauses /\ MaxPauses \in Nat
  BY ParserAssumption DEF ParserInv
<1>3. Typed(q) /\ Sound(q) /\ Fits(q, k) /\ r.nread \in Nat
  BY DEF ParserOK, Sound, RunOK, RangeOK, RunTyped
<1>4. CASE parser' = q /\ run' = r /\ UNCHANGED pauses
  BY <1>1, <1>2, <1>4, CallEnds
<1>5. CASE parser' = [q EXCEPT !.errno = "CB", !.nread = r.nread] /\ run' = Idle(at) /\ UNCHANGED pauses
  <2>1. PICK p : p = [q EXCEPT !.errno = "CB", !.nread = r.nread]
    OBVIOUS
  <2>2. Alike(q, p) /\ p.errno = "CB"
    BY <1>3, <2>1 DEF Typed, FieldNames, Alike
  <2>3. ParserOK(p, k) /\ RunOK(p, Idle(at))
    BY <1>1, <1>3, <2>2, SameOK, IdleOK DEF ParserOK, RunOK
  <2> QED
    BY <1>1, <1>2, <1>5, <2>1, <2>3, CallEnds
<1>6. CASE /\ pauses < MaxPauses
           /\ parser' = [q EXCEPT !.errno = "PAUSED"] /\ run' = Idle(at) /\ pauses' = pauses + 1
  <2>1. PICK p : p = [q EXCEPT !.errno = "PAUSED"]
    OBVIOUS
  <2>2. Alike(q, p) /\ p.nread = q.nread
    BY <1>3, <2>1 DEF Typed, FieldNames, Alike
  <2>3. ParserOK(p, k) /\ RangeOK(Idle(at)) /\ MarksOK(p.state, Idle(at))
    BY <1>1, <1>3, <2>2, SameOK, IdleOK DEF ParserOK
  <2>4. CountOK(p, Idle(at))
    BY <2>2 DEF CountOK, Idle, Alike
  <2>5. RunOK(p, Idle(at))
    BY <2>3, <2>4 DEF RunOK
  <2>6. pauses' \in 0 .. MaxPauses
    BY <1>2, <1>6
  <2>7. parser' = p /\ run' = Idle(at)
    BY <1>6, <2>1
  <2> QED
    BY <1>1, <2>3, <2>5, <2>6, <2>7, CallEnds
<1> QED
  BY <1>4, <1>5, <1>6 DEF Call

\* CALLBACK_NOTIFY
LEMMA NotifyStep ==
    ASSUME ParserInv, Here, NEW q, NEW k \in Notices, Follows(log, k), ParserOK(q, k),
           Notify(k, q, run) \/ NotifyAgain(k, q),
           MarkedAtEntry(q.state) = MarkedAtEntry(parser.state),
           parser.state \notin BodyMarked \/ q.state \in BodyMarked, q.state # "s_chunk_size_start"
    PROVE  ParserInv'
<1>1. PICK r \in {Next1(run), Again(run)}, at \in {run.at, run.at + 1} : Call(q, r, <<<<k>>>>, Idle(at))
  BY DEF Notify, NotifyAgain
<1>2. Onward(q, r)
  BY HereFacts, MoveRun DEF Onward, Here
<1>3. at \in 1 .. Size + 1
  BY HereFacts
<1> QED
  BY <1>1, <1>2, <1>3, OnwardOK, OneEvent, CallStep

LEMMA SelfFollows ==
    ASSUME NEW k \in DataKinds
    PROVE  k \in CallbacksAfter[k] /\ k \in Kinds /\ k # "none"
  BY DEF DataKinds, CallbacksAfter, Kinds

LEMMA PieceOK ==
    ASSUME stream \in Streams, NEW k \in DataKinds, NEW from \in 1 .. Size, NEW to \in 0 .. Size,
           Follows(log, k)
    PROVE  InPlace(log, Piece(k, from, to), k)
<1>1. CASE to >= from
  <2>1. PICK ev : ev = [i \in 1 .. to - from + 1 |-> <<k, stream.syms[from + i - 1], from + i - 1>>]
    OBVIOUS
  <2>2. ASSUME NEW i \in 1 .. to - from + 1
        PROVE  ev[i] \in Events /\ ev[i][1] = k
    <3>1. from + i - 1 \in 1 .. Size
      BY <1>1, Stream
    <3>2. stream.syms[from + i - 1] \in Symbols
      BY <3>1, Stream
    <3>3. PICK c : c = stream.syms[from + i - 1]
      OBVIOUS
    <3>4. PICK n \in Nat : n = from + i - 1
      BY <3>1
    <3>5. ev[i] = <<k, c, n>> /\ ev[i][1] = k
      BY <2>1, <3>3, <3>4
    <3>6. <<k, c, n>> \in DataKinds \X (Symbols \cup {""}) \X Nat
      BY <3>2, <3>3
    <3> QED
      BY <3>5, <3>6 DEF Events
  <2>3. to - from + 1 \in Nat \ {0}
    BY <1>1, Stream
  <2>4. ev \in Seq(Events) /\ Len(ev) \in Nat \ {0} /\ DOMAIN ev = 1 .. to - from + 1
    <3>1. PICK n \in Nat \ {0} : n = to - from + 1
      BY <2>3
    <3>2. ev \in [1 .. n -> Events]
      BY <2>1, <2>2, <3>1
    <3> QED
      BY <3>1, <3>2
  <2>5. ev # <<>> /\ \A j \in DOMAIN ev : ev[j][1] = k
    BY <2>2, <2>4
  <2>6. InPlace(log, ev, k)
    BY <2>4, <2>5, SelfFollows DEF InPlace, Follows
  <2> QED
    BY <1>1, <2>1, <2>6 DEF Piece
<1>2. CASE ~(to >= from) /\ log # <<>> /\ log[Len(log)][1] = k
  <2>1. InPlace(log, <<>>, k)
    BY <1>2 DEF InPlace, LastKind
  <2> QED
    BY <1>2, <2>1 DEF Piece
<1>3. CASE ~(to >= from) /\ ~(log # <<>> /\ log[Len(log)][1] = k)
  <2>1. PICK e : e = <<k, "", from>>
    OBVIOUS
  <2>2. e \in Events /\ e[1] = k
    <3>1. from \in Nat
      BY Stream
    <3> QED
      BY <2>1, <3>1 DEF Events
  <2>3. <<e>> \in Seq(Events) /\ Len(<<e>>) = 1 /\ <<e>> # <<>> /\ \A j \in DOMAIN <<e>> : <<e>>[j][1] = k
    BY <2>2
  <2>4. InPlace(log, <<e>>, k)
    BY <2>3 DEF InPlace, Follows
  <2> QED
    BY <1>3, <2>1, <2>4 DEF Piece
<1> QED
  BY <1>1, <1>2, <1>3

LEMMA ClearedRun ==
    ASSUME NEW p, RunTyped(p), Size \in Nat, NEW k \in DataKinds, NEW r, r = MarkCleared(p, k)
    PROVE  /\ RunTyped(r) /\ r.pc = p.pc /\ r.at = p.at /\ r.end = p.end /\ r.nread = p.nread
           /\ r.start = p.start /\ PendingOf(r) = PendingOf(p) \ {k}
<1>1. r = [p EXCEPT !.mark[k] = 0]
  BY DEF MarkCleared
<1>2. 0 \in 0 .. Size
  OBVIOUS
<1> QED
  BY <1>1, <1>2 DEF RunTyped, Places, PendingOf

\* CALLBACK_DATA_
LEMMA DataStep ==
    ASSUME ParserInv, NEW k \in DataKinds, NEW q, NEW next, NEW to \in 0 .. Size, NEW at \in 1 .. Size + 1,
           Data(k, q, next, to, at), run.mark[k] # 0, Follows(log, k), ParserOK(q, k),
           RunOK(q, MarkCleared(next, k)), q.state # "s_chunk_size_start"
    PROVE  ParserInv'
<1>1. run.mark[k] \in 1 .. Size /\ stream \in Streams
  BY DEF ParserInv, RunOK, RangeOK, RunTyped
<1>2. Call(q, MarkCleared(next, k), Piece(k, run.mark[k], to), Idle(at))
  BY DEF Data
<1>3. InPlace(log, Piece(k, run.mark[k], to), k)
  BY <1>1, PieceOK
<1> QED
  BY <1>2, <1>3, CallStep

\* CALLBACK_DATA
LEMMA HandOverStep ==
    ASSUME ParserInv, Here, NEW k \in DataKinds, NEW q, CallbackData(k, q), Follows(log, k), ParserOK(q, k),
           run.mark[k] = 0 => ParserOK(q, LastKind(log)), MarkedAtEntry(q.state) = {},
           MarkedAtEntry(parser.state) \subseteq {k}, parser.state \in BodyMarked => k = "body",
           q.state # "s_chunk_size_start"
    PROVE  ParserInv'
<1>1. PICK p : p = Next1(run)
  OBVIOUS
<1>2. PICK r : r = MarkCleared(p, k)
  OBVIOUS
<1>3. /\ RunTyped(p) /\ p.pc = "top" /\ p.at = run.at + 1 /\ p.end = run.end
      /\ p.start = run.start /\ PendingOf(p) = PendingOf(run) /\ p.mark = run.mark
  BY <1>1, HereFacts, MoveRun
<1>4. /\ RunTyped(r) /\ r.pc = "top" /\ r.at = run.at + 1 /\ r.end = run.end
      /\ r.start = run.start /\ PendingOf(r) = PendingOf(run) \ {k}
  BY <1>2, <1>3, HereFacts, ClearedRun
<1>5. Onward(q, r)
  BY <1>4, HereFacts DEF Onward
<1>6. RunOK(q, r)
  BY <1>5, OnwardOK
<1>7. Data(k, q, p, run.at - 1, run.at + 1)
  BY <1>1 DEF CallbackData
<1>8. CASE run.mark[k] = 0
  <2>1. Set(q, p)
    BY <1>7, <1>8 DEF Data
  <2>2. k \notin PendingOf(run)
    BY <1>8 DEF PendingOf
  <2>3. Onward(q, p)
    BY <1>3, <2>2, HereFacts DEF Onward
  <2> QED
    BY <1>8, <2>1, <2>3, OnwardOK, SetStep
<1>9. CASE run.mark[k] # 0
  <2>1. run.at - 1 \in 0 .. Size /\ run.at + 1 \in 1 .. Size + 1
    BY HereFacts
  <2> QED
    BY <1>2, <1>6, <1>7, <1>9, <2>1, DataStep
<1> QED
  BY <1>8, <1>9

-------------------------------------------------------------------------------
(* The classes of states                                                   *)

Safe(p, last) == p.state \in States /\ Asserted(p) /\ Fits(p, last)

LEMMA SafeOK ==
    ASSUME NEW p, NEW last
    PROVE  ParserOK(p, last) <=> Typed(p) /\ Safe(p, last)
  BY DEF ParserOK, Sound, Safe

\* One class after the other: the last callback, the marks and the assertions of each.
USE DEF Safe, States, Asserted, Fits, LineFits, HeadFits, BodyFits, MarkedAtEntry, StartStates,
        LineStates, UrlStates, UrlServer, UrlTail, VersionStates, DiscardStates, ValueEndStates,
        FieldStates, SizeStates, ChunkStates, Identities, BodyMarked, BeforeField, HeaderFieldStates

LEMMA StartIs ==
    ASSUME NEW p, NEW last, p.state \in StartStates, last \in {"none", "message_complete"}
    PROVE  Safe(p, last) /\ MarkedAtEntry(p.state) = {} /\ p.state \notin BodyMarked \cup {"s_chunk_size_start"}
  OBVIOUS

LEMMA LineIs ==
    ASSUME NEW p, NEW last, p.state \in LineStates, last = "message_begin",
           "F_TRAILING" \notin p.flags
    PROVE  Safe(p, last) /\ MarkedAtEntry(p.state) = {} /\ p.state \notin BodyMarked \cup {"s_chunk_size_start"}
  OBVIOUS

LEMMA UrlIs ==
    ASSUME NEW p, NEW last, p.state \in UrlStates, last \in {"message_begin", "url"},
           "F_TRAILING" \notin p.flags
    PROVE  Safe(p, last) /\ MarkedAtEntry(p.state) = {"url"} /\ p.state \notin BodyMarked \cup {"s_chunk_size_start"}
  OBVIOUS

LEMMA VersionIs ==
    ASSUME NEW p, NEW last, p.state \in VersionStates, last = "url",
           "F_TRAILING" \notin p.flags
    PROVE  Safe(p, last) /\ MarkedAtEntry(p.state) = {} /\ p.state \notin BodyMarked \cup {"s_chunk_size_start"}
  OBVIOUS

LEMMA StatusIs ==
    ASSUME NEW p, NEW last, p.state = "s_res_status", last \in {"message_begin", "status"},
           "F_TRAILING" \notin p.flags
    PROVE  Safe(p, last) /\ MarkedAtEntry(p.state) = {"status"} /\ p.state \notin BodyMarked \cup {"s_chunk_size_start"}
  OBVIOUS

LEMMA StatusEndIs ==
    ASSUME NEW p, NEW last, p.state = "s_res_line_almost_done", last = "status",
           "F_TRAILING" \notin p.flags
    PROVE  Safe(p, last) /\ MarkedAtEntry(p.state) = {} /\ p.state \notin BodyMarked \cup {"s_chunk_size_start"}
  OBVIOUS

LEMMA FieldStartIs ==
    ASSUME NEW p, NEW last, p.state \in FieldStates, last \in BeforeField(p.flags)
    PROVE  Safe(p, last) /\ MarkedAtEntry(p.state) = {} /\ p.state \notin BodyMarked \cup {"s_chunk_size_start"}
  OBVIOUS

LEMMA FieldIs ==
    ASSUME NEW p, NEW last, p.state = "s_header_field", last \in BeforeField(p.flags) \cup {"header_field"},
           p.header_state \in HeaderFieldStates
    PROVE  Safe(p, last) /\ MarkedAtEntry(p.state) = {"header_field"} /\ p.state \notin BodyMarked \cup {"s_chunk_size_start"}
  OBVIOUS

LEMMA DiscardIs ==
    ASSUME NEW p, NEW last, p.state \in DiscardStates, last = "header_field"
    PROVE  Safe(p, last) /\ MarkedAtEntry(p.state) = {} /\ p.state \notin BodyMarked \cup {"s_chunk_size_start"}
  OBVIOUS

LEMMA ValueIs ==
    ASSUME NEW p, NEW last, p.state = "s_header_value", last \in {"header_field", "header_value"},
           p.header_state \notin {"h_connection", "h_transfer_encoding"}
    PROVE  Safe(p, last) /\ MarkedAtEntry(p.state) = {"header_value"} /\ p.state \notin BodyMarked \cup {"s_chunk_size_start"}
  OBVIOUS

LEMMA ValueEndIs ==
    ASSUME NEW p, NEW last, p.state \in ValueEndStates, last = "header_value"
    PROVE  Safe(p, last) /\ MarkedAtEntry(p.state) = {} /\ p.state \notin BodyMarked \cup {"s_chunk_size_start"}
  OBVIOUS

LEMMA HeadersDoneIs ==
    ASSUME NEW p, NEW last, p.state = "s_headers_done", last = "headers_complete"
    PROVE  Safe(p, last) /\ MarkedAtEntry(p.state) = {} /\ p.state \notin BodyMarked \cup {"s_chunk_size_start"}
  OBVIOUS

LEMMA SizeStartIs ==
    ASSUME NEW p, NEW last, p.state = "s_chunk_size_start", last \in {"headers_complete", "chunk_complete"},
           "F_CHUNKED" \in p.flags
    PROVE  Safe(p, last) /\ MarkedAtEntry(p.state) = {}
  OBVIOUS

LEMMA SizeIs ==
    ASSUME NEW p, NEW last, p.state \in SizeStates, last \in {"headers_complete", "chunk_complete"},
           "F_CHUNKED" \in p.flags, p.content_length < ULLONG_MAX
    PROVE  Safe(p, last) /\ MarkedAtEntry(p.state) = {} /\ p.state \notin BodyMarked \cup {"s_chunk_size_start"}
  OBVIOUS

LEMMA ChunkDataIs ==
    ASSUME NEW p, NEW last, p.state = "s_chunk_data", last \in {"chunk_header", "body"},
           "F_CHUNKED" \in p.flags, p.content_length \in 1 .. ULLONG_MAX - 1
    PROVE  Safe(p, last) /\ MarkedAtEntry(p.state) = {}
  OBVIOUS

LEMMA ChunkDataEndIs ==
    ASSUME NEW p, NEW last, p.state = "s_chunk_data_almost_done", last \in {"chunk_header", "body"},
           "F_CHUNKED" \in p.flags, p.content_length = 0
    PROVE  Safe(p, last) /\ MarkedAtEntry(p.state) = {}
  OBVIOUS

LEMMA ChunkDoneIs ==
    ASSUME NEW p, NEW last, p.state = "s_chunk_data_done", last \in {"chunk_header", "body"},
           "F_CHUNKED" \in p.flags
    PROVE  Safe(p, last) /\ MarkedAtEntry(p.state) = {} /\ p.state \notin BodyMarked \cup {"s_chunk_size_start"}
  OBVIOUS

LEMMA IdentityIs ==
    ASSUME NEW p, NEW last, p.state = "s_body_identity", last \in {"headers_complete", "body"},
           p.content_length \in 1 .. ULLONG_MAX - 1
    PROVE  Safe(p, last) /\ MarkedAtEntry(p.state) = {}
  OBVIOUS

LEMMA IdentityEofIs ==
    ASSUME NEW p, NEW last, p.state = "s_body_identity_eof", last \in {"headers_complete", "body"}
    PROVE  Safe(p, last) /\ MarkedAtEntry(p.state) = {}
  OBVIOUS

LEMMA MessageDoneIs ==
    ASSUME NEW p, NEW last, p.state = "s_message_done", last \in {"body", "chunk_complete"}
    PROVE  Safe(p, last) /\ MarkedAtEntry(p.state) = {} /\ p.state \notin BodyMarked \cup {"s_chunk_size_start"}
  OBVIOUS

HIDE DEF Safe, States, Asserted, Fits, LineFits, HeadFits, BodyFits, MarkedAtEntry, StartStates,
        LineStates, UrlStates, UrlServer, UrlTail, VersionStates, DiscardStates, ValueEndStates,
        FieldStates, SizeStates, ChunkStates, Identities, BodyMarked, BeforeField, HeaderFieldStates

\* What is known of a state that is left.
LEMMA Was ==
    ASSUME NEW p, NEW last, ParserOK(p, last)
    PROVE  /\ p.state \in StartStates => last \in {"none", "message_complete"}
           /\ p.state \in LineStates => last = "message_begin"
           /\ p.state \in UrlStates => last \in {"message_begin", "url"}
           /\ p.state \in VersionStates => last = "url"
           /\ p.state = "s_res_status" => last \in {"message_begin", "status"}
           /\ p.state = "s_res_line_almost_done" => last = "status"
           /\ p.state \in LineStates \cup UrlStates \cup VersionStates \cup {"s_res_status", "s_res_line_almost_done"}
                 => "F_TRAILING" \notin p.flags
           /\ p.state \in FieldStates => last \in BeforeField(p.flags)
           /\ p.state = "s_header_field" => last \in BeforeField(p.flags) \cup {"header_field"}
           /\ p.state \in DiscardStates => last = "header_field"
           /\ p.state = "s_header_value" => last \in {"header_field", "header_value"}
           /\ p.state \in ValueEndStates => last = "header_value"
           /\ p.state = "s_headers_done" => last = "headers_complete"
           /\ p.state \in {"s_chunk_size_start"} \cup SizeStates => last \in {"headers_complete", "chunk_complete"}
           /\ p.state \in {"s_chunk_data", "s_chunk_data_almost_done", "s_chunk_data_done"} =>
                 last \in {"chunk_header", "body"}
           /\ p.state \in Identities => last \in {"headers_complete", "body"}
           /\ p.state = "s_message_done" => last \in {"body", "chunk_complete"}
  BY DEF ParserOK, Fits, LineFits, HeadFits, BodyFits

LEMMA ToOK ==
    ASSUME NEW p, Typed(p), NEW s, NEW q, q = [p EXCEPT !.state = s]
    PROVE  /\ Typed(q) /\ q.state = s /\ q.flags = p.flags /\ q.content_length = p.content_length
           /\ q.header_state = p.header_state
  BY DEF Typed, FieldNames

\* A rule of Moves stays in a class of states or ends the first line.
Within(f, class) == f \subseteq class
Stays(m, class)  == Within(m[1], class) /\ m[3] \in class
Ends(m) == Within(m[1], VersionStates \cup {"s_res_line_almost_done"}) /\ m[3] = "s_header_field_start"

LEMMA StayRule ==
    ASSUME NEW class
    PROVE  \A f, c, t : Within(f, class) /\ t \in class => Stays(<<f, c, t>>, class)
  BY DEF Stays

LEMMA EndRule ==
    \A f, c : Within(f, VersionStates \cup {"s_res_line_almost_done"}) => Ends(<<f, c, "s_header_field_start">>)
  BY DEF Ends

LEMMA MoveGroups ==
    ASSUME NEW m \in Moves
    PROVE  \/ Stays(m, StartStates) \/ Stays(m, LineStates) \/ Stays(m, VersionStates) \/ Stays(m, FieldStates)
           \/ Stays(m, DiscardStates) \/ Stays(m, ValueEndStates) \/ Stays(m, SizeStates) \/ Ends(m)
<1>1. CASE m \in StartMoves
  <2>1. \A s \in StartStates : Stays(<<{s}, {CR, LF}, s>>, StartStates)
    BY DEF Stays, Within
  <2> QED
    BY <1>1, <2>1 DEF StartMoves
<1>2. CASE m \in StatusLineMoves
  <2>1. /\ Within({"s_res_H"}, LineStates) /\ Within({"s_res_http_end"}, LineStates)
        /\ Within({"s_res_first_status_code"}, LineStates) /\ Within({"s_res_status_code"}, LineStates)
        /\ "s_res_http_major" \in LineStates /\ "s_res_first_status_code" \in LineStates
        /\ "s_res_status_start" \in LineStates
    BY DEF Within, LineStates
  <2>2. Within({"s_res_line_almost_done"}, VersionStates \cup {"s_res_line_almost_done"})
    BY DEF Within
  <2>3. \A f, c, t : Within(f, LineStates) /\ t \in LineStates => Stays(<<f, c, t>>, LineStates)
    BY StayRule
  <2> QED
    BY <1>2, <2>1, <2>2, <2>3, EndRule, ZenonT(30) DEF StatusLineMoves
<1>3. CASE m \in RequestLineMoves
  <2>1. /\ Within({"s_req_spaces_before_url"}, LineStates) /\ "s_req_spaces_before_url" \in LineStates
        /\ Within({"s_req_http_start"}, VersionStates) /\ Within({"s_req_http_H"}, VersionStates)
        /\ Within({"s_req_http_I"}, VersionStates) /\ Within({"s_req_http_end"}, VersionStates)
        /\ "s_req_http_start" \in VersionStates /\ "s_req_http_H" \in VersionStates
        /\ "s_req_http_major" \in VersionStates /\ "s_req_line_almost_done" \in VersionStates
    BY DEF Within, LineStates, VersionStates
  <2>2. Within({"s_req_http_end", "s_req_line_almost_done"}, VersionStates \cup {"s_res_line_almost_done"})
    BY DEF Within, VersionStates
  <2>3. \A f, c, t : Within(f, LineStates) /\ t \in LineStates => Stays(<<f, c, t>>, LineStates)
    BY StayRule
  <2>4. \A f, c, t : Within(f, VersionStates) /\ t \in VersionStates => Stays(<<f, c, t>>, VersionStates)
    BY StayRule
  <2> QED
    BY <1>3, <2>1, <2>2, <2>3, <2>4, EndRule, ZenonT(30) DEF RequestLineMoves
<1>4. CASE m \in HeaderMoves
  <2>1. /\ Within({"s_header_field_start"}, FieldStates) /\ "s_headers_almost_done" \in FieldStates
        /\ Within({"s_header_value_discard_ws"}, DiscardStates) /\ Within({"s_header_value_discard_lws"}, DiscardStates)
        /\ Within({"s_header_value_discard_ws", "s_header_value_discard_ws_almost_done"}, DiscardStates)
        /\ DiscardStates = {"s_header_value_discard_ws", "s_header_value_discard_ws_almost_done",
                            "s_header_value_discard_lws"}
        /\ Within({"s_header_almost_done"}, ValueEndStates) /\ "s_header_value_lws" \in ValueEndStates
    BY DEF Within, FieldStates, DiscardStates, ValueEndStates
  <2>2. \A f, c, t : Within(f, FieldStates) /\ t \in FieldStates => Stays(<<f, c, t>>, FieldStates)
    BY StayRule
  <2>3. \A f, c, t : Within(f, DiscardStates) /\ t \in DiscardStates => Stays(<<f, c, t>>, DiscardStates)
    BY StayRule
  <2>4. \A f, c, t : Within(f, ValueEndStates) /\ t \in ValueEndStates => Stays(<<f, c, t>>, ValueEndStates)
    BY StayRule
  <2> QED
    BY <1>4, <2>1, <2>2, <2>3, <2>4, ZenonT(30) DEF HeaderMoves
<1>5. CASE m \in ChunkMoves
  <2>1. /\ Within({"s_chunk_size"}, SizeStates) /\ Within({"s_chunk_parameters"}, SizeStates)
        /\ Within({"s_chunk_size", "s_chunk_parameters"}, SizeStates)
        /\ "s_chunk_parameters" \in SizeStates /\ "s_chunk_size_almost_done" \in SizeStates
    BY DEF Within, SizeStates
  <2>2. \A f, c, t : Within(f, SizeStates) /\ t \in SizeStates => Stays(<<f, c, t>>, SizeStates)
    BY StayRule
  <2> QED
    BY <1>5, <2>1, <2>2, ZenonT(30) DEF ChunkMoves
<1> QED
  BY <1>1, <1>2, <1>3, <1>4, <1>5 DEF Moves

LEMMA InHere ==
    ASSUME NEW states, In(states)
    PROVE  Here /\ parser.state \in states
  BY DEF In, Here

LEMMA MoveStep ==
    ASSUME ParserInv, Move
    PROVE  ParserInv'
<1>1. Here
  BY InHere DEF Move
<1>2. PICK m \in Moves : parser.state \in m[1] /\ Break(To(m[3]))
  BY DEF Move
<1>3. PICK q : q = To(m[3])
  OBVIOUS
<1>4. /\ Typed(q) /\ q.state = m[3] /\ q.flags = parser.flags /\ q.content_length = parser.content_length
      /\ Set(q, Next1(run))
  <2>1. Typed(parser) /\ q = [parser EXCEPT !.state = m[3]]
    BY <1>1, <1>3, HereFacts DEF To
  <2>2. Set(q, Next1(run))
    BY <1>2, <1>3 DEF Break
  <2> QED
    BY <2>1, <2>2, ToOK
<1>5. ParserOK(parser, LastKind(log))
  BY <1>1, HereFacts
<1>6. ASSUME Safe(q, LastKind(log)), MarkedAtEntry(q.state) = {}, q.state \notin BodyMarked \cup {"s_chunk_size_start"},
             MarkedAtEntry(parser.state) = {}, parser.state \notin BodyMarked
      PROVE  ParserInv'
  BY <1>1, <1>4, <1>6, SafeOK, GoStep
<1>a. Safe(parser, LastKind(log))
  BY <1>5, SafeOK
<1>7. CASE Stays(m, StartStates)
  <2>1. parser.state \in StartStates /\ q.state \in StartStates
    BY <1>2, <1>4, <1>7 DEF Stays, Within
  <2> QED
    BY <2>1, <1>5, <1>6, Was, StartIs
<1>8. CASE Stays(m, LineStates)
  <2>1. parser.state \in LineStates /\ q.state \in LineStates
    BY <1>2, <1>4, <1>8 DEF Stays, Within
  <2> QED
    BY <2>1, <1>4, <1>5, <1>6, Was, LineIs
<1>9. CASE Stays(m, VersionStates)
  <2>1. parser.state \in VersionStates /\ q.state \in VersionStates
    BY <1>2, <1>4, <1>9 DEF Stays, Within
  <2> QED
    BY <2>1, <1>4, <1>5, <1>6, Was, VersionIs
<1>10. CASE Stays(m, FieldStates)
  <2>1. parser.state \in FieldStates /\ q.state \in FieldStates
    BY <1>2, <1>4, <1>10 DEF Stays, Within
  <2> QED
    BY <2>1, <1>4, <1>5, <1>6, Was, FieldStartIs
<1>11. CASE Stays(m, DiscardStates)
  <2>1. parser.state \in DiscardStates /\ q.state \in DiscardStates
    BY <1>2, <1>4, <1>11 DEF Stays, Within
  <2> QED
    BY <2>1, <1>4, <1>5, <1>6, Was, DiscardIs
<1>12. CASE Stays(m, ValueEndStates)
  <2>1. parser.state \in ValueEndStates /\ q.state \in ValueEndStates
    BY <1>2, <1>4, <1>12 DEF Stays, Within
  <2> QED
    BY <2>1, <1>4, <1>5, <1>6, Was, ValueEndIs
<1>13. CASE Stays(m, SizeStates)
  <2>1. parser.state \in SizeStates /\ q.state \in SizeStates
    BY <1>2, <1>4, <1>13 DEF Stays, Within
  <2>2. "F_CHUNKED" \in parser.flags /\ parser.content_length < ULLONG_MAX
    BY <2>1, <1>5 DEF ParserOK, Sound, Asserted, ChunkStates
  <2> QED
    BY <2>1, <2>2, <1>4, <1>5, <1>6, Was, SizeIs
<1>14. CASE Ends(m)
  <2>1. parser.state \in VersionStates \cup {"s_res_line_almost_done"} /\ q.state = "s_header_field_start"
    BY <1>2, <1>4, <1>14 DEF Ends, Within
  <2>2. LastKind(log) \in BeforeField(q.flags) /\ q.state \in FieldStates
    BY <2>1, <1>4, <1>5, Was DEF BeforeField, FieldStates
  <2>3. MarkedAtEntry(parser.state) = {} /\ parser.state \notin BodyMarked
    BY <2>1, <1>5, Was, VersionIs, StatusEndIs
  <2> QED
    BY <2>2, <2>3, <1>6, FieldStartIs
<1> QED
  BY <1>7, <1>8, <1>9, <1>10, <1>11, <1>12, <1>13, <1>14, MoveGroups

\* Every class but those of the body's data.
LEMMA MoveRefusedStep ==
    ASSUME ParserInv, MoveRefused
    PROVE  ParserInv'
  BY InHere, HereFacts, RefuseStep DEF MoveRefused

-------------------------------------------------------------------------------
(* The first line                                                          *)

LEMMA GoIn ==
    ASSUME ParserInv, Here, NEW q, Typed(q), q.flags = parser.flags, Break(q) \/ Reexecute(q),
           \/ parser.state \in LineStates /\ q.state \in LineStates
           \/ parser.state \in VersionStates /\ q.state \in VersionStates
           \/ parser.state \in UrlStates /\ q.state \in UrlStates
    PROVE  ParserInv'
<1>1. Set(q, Next1(run)) \/ Set(q, Again(run))
  BY DEF Break, Reexecute
<1>2. ParserOK(parser, LastKind(log))
  BY HereFacts
<1>3. CASE parser.state \in LineStates /\ q.state \in LineStates
  <2>1. LastKind(log) = "message_begin" /\ "F_TRAILING" \notin parser.flags
    BY <1>2, <1>3, Was
  <2> QED
    BY <2>1, <1>1, <1>3, LineIs, SafeOK, GoStep
<1>4. CASE parser.state \in VersionStates /\ q.state \in VersionStates
  <2>1. LastKind(log) = "url" /\ "F_TRAILING" \notin parser.flags
    BY <1>2, <1>4, Was
  <2> QED
    BY <2>1, <1>1, <1>4, VersionIs, SafeOK, GoStep
<1>5. CASE parser.state \in UrlStates /\ q.state \in UrlStates
  <2>1. LastKind(log) \in {"message_begin", "url"} /\ "F_TRAILING" \notin parser.flags
    BY <1>2, <1>5, Was
  <2> QED
    BY <2>1, <1>1, <1>5, UrlIs, SafeOK, GoStep
<1> QED
  BY <1>3, <1>4, <1>5

LEMMA BeginStep ==
    ASSUME ParserInv, Here, parser.state \in StartStates, NEW q, Typed(q), q.state \in LineStates, q.flags = {},
           Notify("message_begin", q, run)
    PROVE  ParserInv'
<1>1. LastKind(log) \in {"none", "message_complete"} /\ log \in Seq(Events)
  BY HereFacts, Was
<1>2. Follows(log, "message_begin") /\ "message_begin" \in Notices
  BY <1>1, FollowsOK DEF Notices
<1>3. ParserOK(q, "message_begin") /\ MarkedAtEntry(q.state) = {} /\ q.state # "s_chunk_size_start"
  BY LineIs, SafeOK
<1>4. MarkedAtEntry(parser.state) = {} /\ parser.state \notin BodyMarked
  BY <1>1, StartIs
<1> QED
  BY <1>2, <1>3, <1>4, NotifyStep

LEMMA StartFacts ==
    ASSUME Typed(parser), NEW s, NEW q
    PROVE  q = [Fresh EXCEPT !.state = s] => Typed(q) /\ q.state = s /\ q.flags = {}
  BY ParserAssumption DEF Fresh, Typed, FieldNames

LEMMA StartReqOrResStep == ASSUME ParserInv, StartReqOrRes PROVE ParserInv'
<1>1. Here /\ parser.state = "s_start_req_or_res"
  BY InHere DEF StartReqOrRes
<1>2. Typed(parser) /\ parser.state \in StartStates
  BY <1>1, HereFacts DEF StartStates
<1>3. CASE ch = "H"
  <2>1. PICK q : q = [Fresh EXCEPT !.state = "s_res_or_resp_H"]
    OBVIOUS
  <2>2. Typed(q) /\ q.state \in LineStates /\ q.flags = {}
    BY <1>2, <2>1, StartFacts DEF LineStates
  <2>3. Notify("message_begin", q, run)
    BY <1>3, <2>1 DEF StartReqOrRes
  <2> QED
    BY <1>1, <1>2, <2>2, <2>3, BeginStep
<1>4. CASE ch # "H"
  <2>1. PICK q : q = [Fresh EXCEPT !.type = "REQUEST", !.state = "s_start_req"]
    OBVIOUS
  <2>2. Typed(q) /\ q.state = "s_start_req"
    BY <1>2, <2>1, ParserAssumption DEF Fresh, Typed, FieldNames
  <2>3. Set(q, Again(run))
    BY <1>4, <2>1 DEF StartReqOrRes, Reexecute
  <2>4. LastKind(log) \in {"none", "message_complete"} /\ q.state \in StartStates
    BY <1>1, <1>2, <2>2, HereFacts, Was DEF StartStates
  <2> QED
    BY <1>1, <1>2, <2>2, <2>3, <2>4, StartIs, SafeOK, GoStep
<1> QED
  BY <1>3, <1>4

LEMMA StartResStep == ASSUME ParserInv, StartRes PROVE ParserInv'
<1>1. Here /\ parser.state = "s_start_res"
  BY InHere DEF StartRes
<1>2. Typed(parser) /\ parser.state \in StartStates /\ run.pc # "closed"
  BY <1>1, HereFacts DEF StartStates
<1>3. CASE ch = "H"
  <2>1. PICK q : q = [Fresh EXCEPT !.state = "s_res_H"]
    OBVIOUS
  <2>2. Typed(q) /\ q.state \in LineStates /\ q.flags = {}
    BY <1>2, <2>1, StartFacts, ZenonT(40) DEF LineStates
  <2>3. Notify("message_begin", q, run)
    BY <1>3, <2>1 DEF StartRes
  <2> QED
    BY <1>1, <1>2, <2>2, <2>3, BeginStep
<1>4. CASE ch # "H"
  BY <1>2, <1>4, RefuseStep DEF StartRes
<1> QED
  BY <1>3, <1>4

LEMMA StartReqStep == ASSUME ParserInv, StartReq PROVE ParserInv'
<1>1. Here /\ parser.state = "s_start_req"
  BY InHere DEF StartReq
<1>2. Typed(parser) /\ parser.state \in StartStates /\ run.pc # "closed"
  BY <1>1, HereFacts DEF StartStates
<1>3. CASE ch \in DOMAIN MethodOf
  <2>1. PICK q : q = [Fresh EXCEPT !.method = MethodOf[ch], !.index = 1, !.state = "s_req_method"]
    OBVIOUS
  <2>2. Typed(q) /\ q.state \in LineStates /\ q.flags = {}
    BY <1>2, <2>1, ParserAssumption DEF LineStates, Fresh, Typed, FieldNames
  <2>3. Notify("message_begin", q, run)
    BY <1>3, <2>1 DEF StartReq
  <2> QED
    BY <1>1, <1>2, <2>2, <2>3, BeginStep
<1>4. CASE ch \notin DOMAIN MethodOf
  BY <1>2, <1>4, RefuseStep DEF StartReq
<1> QED
  BY <1>3, <1>4

LEMMA Decimal ==
    ASSUME NEW c \in Digits
    PROVE  DecimalDigit(c) \in 0 .. 9
<1>1. PICK t : t = <<"0", "1", "2", "3", "4", "5", "6", "7", "8", "9">>
  OBVIOUS
<1>2. t[0 + 1] = "0" /\ t[1 + 1] = "1" /\ t[2 + 1] = "2" /\ t[3 + 1] = "3" /\ t[4 + 1] = "4"
  BY <1>1
<1>3. t[5 + 1] = "5" /\ t[6 + 1] = "6" /\ t[7 + 1] = "7" /\ t[8 + 1] = "8" /\ t[9 + 1] = "9"
  BY <1>1
<1>4. \E d \in 0 .. 9 : c = t[d + 1]
  BY <1>2, <1>3 DEF Digits
<1> QED
  BY <1>1, <1>4 DEF DecimalDigit

LeadsTo(r, to) == r[3] \in to

LEMMA LookupOK ==
    ASSUME NEW rules, NEW s, NEW c, NEW d, NEW to, \A r \in rules : LeadsTo(r, to), d \in to
    PROVE  Lookup(rules, s, c, d) \in to
<1>1. PICK hits : hits = {r \in rules : s \in r[1] /\ c \in r[2]}
  OBVIOUS
<1>2. CASE hits = {}
  BY <1>1, <1>2 DEF Lookup
<1>3. CASE hits # {}
  <2>1. (CHOOSE r \in hits : TRUE) \in rules
    BY <1>1, <1>3
  <2>2. Lookup(rules, s, c, d) = (CHOOSE r \in hits : TRUE)[3]
    BY <1>1, <1>3 DEF Lookup
  <2> QED
    BY <2>1, <2>2 DEF LeadsTo
<1> QED
  BY <1>2, <1>3

LEMMA ParseUrlChar ==
    ASSUME NEW s, NEW c
    PROVE  parse_url_char(s, c) \in UrlStates \cup {"s_dead"}
<1>1. PICK to : to = UrlStates \cup {"s_dead"}
  OBVIOUS
<1>2. /\ "s_req_path" \in to /\ "s_req_schema" \in to /\ "s_req_schema_slash" \in to
      /\ "s_req_schema_slash_slash" \in to /\ "s_req_server_start" \in to /\ "s_req_query_string_start" \in to
      /\ "s_req_server_with_at" \in to /\ "s_req_server" \in to /\ "s_req_query_string" \in to
      /\ "s_req_fragment_start" \in to /\ "s_req_fragment" \in to /\ "s_dead" \in to
  BY <1>1 DEF UrlStates, UrlServer, UrlTail
<1>3. \A f, b, t : t \in to => LeadsTo(<<f, b, t>>, to)
  BY DEF LeadsTo
<1>4. ASSUME NEW r \in UrlServerRules
      PROVE  LeadsTo(r, to)
  BY <1>2, <1>3, ZenonT(30) DEF UrlServerRules
<1>5. ASSUME NEW r \in UrlTailRules
      PROVE  LeadsTo(r, to)
  BY <1>2, <1>3, ZenonT(30) DEF UrlTailRules
<1> QED
  BY <1>1, <1>2, <1>4, <1>5, LookupOK DEF parse_url_char

LEMMA ResOrRespHStep == ASSUME ParserInv, ResOrRespH PROVE ParserInv'
<1>1. Here /\ parser.state \in LineStates
  BY InHere DEF ResOrRespH, LineStates
<1>2. Typed(parser) /\ run.pc # "closed"
  BY <1>1, HereFacts
<1>3. CASE ch = "TTP/"
  <2>1. PICK q : q = [parser EXCEPT !.type = "RESPONSE", !.state = "s_res_http_major"]
    OBVIOUS
  <2>2. Typed(q) /\ q.state \in LineStates /\ q.flags = parser.flags
    BY <1>2, <2>1 DEF LineStates, Typed, FieldNames
  <2>3. Break(q)
    BY <1>3, <2>1 DEF ResOrRespH
  <2> QED
    BY <1>1, <2>2, <2>3, GoIn
<1>4. CASE ch = "EAD"
  <2>1. PICK q : q = [parser EXCEPT !.type = "REQUEST", !.method = "HEAD", !.index = 2, !.state = "s_req_method"]
    OBVIOUS
  <2>2. Typed(q) /\ q.state \in LineStates /\ q.flags = parser.flags
    BY <1>2, <2>1 DEF LineStates, Typed, FieldNames
  <2>3. Break(q)
    BY <1>4, <2>1 DEF ResOrRespH
  <2> QED
    BY <1>1, <2>2, <2>3, GoIn
<1>5. CASE ch \notin {"TTP/", "EAD"}
  BY <1>2, <1>5, RefuseStep DEF ResOrRespH
<1> QED
  BY <1>3, <1>4, <1>5

LEMMA ReqMethodStep == ASSUME ParserInv, ReqMethod PROVE ParserInv'
<1>1. Here /\ parser.state = "s_req_method" /\ parser.state \in LineStates
  BY InHere DEF ReqMethod, LineStates
<1>2. Typed(parser) /\ run.pc # "closed"
  BY <1>1, HereFacts
<1>3. CASE Break(To("s_req_spaces_before_url"))
  <2>1. PICK q : q = [parser EXCEPT !.state = "s_req_spaces_before_url"]
    OBVIOUS
  <2>2. Typed(q) /\ q.state \in LineStates /\ q.flags = parser.flags
    BY <1>2, <2>1 DEF LineStates, Typed, FieldNames
  <2>3. Break(q)
    BY <1>3, <2>1 DEF To
  <2> QED
    BY <1>1, <2>2, <2>3, GoIn
<1>4. CASE Break([parser EXCEPT !.index = 2])
  <2>1. PICK q : q = [parser EXCEPT !.index = 2]
    OBVIOUS
  <2>2. Typed(q) /\ q.state = parser.state /\ q.flags = parser.flags
    BY <1>2, <2>1 DEF Typed, FieldNames
  <2>3. Break(q)
    BY <1>4, <2>1
  <2> QED
    BY <1>1, <2>2, <2>3, GoIn
<1>5. CASE Refuse
  BY <1>2, <1>5, RefuseStep
<1> QED
  BY <1>3, <1>4, <1>5 DEF ReqMethod

LEMMA UrlFirstStep == ASSUME ParserInv, UrlFirst PROVE ParserInv'
<1>1. Here /\ parser.state = "s_req_spaces_before_url" /\ parser.state \in LineStates
  BY InHere DEF UrlFirst, LineStates
<1>2. Typed(parser) /\ run.pc # "closed"
  BY <1>1, HereFacts
<1>3. PICK s \in UrlStates \cup {"s_dead"} :
        IF s = "s_dead" THEN Refuse ELSE Set(To(s), Next1(MarkAt(run, "url")))
  BY ParseUrlChar DEF UrlFirst
<1>4. CASE s = "s_dead"
  BY <1>2, <1>3, <1>4, RefuseStep
<1>5. CASE s # "s_dead"
  <2>1. PICK q : q = [parser EXCEPT !.state = s]
    OBVIOUS
  <2>2. Typed(q) /\ q.state = s /\ q.flags = parser.flags
    BY <1>2, <2>1, ToOK
  <2>3. Set(q, Next1(MarkAt(run, "url")))
    BY <1>3, <1>5, <2>1 DEF To
  <2>4. LastKind(log) = "message_begin" /\ "F_TRAILING" \notin parser.flags
    BY <1>1, HereFacts, Was
  <2>5. ParserOK(q, LastKind(log)) /\ MarkedAtEntry(q.state) = {"url"}
    BY <1>3, <1>5, <2>2, <2>4, UrlIs, SafeOK
  <2>6. MarkedAtEntry(parser.state) = {} /\ parser.state \notin BodyMarked
    BY <1>1, <2>4, LineIs
  <2>7. "url" \in DataKinds \ {"body"}
    BY DEF DataKinds
  <2> QED
    BY <1>1, <2>3, <2>5, <2>6, <2>7, MarkStep
<1> QED
  BY <1>4, <1>5

LEMMA UrlByteStep == ASSUME ParserInv, UrlByte PROVE ParserInv'
<1>1. Here /\ parser.state \in UrlStates
  BY InHere DEF UrlByte
<1>2. Typed(parser) /\ run.pc # "closed" /\ log \in Seq(Events)
  BY <1>1, HereFacts
<1>3. LastKind(log) \in {"message_begin", "url"} /\ "F_TRAILING" \notin parser.flags
  BY <1>1, HereFacts, Was
<1>4. MarkedAtEntry(parser.state) = {"url"} /\ parser.state \notin BodyMarked
  BY <1>1, <1>3, UrlIs
<1>5. ASSUME NEW q, CallbackData("url", q), Typed(q), q.flags = parser.flags,
             q.state \in VersionStates \cup {"s_header_field_start"}
      PROVE  ParserInv'
  <2>1. "url" \in DataKinds /\ Follows(log, "url")
    BY <1>2, <1>3, FollowsOK DEF DataKinds, CallbacksAfter
  <2>3. ParserOK(q, "url") /\ MarkedAtEntry(q.state) = {} /\ q.state # "s_chunk_size_start"
    <3>1. CASE q.state \in VersionStates
      BY <3>1, <1>3, <1>5, VersionIs, SafeOK
    <3>2. CASE q.state = "s_header_field_start"
      <4>1. q.state \in FieldStates /\ "url" \in BeforeField(q.flags)
        BY <3>2, <1>3, <1>5 DEF FieldStates, BeforeField
      <4> QED
        BY <4>1, <1>5, FieldStartIs, SafeOK
    <3> QED
      BY <3>1, <3>2, <1>5
  <2>4. run.mark["url"] # 0
    BY <1>1, <1>4, HereFacts DEF PendingOf
  <2> QED
    BY <1>1, <1>4, <1>5, <2>1, <2>3, <2>4, HandOverStep
<1>6. CASE CallbackData("url", To("s_req_http_start"))
  <2>1. PICK q : q = [parser EXCEPT !.state = "s_req_http_start"]
    OBVIOUS
  <2>2. Typed(q) /\ q.state \in VersionStates /\ q.flags = parser.flags
    BY <1>2, <2>1 DEF Typed, FieldNames, VersionStates
  <2>3. CallbackData("url", q)
    BY <1>6, <2>1 DEF To
  <2> QED
    BY <1>5, <2>2, <2>3
<1>7. CASE CallbackData("url", [parser EXCEPT !.version = "0.9",
                 !.state = IF ch = CR THEN "s_req_line_almost_done" ELSE "s_header_field_start"])
  <2>0. PICK s \in {"s_req_line_almost_done", "s_header_field_start"} :
          s = IF ch = CR THEN "s_req_line_almost_done" ELSE "s_header_field_start"
    OBVIOUS
  <2>1. PICK q : q = [parser EXCEPT !.version = "0.9", !.state = s]
    OBVIOUS
  <2>2. Typed(q) /\ q.state = s /\ q.flags = parser.flags
    BY <1>2, <2>1 DEF Typed, FieldNames
  <2>3. CallbackData("url", q)
    BY <1>7, <2>0, <2>1
  <2>4. s \in VersionStates \cup {"s_header_field_start"}
    BY <2>0 DEF VersionStates
  <2> QED
    BY <1>5, <2>2, <2>3, <2>4
<1>8. CASE \E s \in UrlStates \cup {"s_dead"} : IF s = "s_dead" THEN Refuse ELSE Break(To(s))
  <2>1. PICK s \in UrlStates \cup {"s_dead"} : IF s = "s_dead" THEN Refuse ELSE Break(To(s))
    BY <1>8
  <2>2. CASE s = "s_dead"
    BY <1>2, <2>1, <2>2, RefuseStep
  <2>3. CASE s # "s_dead"
    <3>1. PICK q : q = [parser EXCEPT !.state = s]
      OBVIOUS
    <3>2. Typed(q) /\ q.state = s /\ q.flags = parser.flags
      BY <1>2, <3>1 DEF Typed, FieldNames
    <3>3. Break(q)
      BY <2>1, <2>3, <3>1 DEF To
    <3> QED
      BY <1>1, <2>1, <2>3, <3>2, <3>3, GoIn
  <2> QED
    BY <2>2, <2>3
<1>9. parse_url_char(parser.state, ch) \in UrlStates \cup {"s_dead"}
  BY ParseUrlChar
<1> QED
  BY <1>6, <1>7, <1>8, <1>9 DEF UrlByte

LEMMA ReqIceStep == ASSUME ParserInv, ReqIce PROVE ParserInv'
<1>1. Here /\ parser.state \in VersionStates
  BY InHere DEF ReqIce, VersionStates
<1>2. Typed(parser) /\ run.pc # "closed"
  BY <1>1, HereFacts
<1>3. CASE Break(To("s_req_http_I"))
  <2>1. PICK q : q = [parser EXCEPT !.state = "s_req_http_I"]
    OBVIOUS
  <2>2. Typed(q) /\ q.state \in VersionStates /\ q.flags = parser.flags
    BY <1>2, <2>1 DEF Typed, FieldNames, VersionStates
  <2>3. Break(q)
    BY <1>3, <2>1 DEF To
  <2> QED
    BY <1>1, <2>2, <2>3, GoIn
<1>4. CASE Refuse
  BY <1>2, <1>4, RefuseStep
<1> QED
  BY <1>3, <1>4 DEF ReqIce

LEMMA ReqVersionStep == ASSUME ParserInv, ReqVersion PROVE ParserInv'
<1>1. Here /\ parser.state \in VersionStates
  BY InHere DEF ReqVersion, VersionStates
<1>2. Typed(parser) /\ run.pc # "closed"
  BY <1>1, HereFacts
<1>3. CASE ch \in {"1.0", "1.1"}
  <2>1. PICK q : q = [parser EXCEPT !.version = ch, !.state = "s_req_http_end"]
    OBVIOUS
  <2>2. Typed(q) /\ q.state \in VersionStates /\ q.flags = parser.flags
    BY <1>2, <2>1 DEF Typed, FieldNames, VersionStates
  <2>3. Break(q)
    BY <1>3, <2>1 DEF ReqVersion
  <2> QED
    BY <1>1, <2>2, <2>3, GoIn
<1>4. CASE ch \notin {"1.0", "1.1"}
  BY <1>2, <1>4, RefuseStep DEF ReqVersion
<1> QED
  BY <1>3, <1>4

LEMMA ResVersionStep == ASSUME ParserInv, ResVersion PROVE ParserInv'
<1>1. Here /\ parser.state \in LineStates
  BY InHere DEF ResVersion, LineStates
<1>2. Typed(parser) /\ run.pc # "closed"
  BY <1>1, HereFacts
<1>3. CASE ch \in {"1.0", "1.1"}
  <2>1. PICK q : q = [parser EXCEPT !.version = ch, !.state = "s_res_http_end"]
    OBVIOUS
  <2>2. Typed(q) /\ q.state \in LineStates /\ q.flags = parser.flags
    BY <1>2, <2>1 DEF Typed, FieldNames, LineStates
  <2>3. Break(q)
    BY <1>3, <2>1 DEF ResVersion
  <2> QED
    BY <1>1, <2>2, <2>3, GoIn
<1>4. CASE ch \notin {"1.0", "1.1"}
  BY <1>2, <1>4, RefuseStep DEF ResVersion
<1> QED
  BY <1>3, <1>4

LEMMA FirstStatusCodeStep == ASSUME ParserInv, FirstStatusCode PROVE ParserInv'
<1>1. Here /\ parser.state \in LineStates
  BY InHere DEF FirstStatusCode, LineStates
<1>2. Typed(parser) /\ run.pc # "closed"
  BY <1>1, HereFacts
<1>3. CASE ch \in Digits
  <2>0. PICK d \in 0 .. 9 : d = DecimalDigit(ch)
    BY <1>3, Decimal
  <2>1. PICK q : q = [parser EXCEPT !.status_code = d, !.state = "s_res_status_code"]
    OBVIOUS
  <2>2. Typed(q) /\ q.state \in LineStates /\ q.flags = parser.flags
    BY <1>2, <2>1 DEF Typed, FieldNames, LineStates
  <2>3. Break(q)
    BY <1>3, <2>0, <2>1 DEF FirstStatusCode
  <2> QED
    BY <1>1, <2>2, <2>3, GoIn
<1>4. CASE ch \notin Digits
  BY <1>2, <1>4, RefuseStep DEF FirstStatusCode
<1> QED
  BY <1>3, <1>4

LEMMA StatusCodeStep == ASSUME ParserInv, StatusCode PROVE ParserInv'
<1>1. Here /\ parser.state = "s_res_status_code" /\ parser.state \in LineStates
  BY InHere DEF StatusCode, LineStates
<1>2. Typed(parser) /\ run.pc # "closed"
  BY <1>1, HereFacts
<1>3. CASE Reexecute(To("s_res_status_start"))
  <2>1. PICK q : q = [parser EXCEPT !.state = "s_res_status_start"]
    OBVIOUS
  <2>2. Typed(q) /\ q.state \in LineStates /\ q.flags = parser.flags
    BY <1>2, <2>1 DEF Typed, FieldNames, LineStates
  <2>3. Reexecute(q)
    BY <1>3, <2>1 DEF To
  <2> QED
    BY <1>1, <2>2, <2>3, GoIn
<1>4. CASE /\ ch \in Digits /\ parser.status_code * 10 + DecimalDigit(ch) <= 999
           /\ Break([parser EXCEPT !.status_code = @ * 10 + DecimalDigit(ch)])
  <2>1. PICK d \in 0 .. 9 : d = DecimalDigit(ch)
    BY <1>4, Decimal
  <2>2. PICK n \in 0 .. 999 : n = parser.status_code * 10 + d
    <3>1. PICK c \in 0 .. 999 : c = parser.status_code
      BY <1>2 DEF Typed
    <3>2. c * 10 + d <= 999
      BY <1>4, <2>1, <3>1
    <3>3. PICK n \in 0 .. 999 : n = c * 10 + d
      BY <3>2
    <3>4. n = parser.status_code * 10 + d
      BY <3>1, <3>3
    <3> QED
      BY <3>4
  <2>3. PICK q : q = [parser EXCEPT !.status_code = n]
    OBVIOUS
  <2>4. Typed(q) /\ q.state = parser.state /\ q.flags = parser.flags
    BY <1>2, <2>3 DEF Typed, FieldNames
  <2>5. Break(q)
    BY <1>4, <2>1, <2>2, <2>3
  <2> QED
    BY <1>1, <2>4, <2>5, GoIn
<1>5. CASE Refuse
  BY <1>2, <1>5, RefuseStep
<1> QED
  BY <1>3, <1>4, <1>5, ZenonT(40) DEF StatusCode

LEMMA StatusStartStep == ASSUME ParserInv, StatusStart PROVE ParserInv'
<1>1. Here /\ parser.state \in LineStates
  BY InHere DEF StatusStart, LineStates
<1>2. Typed(parser)
  BY <1>1, HereFacts
<1>3. PICK q : q = [parser EXCEPT !.state = "s_res_status"]
  OBVIOUS
<1>4. Typed(q) /\ q.state = "s_res_status" /\ q.flags = parser.flags
  BY <1>2, <1>3 DEF Typed, FieldNames
<1>5. Set(q, Next1(MarkAt(run, "status"))) \/ Set(q, Again(MarkAt(run, "status")))
  BY <1>3 DEF StatusStart, To
<1>6. LastKind(log) = "message_begin" /\ "F_TRAILING" \notin parser.flags
  BY <1>1, HereFacts, Was
<1>7. ParserOK(q, LastKind(log)) /\ MarkedAtEntry(q.state) = {"status"}
  BY <1>4, <1>6, StatusIs, SafeOK
<1>8. MarkedAtEntry(parser.state) = {} /\ parser.state \notin BodyMarked
  BY <1>1, <1>6, LineIs
<1>9. "status" \in DataKinds \ {"body"}
  BY DEF DataKinds
<1> QED
  BY <1>1, <1>5, <1>7, <1>8, <1>9, MarkStep

LEMMA StatusStep == ASSUME ParserInv, Status PROVE ParserInv'
<1>1. Here /\ parser.state = "s_res_status"
  BY InHere DEF Status
<1>2. Typed(parser) /\ log \in Seq(Events) /\ ParserOK(parser, LastKind(log))
  BY <1>1, HereFacts
<1>3. LastKind(log) \in {"message_begin", "status"} /\ "F_TRAILING" \notin parser.flags
  BY <1>1, HereFacts, Was
<1>4. MarkedAtEntry(parser.state) = {"status"} /\ parser.state \notin BodyMarked
  BY <1>1, <1>3, StatusIs
<1>5. CASE \E s \in {"s_res_line_almost_done", "s_header_field_start"} : CallbackData("status", To(s))
  <2>1. PICK s \in {"s_res_line_almost_done", "s_header_field_start"} : CallbackData("status", To(s))
    BY <1>5
  <2>2. PICK q : q = [parser EXCEPT !.state = s]
    OBVIOUS
  <2>3. Typed(q) /\ q.state = s /\ q.flags = parser.flags
    BY <1>2, <2>2 DEF Typed, FieldNames
  <2>4. CallbackData("status", q)
    BY <2>1, <2>2 DEF To
  <2>5. ParserOK(q, "status") /\ MarkedAtEntry(q.state) = {} /\ q.state # "s_chunk_size_start"
    <3>1. CASE s = "s_res_line_almost_done"
      BY <3>1, <1>3, <2>3, StatusEndIs, SafeOK
    <3>2. CASE s = "s_header_field_start"
      <4>1. q.state \in FieldStates /\ "status" \in BeforeField(q.flags)
        BY <3>2, <1>3, <2>3 DEF FieldStates, BeforeField
      <4> QED
        BY <4>1, <2>3, FieldStartIs, SafeOK
    <3> QED
      BY <3>1, <3>2
  <2>6. "status" \in DataKinds /\ Follows(log, "status")
    BY <1>2, <1>3, FollowsOK DEF DataKinds, CallbacksAfter
  <2>7. run.mark["status"] # 0
    BY <1>1, <1>4, HereFacts DEF PendingOf
  <2> QED
    BY <1>1, <1>4, <2>4, <2>5, <2>6, <2>7, HandOverStep
<1>6. CASE Break(parser)
  <2>1. parser.state # "s_chunk_size_start"
    BY <1>1
  <2> QED
    BY <1>1, <1>2, <1>4, <1>6, <2>1, GoStep DEF Break
<1> QED
  BY <1>5, <1>6 DEF Status

LEMMA FirstLineStep == ASSUME ParserInv, FirstLine PROVE ParserInv'
  BY StartReqOrResStep, ResOrRespHStep, StartResStep, StartReqStep, ReqMethodStep, UrlFirstStep, UrlByteStep,
     ReqIceStep, ReqVersionStep, ResVersionStep, FirstStatusCodeStep, StatusCodeStep, StatusStartStep, StatusStep
     DEF FirstLine

-------------------------------------------------------------------------------
(* The headers                                                             *)

LEMMA InScanFacts ==
    ASSUME RunTyped(run), Size \in Nat, run.at \in 1 .. Size, run.start <= run.at, NEW r, r = InScan
    PROVE  /\ RunTyped(r) /\ r.pc = run.pc /\ r.at = run.at /\ r.end = run.end /\ r.nread = run.nread
           /\ r.start \in 1 .. run.at /\ r.mark = run.mark /\ (run.start # 0 => r = run)
<1>1. CASE run.start = 0
  BY <1>1 DEF InScan, RunTyped, Places
<1>2. CASE run.start # 0
  BY <1>2 DEF InScan, RunTyped
<1> QED
  BY <1>1, <1>2

LEMMA ScannedFacts ==
    ASSUME RunTyped(run), Size \in Nat, run.at \in 1 .. Size + 1, run.start <= run.at, NEW at \in 1 .. Size,
           \/ run.start \in 1 .. at
           \/ run.start = 0 /\ run.at = at
    PROVE  /\ ScanCount(at) \in Nat
           /\ \A r : r = Scanned(at) =>
                 /\ RunTyped(r) /\ r.pc = run.pc /\ r.at = at /\ r.end = run.end /\ r.start = 0
                 /\ r.mark = run.mark
<1>1. InScan.start \in 1 .. at
  <2>1. CASE run.start = 0
    BY <2>1 DEF InScan, RunTyped
  <2>2. CASE run.start # 0
    BY <2>2 DEF InScan
  <2> QED
    BY <2>1, <2>2
<1>2. run.nread \in Nat
  BY DEF RunTyped
<1>3. ScanCount(at) \in Nat
  BY <1>1, <1>2 DEF ScanCount
<1>4. PICK n \in Nat : n = ScanCount(at)
  BY <1>3
<1>5. ASSUME NEW r, r = Scanned(at)
      PROVE  /\ RunTyped(r) /\ r.pc = run.pc /\ r.at = at /\ r.end = run.end /\ r.start = 0
             /\ r.mark = run.mark
  <2>1. r = [run EXCEPT !.nread = n, !.start = 0, !.at = at]
    BY <1>4, <1>5 DEF Scanned
  <2> QED
    BY <2>1 DEF RunTyped, Places
<1> QED
  BY <1>3, <1>5

LEMMA ScanOnStep ==
    ASSUME ParserInv, Here, parser.state \in {"s_header_field", "s_header_value"}, NEW q, q.state = parser.state,
           ParserOK(q, LastKind(log)), ScanOn(q)
    PROVE  ParserInv'
<1>1. PICK p : p = InScan
  OBVIOUS
<1>2. PICK r : r = [p EXCEPT !.at = @ + 1]
  OBVIOUS
<1>3. /\ RunTyped(p) /\ p.pc = "switch" /\ p.at = run.at /\ p.end = run.end /\ p.start \in 1 .. run.at
      /\ p.mark = run.mark /\ run.at \in 1 .. Size /\ Size \in Nat /\ run.at <= run.end
  BY <1>1, HereFacts, InScanFacts DEF Here
<1>4. /\ RunTyped(r) /\ r.pc = "switch" /\ r.at = run.at + 1 /\ r.end = run.end /\ r.start = p.start
      /\ r.mark = run.mark
  BY <1>2, <1>3 DEF RunTyped, Places
<1>5. RangeOK(r)
  BY <1>3, <1>4 DEF RangeOK, RunTyped
<1>6. PendingOf(r) = PendingOf(run)
  BY <1>4 DEF PendingOf
<1>7. MarksOK(q.state, r)
  <2>1. PendingOf(r) \ {"body"} = MarkedAtEntry(q.state) /\ "body" \notin PendingOf(r)
    BY <1>6, HereFacts DEF BodyMarked, Identities
  <2> QED
    BY <2>1, <1>3, <1>4 DEF MarksOK, RunTyped
<1>8. CountOK(q, r)
  BY DEF CountOK
<1>9. Set(q, r)
  BY <1>1, <1>2 DEF ScanOn
<1> QED
  BY <1>5, <1>7, <1>8, <1>9, SetStep DEF RunOK

LEMMA OverflowStep ==
    ASSUME ParserInv, run.pc # "closed", NEW at \in 1 .. Size, ScanCount(at) \in Nat, Overflow(at)
    PROVE  ParserInv'
<1>1. at \in 1 .. Size + 1
  BY Stream DEF ParserInv
<1>2. Set([parser EXCEPT !.errno = "HEADER_OVERFLOW", !.nread = ScanCount(at)], Idle(at))
  BY DEF Overflow
<1> QED
  BY <1>1, <1>2, ErrorStep

LEMMA FirstLetter ==
    ASSUME NEW s, NEW c
    PROVE  Lookup(FirstLetterRules, s, c, "h_general") \in HeaderFieldStates
<1>1. /\ "h_C" \in HeaderFieldStates /\ "h_matching_proxy_connection" \in HeaderFieldStates
      /\ "h_matching_transfer_encoding" \in HeaderFieldStates /\ "h_matching_upgrade" \in HeaderFieldStates
      /\ "h_general" \in HeaderFieldStates
  BY DEF HeaderFieldStates
<1>2. \A f, b, t : t \in HeaderFieldStates => LeadsTo(<<f, b, t>>, HeaderFieldStates)
  BY DEF LeadsTo
<1>3. ASSUME NEW r \in FirstLetterRules
      PROVE  LeadsTo(r, HeaderFieldStates)
  BY <1>1, <1>2, ZenonT(30) DEF FirstLetterRules
<1> QED
  BY <1>1, <1>3, LookupOK

LEMMA Name ==
    ASSUME NEW s, NEW c
    PROVE  Lookup(NameRules, s, c, "h_general") \in HeaderFieldStates
<1>1. /\ "h_connection" \in HeaderFieldStates /\ "h_content_length" \in HeaderFieldStates
      /\ "h_transfer_encoding" \in HeaderFieldStates /\ "h_upgrade" \in HeaderFieldStates
      /\ "h_general" \in HeaderFieldStates
  BY DEF HeaderFieldStates
<1>2. \A f, b, t : t \in HeaderFieldStates => LeadsTo(<<f, b, t>>, HeaderFieldStates)
  BY DEF LeadsTo
<1>3. ASSUME NEW r \in NameRules
      PROVE  LeadsTo(r, HeaderFieldStates)
  BY <1>1, <1>2, ZenonT(30) DEF NameRules
<1> QED
  BY <1>1, <1>3, LookupOK

LEMMA HeaderFieldStartStep == ASSUME ParserInv, HeaderFieldStart PROVE ParserInv'
<1>1. Here /\ parser.state \in FieldStates
  BY InHere DEF HeaderFieldStart, FieldStates
<1>2. Typed(parser) /\ run.pc # "closed"
  BY <1>1, HereFacts
<1>3. LastKind(log) \in BeforeField(parser.flags)
  BY <1>1, HereFacts, Was
<1>4. MarkedAtEntry(parser.state) = {} /\ parser.state \notin BodyMarked
  BY <1>1, <1>3, FieldStartIs
<1>5. CASE Reexecute(EndOfHeaders(parser))
  <2>1. PICK q : q = [parser EXCEPT !.state = "s_headers_almost_done"]
    OBVIOUS
  <2>2. Typed(q) /\ q.state \in FieldStates /\ q.flags = parser.flags
    BY <1>2, <2>1 DEF Typed, FieldNames, FieldStates
  <2>3. Set(q, Again(run))
    BY <1>5, <2>1 DEF EndOfHeaders, Reexecute
  <2> QED
    BY <1>1, <1>3, <1>4, <2>2, <2>3, FieldStartIs, SafeOK, GoStep
<1>6. CASE Set([parser EXCEPT !.state = "s_header_field",
                   !.header_state = Lookup(FirstLetterRules, "s_header_field", ch, "h_general")],
               Next1(MarkAt(run, "header_field")))
  <2>1. PICK h \in HeaderFieldStates : h = Lookup(FirstLetterRules, "s_header_field", ch, "h_general")
    BY FirstLetter
  <2>2. PICK q : q = [parser EXCEPT !.state = "s_header_field", !.header_state = h]
    OBVIOUS
  <2>3. Typed(q) /\ q.state = "s_header_field" /\ q.flags = parser.flags /\ q.header_state = h
    BY <1>2, <2>2 DEF Typed, FieldNames
  <2>4. Set(q, Next1(MarkAt(run, "header_field")))
    BY <1>6, <2>1, <2>2
  <2>5. ParserOK(q, LastKind(log)) /\ MarkedAtEntry(q.state) = {"header_field"}
    BY <1>3, <2>1, <2>3, FieldIs, SafeOK
  <2>6. "header_field" \in DataKinds \ {"body"}
    BY DEF DataKinds
  <2> QED
    BY <1>1, <1>4, <2>4, <2>5, <2>6, MarkStep
<1>7. CASE Refuse
  BY <1>2, <1>7, RefuseStep
<1> QED
  BY <1>5, <1>6, <1>7 DEF HeaderFieldStart

\* The locals when a field or a value ends at this symbol.
LEMMA ScannedHere ==
    ASSUME ParserInv, Here
    PROVE  /\ ScanCount(run.at) \in Nat
           /\ \A r : r = Scanned(run.at) =>
                 /\ RunTyped(r) /\ r.pc = "switch" /\ r.at = run.at /\ r.end = run.end /\ r.start = 0
                 /\ r.mark = run.mark
<1>1. RunTyped(run) /\ Size \in Nat /\ run.at \in 1 .. Size /\ run.start \in 0 .. run.at
  BY HereFacts
<1>2. PICK at \in 1 .. Size : at = run.at
  BY <1>1
<1>3. run.start \in 1 .. at \/ (run.start = 0 /\ run.at = at)
  BY <1>1, <1>2
<1>4. run.at \in 1 .. Size + 1 /\ run.start <= run.at
  BY <1>1
<1>5. /\ ScanCount(at) \in Nat
      /\ \A r : r = Scanned(at) =>
            /\ RunTyped(r) /\ r.pc = run.pc /\ r.at = at /\ r.end = run.end /\ r.start = 0
            /\ r.mark = run.mark
  BY <1>1, <1>3, <1>4, ScannedFacts
<1> QED
  BY <1>2, <1>5 DEF Here

LEMMA HeaderFieldStep == ASSUME ParserInv, HeaderField PROVE ParserInv'
<1>1. Here /\ parser.state = "s_header_field"
  BY InHere DEF HeaderField
<1>2. /\ Typed(parser) /\ run.pc # "closed" /\ log \in Seq(Events) /\ run.at \in 1 .. Size /\ Size \in Nat
      /\ ScanCount(run.at) \in Nat
  BY <1>1, HereFacts, ScannedHere
<1>3. LastKind(log) \in BeforeField(parser.flags) \cup {"header_field"}
  BY <1>1, HereFacts, Was
<1>4. MarkedAtEntry(parser.state) = {"header_field"} /\ parser.state \notin BodyMarked
  BY <1>1 DEF MarkedAtEntry, UrlStates, UrlServer, UrlTail, BodyMarked, Identities
<1>5. ASSUME ch \in Token
      PROVE  ParserInv'
  <2>1. PICK h \in HeaderFieldStates : h = Lookup(NameRules, parser.header_state, ch, "h_general")
    BY Name
  <2>2. PICK f : f = IF h = "h_transfer_encoding" THEN {"F_TRANSFER_ENCODING"} ELSE {}
    OBVIOUS
  <2>3. f \subseteq Flags /\ "F_TRAILING" \notin f
    BY <2>2 DEF Flags
  <2>4. PICK q : q = [parser EXCEPT !.header_state = h, !.flags = @ \cup f]
    OBVIOUS
  <2>5. Typed(q) /\ q.state = parser.state /\ q.flags = parser.flags \cup f /\ q.header_state = h
    BY <1>2, <2>3, <2>4 DEF Typed, FieldNames
  <2>6. BeforeField(q.flags) = BeforeField(parser.flags)
    BY <2>3, <2>5 DEF BeforeField
  <2>7. ParserOK(q, LastKind(log))
    BY <1>1, <1>3, <2>5, <2>6, FieldIs, SafeOK
  <2>8. ScanOn(q)
    BY <1>5, <2>1, <2>2, <2>4 DEF HeaderField
  <2> QED
    BY <1>1, <2>5, <2>7, <2>8, ScanOnStep
<1>6. CASE Overflow(run.at)
  BY <1>2, <1>6, OverflowStep
<1>7. CASE Data("header_field", To("s_header_value_discard_ws"), Next1(Scanned(run.at)), run.at - 1, run.at + 1)
  <2>1. PICK q : q = [parser EXCEPT !.state = "s_header_value_discard_ws"]
    OBVIOUS
  <2>2. Typed(q) /\ q.state = "s_header_value_discard_ws" /\ q.state \in DiscardStates
    BY <1>2, <2>1 DEF Typed, FieldNames, DiscardStates
  <2>3. ParserOK(q, "header_field") /\ MarkedAtEntry(q.state) = {} /\ q.state # "s_chunk_size_start"
    BY <2>2, DiscardIs, SafeOK
  <2>4. PICK p : p = Scanned(run.at)
    OBVIOUS
  <2>5. /\ RunTyped(p) /\ p.at = run.at /\ p.end = run.end /\ p.start = 0 /\ p.mark = run.mark
    BY <1>1, <2>4, ScannedHere
  <2>6. PICK n : n = Next1(p)
    OBVIOUS
  <2>7. /\ RunTyped(n) /\ n.pc = "top" /\ n.at = run.at + 1 /\ n.end = run.end /\ n.start = 0
        /\ n.mark = run.mark
    BY <1>2, <2>5, <2>6, MoveRun
  <2>8. "header_field" \in DataKinds /\ Follows(log, "header_field")
    <3>1. LastKind(log) # "none" /\ "header_field" \in CallbacksAfter[LastKind(log)]
      BY <1>3 DEF BeforeField, CallbacksAfter
    <3> QED
      BY <1>2, <3>1, FollowsOK DEF DataKinds
  <2>9. PICK r : r = MarkCleared(n, "header_field")
    OBVIOUS
  <2>10. /\ RunTyped(r) /\ r.pc = "top" /\ r.at = run.at + 1 /\ r.end = run.end /\ r.start = 0
         /\ PendingOf(r) = PendingOf(n) \ {"header_field"} /\ PendingOf(n) = PendingOf(run)
    BY <1>2, <2>7, <2>8, <2>9, ClearedRun DEF PendingOf
  <2>11. Onward(q, r)
    BY <1>1, <1>2, <1>4, <2>3, <2>10, HereFacts DEF Onward
  <2>12. RunOK(q, r) /\ run.mark["header_field"] # 0
    BY <1>1, <1>4, <2>11, OnwardOK, HereFacts DEF PendingOf
  <2>13. Data("header_field", q, n, run.at - 1, run.at + 1)
    BY <1>7, <2>1, <2>4, <2>6 DEF To
  <2>14. run.at - 1 \in 0 .. Size /\ run.at + 1 \in 1 .. Size + 1
    BY <1>2
  <2> QED
    BY <2>3, <2>8, <2>9, <2>12, <2>13, <2>14, DataStep
<1>8. CASE Refuse
  BY <1>2, <1>8, RefuseStep
<1> QED
  BY <1>5, <1>6, <1>7, <1>8 DEF HeaderField

\* The states of the automata over a value.
ValueStates ==
    {"h_general", "h_matching_transfer_encoding_token_start", "h_matching_transfer_encoding_token",
     "h_matching_transfer_encoding_chunked", "h_transfer_encoding_chunked", "h_matching_connection_token_start",
     "h_matching_connection_token", "h_matching_connection_keep_alive", "h_matching_connection_close",
     "h_matching_connection_upgrade", "h_connection_keep_alive", "h_connection_close", "h_connection_upgrade",
     "h_content_length_num", "h_content_length_ws"}

LEMMA ValueFirst ==
    ASSUME NEW s, NEW c
    PROVE  Lookup(ValueFirstRules, s, c, "h_general") \in ValueStates
<1>1. /\ "h_matching_transfer_encoding_chunked" \in ValueStates /\ "h_matching_transfer_encoding_token" \in ValueStates
      /\ "h_matching_connection_keep_alive" \in ValueStates /\ "h_matching_connection_close" \in ValueStates
      /\ "h_matching_connection_upgrade" \in ValueStates /\ "h_matching_connection_token" \in ValueStates
      /\ "h_matching_transfer_encoding_token_start" \in ValueStates
      /\ "h_matching_connection_token_start" \in ValueStates /\ "h_content_length_ws" \in ValueStates
      /\ "h_general" \in ValueStates
  BY DEF ValueStates
<1>2. \A f, b, t : t \in ValueStates => LeadsTo(<<f, b, t>>, ValueStates)
  BY DEF LeadsTo
<1>3. ASSUME NEW r \in ValueFirstRules
      PROVE  LeadsTo(r, ValueStates)
  BY <1>1, <1>2, ZenonT(30) DEF ValueFirstRules
<1> QED
  BY <1>1, <1>3, LookupOK

LEMMA ValueNext ==
    ASSUME NEW s, NEW c
    PROVE  Lookup(TransferRules \cup ConnectionRules, s, c, "h_general") \in ValueStates
<1>1. /\ "h_matching_transfer_encoding_chunked" \in ValueStates /\ "h_matching_transfer_encoding_token" \in ValueStates
      /\ "h_matching_transfer_encoding_token_start" \in ValueStates /\ "h_transfer_encoding_chunked" \in ValueStates
      /\ "h_matching_connection_keep_alive" \in ValueStates /\ "h_matching_connection_close" \in ValueStates
      /\ "h_matching_connection_upgrade" \in ValueStates /\ "h_matching_connection_token" \in ValueStates
      /\ "h_matching_connection_token_start" \in ValueStates /\ "h_general" \in ValueStates
  BY DEF ValueStates
<1>2. \A f, b, t : t \in ValueStates => LeadsTo(<<f, b, t>>, ValueStates)
  BY DEF LeadsTo
<1>3. ASSUME NEW r \in TransferRules
      PROVE  LeadsTo(r, ValueStates)
  BY <1>1, <1>2, <1>3, ZenonT(30) DEF TransferRules
<1>4. ASSUME NEW w \in ConnectionWords
      PROVE  w[3] \in ValueStates
  BY <1>4 DEF ConnectionWords, ValueStates
<1>5. ASSUME NEW r \in ConnectionRules
      PROVE  LeadsTo(r, ValueStates)
  <2>1. CASE r \in TokenRules
    BY <1>1, <1>2, <2>1, ZenonT(30) DEF TokenRules
  <2>2. ASSUME NEW w \in ConnectionWords, r \in WordRules(w)
        PROVE  LeadsTo(r, ValueStates)
    BY <1>1, <1>2, <1>4, <2>2, ZenonT(30) DEF WordRules
  <2> QED
    BY <2>1, <2>2 DEF ConnectionRules
<1> QED
  BY <1>1, <1>3, <1>5, LookupOK

LEMMA NoTrailing ==
    ASSUME NEW h
    PROVE  /\ ConnectionFlag(h) \subseteq Flags \ {"F_TRAILING"}
           /\ ValueFlags(h) \subseteq Flags \ {"F_TRAILING"}
<1>1. ConnectionFlag(h) \in {{"F_CONNECTION_KEEP_ALIVE"}, {"F_CONNECTION_CLOSE"}, {"F_CONNECTION_UPGRADE"}, {}}
  BY DEF ConnectionFlag
<1>2. ConnectionFlag(h) \subseteq Flags \ {"F_TRAILING"}
  BY <1>1 DEF Flags
<1> QED
  BY <1>2 DEF ValueFlags, Flags

LEMMA ValueMarkStep ==
    ASSUME ParserInv, Here, parser.state \in DiscardStates \cup ValueEndStates, NEW p, Typed(p),
           p.header_state \in ValueStates,
           Set([p EXCEPT !.state = "s_header_value"], Next1(MarkAt(run, "header_value")))
    PROVE  ParserInv'
<1>1. PICK q : q = [p EXCEPT !.state = "s_header_value"]
  OBVIOUS
<1>2. Typed(q) /\ q.state = "s_header_value" /\ q.header_state \in ValueStates
  BY <1>1 DEF Typed, FieldNames
<1>3. LastKind(log) \in {"header_field", "header_value"}
  BY HereFacts, Was
<1>4. q.header_state \notin {"h_connection", "h_transfer_encoding"}
  BY <1>2 DEF ValueStates
<1>5. ParserOK(q, LastKind(log)) /\ MarkedAtEntry(q.state) = {"header_value"}
  BY <1>2, <1>3, <1>4, ValueIs, SafeOK
<1>6. MarkedAtEntry(parser.state) = {} /\ parser.state \notin BodyMarked
  <2>1. CASE parser.state \in DiscardStates
    BY <2>1, HereFacts, Was, DiscardIs
  <2>2. CASE parser.state \in ValueEndStates
    BY <2>2, HereFacts, Was, ValueEndIs
  <2> QED
    BY <2>1, <2>2
<1>7. "header_value" \in DataKinds \ {"body"}
  BY DEF DataKinds
<1>8. Set(q, Next1(MarkAt(run, "header_value")))
  BY <1>1
<1> QED
  BY <1>5, <1>6, <1>7, <1>8, MarkStep

LEMMA HeaderValueStartStep == ASSUME ParserInv, HeaderValueStart PROVE ParserInv'
<1>1. Here /\ parser.state \in DiscardStates \cup ValueEndStates
  BY InHere DEF HeaderValueStart, DiscardStates, ValueEndStates
<1>2. Typed(parser) /\ run.pc # "closed"
  BY <1>1, HereFacts
<1>3. CASE Fail("INVALID_CONTENT_LENGTH") \/ Fail("UNEXPECTED_CONTENT_LENGTH")
  BY <1>2, <1>3, FailStep
<1>4. CASE /\ ch \in Digits
           /\ Set([[parser EXCEPT !.flags = @ \cup {"F_CONTENTLENGTH"}, !.content_length = DecimalDigit(ch),
                             !.header_state = "h_content_length_num"] EXCEPT !.state = "s_header_value"],
                  Next1(MarkAt(run, "header_value")))
  <2>1. PICK d \in 0 .. 9 : d = DecimalDigit(ch)
    BY <1>4, Decimal
  <2>2. PICK p : p = [parser EXCEPT !.flags = @ \cup {"F_CONTENTLENGTH"}, !.content_length = d,
                             !.header_state = "h_content_length_num"]
    OBVIOUS
  <2>3. d \in 0 .. ULLONG_MAX /\ "F_CONTENTLENGTH" \in Flags
    BY ParserAssumption DEF Flags
  <2>4. Typed(p) /\ p.header_state \in ValueStates
    BY <1>2, <2>2, <2>3 DEF Typed, FieldNames, ValueStates
  <2>5. Set([p EXCEPT !.state = "s_header_value"], Next1(MarkAt(run, "header_value")))
    BY <1>4, <2>1, <2>2
  <2> QED
    BY <1>1, <2>4, <2>5, ValueMarkStep
<1>5. CASE Set([[parser EXCEPT !.header_state = Lookup(ValueFirstRules, parser.header_state, ch, "h_general"),
                       !.flags = @ \cup IF parser.header_state = "h_upgrade" THEN {"F_UPGRADE"} ELSE {}]
                     EXCEPT !.state = "s_header_value"],
               Next1(MarkAt(run, "header_value")))
  <2>1. PICK h \in ValueStates : h = Lookup(ValueFirstRules, parser.header_state, ch, "h_general")
    BY ValueFirst
  <2>2. PICK f : f = IF parser.header_state = "h_upgrade" THEN {"F_UPGRADE"} ELSE {}
    OBVIOUS
  <2>3. f \subseteq Flags
    BY <2>2 DEF Flags
  <2>4. PICK p : p = [parser EXCEPT !.header_state = h, !.flags = @ \cup f]
    OBVIOUS
  <2>5. Typed(p) /\ p.header_state \in ValueStates
    BY <1>2, <2>1, <2>3, <2>4 DEF Typed, FieldNames
  <2>6. Set([p EXCEPT !.state = "s_header_value"], Next1(MarkAt(run, "header_value")))
    BY <1>5, <2>1, <2>2, <2>4
  <2> QED
    BY <1>1, <2>5, <2>6, ValueMarkStep
<1> QED
  BY <1>3, <1>4, <1>5 DEF HeaderValueStart

LEMMA WidenOK ==
    ASSUME Typed(parser), NEW base \in {10, 16}, NEW d \in 0 .. 15
    PROVE  Widen(base, d) \in 0 .. ULLONG_MAX
<1>1. PICK n \in Nat : n = parser.content_length * base + d
  <2>1. PICK c \in Nat : c = parser.content_length
    BY ParserAssumption DEF Typed
  <2>2. c * base + d \in Nat
    OBVIOUS
  <2> QED
    BY <2>1, <2>2
<1>2. ULLONG_MAX + 1 \in Nat \ {0}
  BY ParserAssumption
<1>3. n % (ULLONG_MAX + 1) \in 0 .. ULLONG_MAX
  BY <1>2, ParserAssumption
<1> QED
  BY <1>1, <1>3 DEF Widen

\* The header value goes on.
LEMMA ValueOnStep ==
    ASSUME ParserInv, Here, parser.state = "s_header_value", NEW q, Typed(q), q.state = parser.state,
           q.header_state \in ValueStates, ScanOn(q)
    PROVE  ParserInv'
<1>1. LastKind(log) \in {"header_field", "header_value"}
  BY HereFacts, Was
<1>2. q.header_state \notin {"h_connection", "h_transfer_encoding"}
  BY DEF ValueStates
<1>3. ParserOK(q, LastKind(log))
  BY <1>1, <1>2, ValueIs, SafeOK
<1> QED
  BY <1>3, ScanOnStep

LEMMA ContentLengthByteStep ==
    ASSUME ParserInv, Here, parser.state = "s_header_value", ContentLengthByte
    PROVE  ParserInv'
<1>1. Typed(parser) /\ run.pc # "closed"
  BY HereFacts
<1>2. CASE ScanOn([parser EXCEPT !.header_state = "h_content_length_ws"])
  <2>1. PICK q : q = [parser EXCEPT !.header_state = "h_content_length_ws"]
    OBVIOUS
  <2>2. Typed(q) /\ q.state = parser.state /\ q.header_state \in ValueStates
    BY <1>1, <2>1 DEF Typed, FieldNames, ValueStates
  <2>3. ScanOn(q)
    BY <1>2, <2>1
  <2> QED
    BY <2>2, <2>3, ValueOnStep
<1>3. CASE /\ ch \in Digits /\ parser.header_state = "h_content_length_num"
           /\ ScanOn([parser EXCEPT !.content_length = Widen(10, DecimalDigit(ch))])
  <2>1. PICK d \in 0 .. 9 : d = DecimalDigit(ch)
    BY <1>3, Decimal
  <2>2. PICK n \in 0 .. ULLONG_MAX : n = Widen(10, d)
    BY <1>1, WidenOK
  <2>3. PICK q : q = [parser EXCEPT !.content_length = n]
    OBVIOUS
  <2>4. Typed(q) /\ q.state = parser.state /\ q.header_state \in ValueStates
    BY <1>1, <1>3, <2>3 DEF Typed, FieldNames, ValueStates
  <2>5. ScanOn(q)
    BY <1>3, <2>1, <2>2, <2>3
  <2> QED
    BY <2>4, <2>5, ValueOnStep
<1>4. CASE Fail("INVALID_CONTENT_LENGTH")
  BY <1>1, <1>4, FailStep
<1> QED
  BY <1>2, <1>3, <1>4 DEF ContentLengthByte

\* The value has ended: it is handed over, and the call goes on as n.
LEMMA ValueEndStep ==
    ASSUME ParserInv, Here, parser.state = "s_header_value", NEW n, RunTyped(n), n.mark = run.mark,
           n.at = run.at, n.end = run.end,
           \/ n.pc = "scanned" /\ n.start \in 1 .. run.at
           \/ n.pc = "switch" /\ n.start = 0,
           NEW at \in 1 .. Size + 1, Data("header_value", To("s_header_almost_done"), n, run.at - 1, at)
    PROVE  ParserInv'
<1>1. /\ Typed(parser) /\ log \in Seq(Events) /\ run.at \in 1 .. Size /\ Size \in Nat /\ run.at <= run.end
      /\ run.end \in 1 .. Size
  BY HereFacts DEF Here
<1>2. PICK q : q = [parser EXCEPT !.state = "s_header_almost_done"]
  OBVIOUS
<1>3. Typed(q) /\ q.state = "s_header_almost_done" /\ q.state \in ValueEndStates
  BY <1>1, <1>2 DEF Typed, FieldNames, ValueEndStates
<1>4. ParserOK(q, "header_value") /\ MarkedAtEntry(q.state) = {} /\ q.state # "s_chunk_size_start"
  BY <1>3, ValueEndIs, SafeOK
<1>5. MarkedAtEntry(parser.state) = {"header_value"} /\ parser.state \notin BodyMarked
  BY DEF MarkedAtEntry, UrlStates, UrlServer, UrlTail, BodyMarked, Identities
<1>6. LastKind(log) \in {"header_field", "header_value"}
  BY HereFacts, Was
<1>7. "header_value" \in DataKinds /\ Follows(log, "header_value")
  BY <1>1, <1>6, FollowsOK DEF DataKinds, CallbacksAfter
<1>8. PICK r : r = MarkCleared(n, "header_value")
  OBVIOUS
<1>9. /\ RunTyped(r) /\ r.pc = n.pc /\ r.at = run.at /\ r.end = run.end /\ r.start = n.start
      /\ PendingOf(r) = PendingOf(n) \ {"header_value"} /\ PendingOf(n) = PendingOf(run)
  BY <1>1, <1>7, <1>8, ClearedRun DEF PendingOf
<1>10. PendingOf(r) = {} /\ run.mark["header_value"] # 0
  BY <1>5, <1>9, HereFacts DEF PendingOf
<1>11. RunOK(q, r)
  <2>1. RangeOK(r)
    <3>1. CASE n.pc = "scanned" /\ n.start \in 1 .. run.at
      BY <3>1, <1>1, <1>9 DEF RangeOK
    <3>2. CASE n.pc = "switch" /\ n.start = 0
      BY <3>2, <1>1, <1>9 DEF RangeOK
    <3> QED
      BY <3>1, <3>2
  <2>2. MarksOK(q.state, r)
    <3>1. r.pc \in {"scanned", "switch"} /\ ~(r.at > r.end) /\ "body" \notin PendingOf(r)
      BY <1>1, <1>9, <1>10
    <3> QED
      BY <3>1, <1>3, <1>4, <1>10 DEF MarksOK
  <2>3. CountOK(q, r)
    BY <1>4 DEF CountOK
  <2> QED
    BY <2>1, <2>2, <2>3 DEF RunOK
<1>12. Data("header_value", q, n, run.at - 1, at)
  BY <1>2 DEF To
<1>13. run.at - 1 \in 0 .. Size
  BY <1>1
<1> QED
  BY <1>4, <1>7, <1>8, <1>10, <1>11, <1>12, <1>13, DataStep

LEMMA HeaderValueStep == ASSUME ParserInv, HeaderValue PROVE ParserInv'
<1>1. Here /\ parser.state = "s_header_value"
  BY InHere DEF HeaderValue
<1>2. /\ Typed(parser) /\ run.pc # "closed" /\ run.at \in 1 .. Size /\ Size \in Nat
      /\ RunTyped(run) /\ run.start <= run.at /\ ScanCount(run.at) \in Nat
  BY <1>1, HereFacts, ScannedHere
<1>3. CASE Data("header_value", To("s_header_almost_done"), [InScan EXCEPT !.pc = "scanned"], run.at - 1, run.at + 1)
  <2>1. PICK p : p = InScan
    OBVIOUS
  <2>2. /\ RunTyped(p) /\ p.at = run.at /\ p.end = run.end /\ p.start \in 1 .. run.at /\ p.mark = run.mark
    BY <1>2, <2>1, InScanFacts
  <2>3. PICK n : n = [p EXCEPT !.pc = "scanned"]
    OBVIOUS
  <2>4. /\ RunTyped(n) /\ n.at = run.at /\ n.end = run.end /\ n.start \in 1 .. run.at /\ n.mark = run.mark
        /\ n.pc = "scanned"
    BY <2>2, <2>3 DEF RunTyped, Places
  <2>5. Data("header_value", To("s_header_almost_done"), n, run.at - 1, run.at + 1)
    BY <1>3, <2>1, <2>3
  <2>6. run.at + 1 \in 1 .. Size + 1
    BY <1>2
  <2> QED
    BY <1>1, <2>4, <2>5, <2>6, ValueEndStep
<1>4. CASE Data("header_value", To("s_header_almost_done"), Again(Scanned(run.at)), run.at - 1, run.at)
  <2>1. PICK p : p = Scanned(run.at)
    OBVIOUS
  <2>2. /\ RunTyped(p) /\ p.at = run.at /\ p.end = run.end /\ p.start = 0 /\ p.mark = run.mark
    BY <1>1, <2>1, ScannedHere
  <2>3. PICK n : n = Again(p)
    OBVIOUS
  <2>4. /\ RunTyped(n) /\ n.at = run.at /\ n.end = run.end /\ n.start = 0 /\ n.mark = run.mark
        /\ n.pc = "switch"
    BY <1>2, <2>2, <2>3, MoveRun
  <2>5. Data("header_value", To("s_header_almost_done"), n, run.at - 1, run.at)
    BY <1>4, <2>1, <2>3
  <2>6. run.at \in 1 .. Size + 1
    BY <1>2
  <2> QED
    BY <1>1, <2>4, <2>5, <2>6, ValueEndStep
<1>5. CASE Overflow(run.at)
  BY <1>2, <1>5, OverflowStep
<1>6. CASE Fail("INVALID_HEADER_TOKEN")
  BY <1>2, <1>6, FailStep
<1>7. CASE ContentLengthByte
  BY <1>1, <1>7, ContentLengthByteStep
<1>8. CASE ScanOn([parser EXCEPT
              !.header_state = Lookup(TransferRules \cup ConnectionRules, parser.header_state, ch, "h_general"),
              !.flags = @ \cup IF ch = "," THEN ConnectionFlag(parser.header_state) ELSE {}])
  <2>1. PICK h \in ValueStates : h = Lookup(TransferRules \cup ConnectionRules, parser.header_state, ch, "h_general")
    BY ValueNext
  <2>2. PICK f : f = IF ch = "," THEN ConnectionFlag(parser.header_state) ELSE {}
    OBVIOUS
  <2>3. f \subseteq Flags
    BY <2>2, NoTrailing
  <2>4. PICK q : q = [parser EXCEPT !.header_state = h, !.flags = @ \cup f]
    OBVIOUS
  <2>5. Typed(q) /\ q.state = parser.state /\ q.header_state \in ValueStates
    BY <1>2, <2>1, <2>3, <2>4 DEF Typed, FieldNames
  <2>6. ScanOn(q)
    BY <1>8, <2>1, <2>2, <2>4
  <2> QED
    BY <1>1, <2>5, <2>6, ValueOnStep
<1> QED
  BY <1>3, <1>4, <1>5, <1>6, <1>7, <1>8 DEF HeaderValue

LEMMA HeaderValueLwsStep == ASSUME ParserInv, HeaderValueLws PROVE ParserInv'
<1>1. Here /\ parser.state \in ValueEndStates
  BY InHere DEF HeaderValueLws, ValueEndStates
<1>2. Typed(parser)
  BY <1>1, HereFacts
<1>3. LastKind(log) = "header_value"
  BY <1>1, HereFacts, Was
<1>4. MarkedAtEntry(parser.state) = {} /\ parser.state \notin BodyMarked
  BY <1>1, <1>3, ValueEndIs
<1>5. CASE ch = " "
  <2>1. PICK h : h = IF parser.header_state = "h_content_length_num" THEN "h_content_length_ws"
                     ELSE parser.header_state
    OBVIOUS
  <2>2. PICK q : q = [parser EXCEPT !.state = "s_header_value_start", !.header_state = h]
    OBVIOUS
  <2>3. Typed(q) /\ q.state \in ValueEndStates
    BY <1>2, <2>2 DEF Typed, FieldNames, ValueEndStates
  <2>4. Set(q, Again(run))
    BY <1>5, <2>1, <2>2 DEF HeaderValueLws, Reexecute
  <2> QED
    BY <1>1, <1>3, <1>4, <2>3, <2>4, ValueEndIs, SafeOK, GoStep
<1>6. CASE ch # " "
  <2>1. PICK f : f = ValueFlags(parser.header_state)
    OBVIOUS
  <2>2. f \subseteq Flags
    BY <2>1, NoTrailing
  <2>3. PICK q : q = [parser EXCEPT !.state = "s_header_field_start", !.flags = @ \cup f]
    OBVIOUS
  <2>4. Typed(q) /\ q.state \in FieldStates
    BY <1>2, <2>2, <2>3 DEF Typed, FieldNames, FieldStates
  <2>5. Set(q, Again(run))
    BY <1>6, <2>1, <2>3 DEF HeaderValueLws, Reexecute
  <2>6. LastKind(log) \in BeforeField(q.flags)
    BY <1>3 DEF BeforeField
  <2> QED
    BY <1>1, <1>4, <2>4, <2>5, <2>6, FieldStartIs, SafeOK, GoStep
<1> QED
  BY <1>5, <1>6

LEMMA HeaderValueDiscardLwsStep == ASSUME ParserInv, HeaderValueDiscardLws PROVE ParserInv'
<1>1. Here /\ parser.state \in DiscardStates
  BY InHere DEF HeaderValueDiscardLws, DiscardStates
<1>2. /\ Typed(parser) /\ run.pc # "closed" /\ log \in Seq(Events) /\ stream \in Streams
      /\ run.at \in 1 .. Size /\ Size \in Nat
  BY <1>1, HereFacts
<1>3. LastKind(log) = "header_field"
  BY <1>1, HereFacts, Was
<1>4. MarkedAtEntry(parser.state) = {} /\ parser.state \notin BodyMarked
  BY <1>1, <1>3, DiscardIs
<1>5. CASE Fail("INVALID_CONTENT_LENGTH")
  BY <1>2, <1>5, FailStep
<1>6. CASE Call([parser EXCEPT !.state = "s_header_field_start", !.flags = @ \cup ValueFlags(parser.header_state)],
                Again(run), Piece("header_value", run.at, run.at - 1), Idle(run.at))
  <2>1. PICK f : f = ValueFlags(parser.header_state)
    OBVIOUS
  <2>2. f \subseteq Flags
    BY <2>1, NoTrailing
  <2>3. PICK q : q = [parser EXCEPT !.state = "s_header_field_start", !.flags = @ \cup f]
    OBVIOUS
  <2>4. Typed(q) /\ q.state = "s_header_field_start" /\ q.state \in FieldStates
    BY <1>2, <2>2, <2>3 DEF Typed, FieldNames, FieldStates
  <2>5. PICK r : r = Again(run)
    OBVIOUS
  <2>6. PICK ev : ev = Piece("header_value", run.at, run.at - 1)
    OBVIOUS
  <2>7. Call(q, r, ev, Idle(run.at))
    BY <1>6, <2>1, <2>3, <2>5, <2>6
  <2>8. "header_value" \in DataKinds /\ Follows(log, "header_value")
    BY <1>2, <1>3, FollowsOK DEF DataKinds, CallbacksAfter
  <2>9. run.at - 1 \in 0 .. Size /\ run.at \in 1 .. Size + 1
    BY <1>2
  <2>10. InPlace(log, ev, "header_value")
    BY <1>2, <2>6, <2>8, <2>9, PieceOK
  <2>11. "header_value" \in BeforeField(q.flags)
    BY DEF BeforeField
  <2>12. ParserOK(q, "header_value") /\ MarkedAtEntry(q.state) = {} /\ q.state # "s_chunk_size_start"
    BY <2>4, <2>11, FieldStartIs, SafeOK
  <2>13. Onward(q, r)
    BY <1>1, <1>4, <2>5, <2>12, HereFacts, MoveRun DEF Onward, Here
  <2>14. RunOK(q, r)
    BY <1>1, <2>13, OnwardOK
  <2> QED
    BY <2>7, <2>9, <2>10, <2>12, <2>14, CallStep
<1> QED
  BY <1>5, <1>6 DEF HeaderValueDiscardLws

LEMMA HeadersAlmostDoneStep == ASSUME ParserInv, HeadersAlmostDone PROVE ParserInv'
<1>1. Here /\ parser.state = "s_headers_almost_done" /\ parser.state \in FieldStates
  BY InHere DEF HeadersAlmostDone, FieldStates
<1>2. Typed(parser) /\ run.pc # "closed" /\ log \in Seq(Events) /\ run.nread \in Nat
  BY <1>1, HereFacts
<1>3. LastKind(log) \in BeforeField(parser.flags)
  BY <1>1, HereFacts, Was
<1>4. MarkedAtEntry(parser.state) = {} /\ parser.state \notin BodyMarked
  BY <1>1, <1>3, FieldStartIs
<1>5. CASE Refuse
  BY <1>2, <1>5, RefuseStep
<1>6. CASE Fail("UNEXPECTED_CONTENT_LENGTH")
  BY <1>2, <1>6, FailStep
<1>7. CASE InTrailer(parser) /\ NotifyAgain("chunk_complete", To("s_message_done"))
  <2>1. PICK q : q = [parser EXCEPT !.state = "s_message_done"]
    OBVIOUS
  <2>2. Typed(q) /\ q.state = "s_message_done"
    BY <1>2, <2>1 DEF Typed, FieldNames
  <2>3. NotifyAgain("chunk_complete", q)
    BY <1>7, <2>1 DEF To
  <2>4. LastKind(log) \in {"chunk_header", "header_value"}
    BY <1>3, <1>7 DEF InTrailer, BeforeField
  <2>5. "chunk_complete" \in Notices /\ Follows(log, "chunk_complete")
    BY <1>2, <2>4, FollowsOK DEF Notices, CallbacksAfter
  <2> QED
    BY <1>1, <1>4, <2>2, <2>3, <2>5, MessageDoneIs, SafeOK, NotifyStep
<1>8. CASE ~InTrailer(parser) /\ NotifyAgain("headers_complete",
              [parser EXCEPT !.state = "s_headers_done", !.nread = run.nread,
                  !.upgrade = UpgradeOf(parser) \/ stream.skip = 2,
                  !.flags = @ \cup IF stream.skip > 0 THEN {"F_SKIPBODY"} ELSE {}])
  <2>1. PICK f : f = IF stream.skip > 0 THEN {"F_SKIPBODY"} ELSE {}
    OBVIOUS
  <2>2. f \subseteq Flags
    BY <2>1 DEF Flags
  <2>3. PICK u : u = (UpgradeOf(parser) \/ stream.skip = 2)
    OBVIOUS
  <2>4. PICK q : q = [parser EXCEPT !.state = "s_headers_done", !.nread = run.nread, !.upgrade = u,
                         !.flags = @ \cup f]
    OBVIOUS
  <2>5. Typed(q) /\ q.state = "s_headers_done"
    BY <1>2, <2>2, <2>4 DEF Typed, FieldNames
  <2>6. NotifyAgain("headers_complete", q)
    BY <1>8, <2>1, <2>3, <2>4
  <2>7. LastKind(log) \in {"status", "url", "header_value"}
    BY <1>3, <1>8 DEF InTrailer, BeforeField
  <2>8. "headers_complete" \in Notices /\ Follows(log, "headers_complete")
    BY <1>2, <2>7, FollowsOK DEF Notices, CallbacksAfter
  <2> QED
    BY <1>1, <1>4, <2>5, <2>6, <2>8, HeadersDoneIs, SafeOK, NotifyStep
<1>9. ch = LF /\ InTrailer(parser) => NotifyAgain("chunk_complete", To("s_message_done"))
  BY DEF HeadersAlmostDone
<1> QED
  BY <1>5, <1>6, <1>7, <1>8, <1>9 DEF HeadersAlmostDone

\* The locals when the headers or a chunk have been read: nread starts again.
LEMMA ResetRun ==
    ASSUME NEW p, RunTyped(p), NEW r, r = [p EXCEPT !.nread = 0]
    PROVE  /\ RunTyped(r) /\ r.pc = p.pc /\ r.at = p.at /\ r.end = p.end /\ r.nread = 0
           /\ r.start = p.start /\ r.mark = p.mark /\ PendingOf(r) = PendingOf(p)
<1>1. /\ RunTyped(r) /\ r.pc = p.pc /\ r.at = p.at /\ r.end = p.end /\ r.nread = 0
      /\ r.start = p.start /\ r.mark = p.mark
  BY DEF RunTyped, Places
<1> QED
  BY <1>1 DEF PendingOf

LEMMA EndMessageStep ==
    ASSUME ParserInv, Here, PendingOf(run) = {}, NEW p, Typed(p),
           NEW r, RunTyped(r), r.at = run.at, r.end = run.end, r.start = run.start, r.mark = run.mark,
           Follows(log, "message_complete"), EndMessage(p, r)
    PROVE  ParserInv'
<1>1. /\ run.at \in 1 .. Size /\ run.start \in 0 .. run.at /\ Size \in Nat /\ stream \in Streams
      /\ r.nread \in Nat /\ log \in Seq(Events)
  BY HereFacts DEF RunTyped
<1>2. PICK s \in StartStates : s = IF ~http_should_keep_alive(p) THEN "s_dead"
                                   ELSE IF p.type = "REQUEST" THEN "s_start_req" ELSE "s_start_res"
  BY DEF StartStates
<1>3. PICK t : t = [p EXCEPT !.state = s]
  OBVIOUS
<1>4. Typed(t) /\ t.state = s /\ t = NewMessage(p)
  BY <1>2, <1>3 DEF Typed, FieldNames, NewMessage
<1>5. PICK q : q = [t EXCEPT !.nread = IF p.upgrade THEN r.nread ELSE @]
  OBVIOUS
<1>6. Typed(q) /\ q.state = s
  BY <1>1, <1>4, <1>5 DEF Typed, FieldNames
<1>7. ParserOK(q, "message_complete") /\ MarkedAtEntry(q.state) = {}
  BY <1>6, StartIs, SafeOK
<1>8. q.state # "s_chunk_size_start"
  BY <1>2, <1>6 DEF StartStates
<1>9. "message_complete" \in Notices /\ run.at + 1 \in 1 .. Size + 1
  BY <1>1 DEF Notices
<1>10. PICK n : n = IF p.upgrade THEN Idle(run.at + 1) ELSE Next1(r)
  OBVIOUS
<1>11. RunOK(q, n)
  <2>1. CASE p.upgrade
    <3>1. CountOK(q, n)
      BY <1>8 DEF CountOK
    <3> QED
      BY <2>1, <3>1, <1>1, <1>9, <1>10, IdleOK DEF RunOK
  <2>2. CASE ~p.upgrade
    <3>1. /\ RunTyped(n) /\ n.pc = "top" /\ n.at = run.at + 1 /\ n.end = run.end /\ n.start = run.start
          /\ n.mark = run.mark
      BY <2>2, <1>1, <1>10, MoveRun
    <3>2. PendingOf(n) = {}
      BY <3>1 DEF PendingOf
    <3>3. Onward(q, n)
      BY <3>1, <3>2, <1>1, <1>7, <1>8 DEF Onward
    <3> QED
      BY <3>3, OnwardOK
  <2> QED
    BY <2>1, <2>2
<1>12. Call(q, n, <<<<"message_complete">>>>, Idle(run.at + 1))
  BY <1>4, <1>5, <1>10 DEF EndMessage
<1> QED
  BY <1>7, <1>8, <1>9, <1>11, <1>12, OneEvent, CallStep

LEMMA HeadersDoneStep == ASSUME ParserInv, HeadersDone PROVE ParserInv'
<1>1. Here /\ parser.state = "s_headers_done"
  BY InHere DEF HeadersDone
<1>2. /\ Typed(parser) /\ run.pc # "closed" /\ log \in Seq(Events) /\ RunTyped(run) /\ run.start \in 0 .. run.at
      /\ run.at \in 1 .. Size /\ Size \in Nat /\ stream \in Streams
  BY <1>1, HereFacts
<1>3. LastKind(log) = "headers_complete"
  BY <1>1, HereFacts, Was
<1>4. MarkedAtEntry(parser.state) = {} /\ parser.state \notin BodyMarked
  BY <1>1, <1>3, HeadersDoneIs
<1>5. PendingOf(run) = {}
  BY <1>1, <1>4, HereFacts
<1>6. PICK q : q = [parser EXCEPT !.nread = 0]
  OBVIOUS
<1>7. Typed(q) /\ q.flags = parser.flags /\ q.content_length = parser.content_length
  BY <1>2, <1>6 DEF Typed, FieldNames
<1>8. PICK r : r = [run EXCEPT !.nread = 0]
  OBVIOUS
<1>9. /\ RunTyped(r) /\ r.at = run.at /\ r.end = run.end /\ r.nread = 0 /\ r.start = run.start
      /\ r.mark = run.mark
  BY <1>2, <1>8, ResetRun
<1>10. CASE EndMessage(q, r)
  <2>1. Follows(log, "message_complete")
    BY <1>2, <1>3, FollowsOK DEF CallbacksAfter
  <2> QED
    BY <1>1, <1>5, <1>7, <1>9, <1>10, <2>1, EndMessageStep
\* The body follows.
<1>11. ASSUME NEW s, Set([q EXCEPT !.state = s], Next1(r)),
              \/ s = "s_chunk_size_start" /\ "F_CHUNKED" \in q.flags
              \/ s = "s_body_identity_eof"
              \/ s = "s_body_identity" /\ q.content_length \notin {0, ULLONG_MAX}
       PROVE  ParserInv'
  <2>1. PICK t : t = [q EXCEPT !.state = s]
    OBVIOUS
  <2>2. Typed(t) /\ t.state = s /\ t.flags = q.flags /\ t.content_length = q.content_length
    BY <1>7, <2>1 DEF Typed, FieldNames
  <2>3. PICK n : n = Next1(r)
    OBVIOUS
  <2>4. /\ RunTyped(n) /\ n.pc = "top" /\ n.at = run.at + 1 /\ n.end = run.end /\ n.nread = 0
        /\ n.start = run.start /\ n.mark = run.mark
    BY <1>2, <1>9, <2>3, MoveRun
  <2>5. Safe(t, "headers_complete") /\ MarkedAtEntry(t.state) = {}
    <3>1. CASE s = "s_chunk_size_start" /\ "F_CHUNKED" \in q.flags
      BY <3>1, <2>2, SizeStartIs
    <3>2. CASE s = "s_body_identity_eof"
      BY <3>2, <2>2, IdentityEofIs
    <3>3. CASE s = "s_body_identity" /\ q.content_length \notin {0, ULLONG_MAX}
      <4>1. t.content_length \in 1 .. ULLONG_MAX - 1
        BY <3>3, <1>7, <2>2, ParserAssumption DEF Typed
      <4> QED
        BY <3>3, <4>1, <2>2, IdentityIs
    <3> QED
      BY <3>1, <3>2, <3>3, <1>11
  <2>6. PendingOf(n) = {}
    BY <1>5, <2>4 DEF PendingOf
  <2>7. Onward(t, n)
    BY <1>2, <2>4, <2>5, <2>6 DEF Onward
  <2>8. RunOK(t, n) /\ ParserOK(t, LastKind(log))
    BY <1>1, <1>3, <2>2, <2>5, <2>7, OnwardOK, SafeOK
  <2>9. Set(t, n)
    BY <1>11, <2>1, <2>3
  <2> QED
    BY <2>8, <2>9, SetStep
<1>12. CASE Set([q EXCEPT !.errno = "INVALID_TRANSFER_ENCODING"], Idle(run.at))
  <2>1. PICK t : t = [parser EXCEPT !.errno = "INVALID_TRANSFER_ENCODING", !.nread = 0]
    OBVIOUS
  <2>2. t = [q EXCEPT !.errno = "INVALID_TRANSFER_ENCODING"]
    BY <1>2, <1>6, <2>1 DEF Typed, FieldNames
  <2>3. Set([parser EXCEPT !.errno = "INVALID_TRANSFER_ENCODING", !.nread = 0], Idle(run.at))
    BY <1>12, <2>1, <2>2
  <2>4. run.at \in 1 .. Size + 1
    BY <1>2
  <2> QED
    BY <1>2, <2>3, <2>4, ErrorStep
<1>13. \/ EndMessage(q, r)
       \/ "F_CHUNKED" \in q.flags /\ Set([q EXCEPT !.state = "s_chunk_size_start"], Next1(r))
       \/ Set([q EXCEPT !.errno = "INVALID_TRANSFER_ENCODING"], Idle(run.at))
       \/ Set([q EXCEPT !.state = "s_body_identity_eof"], Next1(r))
       \/ q.content_length \notin {0, ULLONG_MAX} /\ Set([q EXCEPT !.state = "s_body_identity"], Next1(r))
  BY <1>6, <1>8 DEF HeadersDone
<1> QED
  BY <1>10, <1>11, <1>12, <1>13

LEMMA HeadersStep == ASSUME ParserInv, Headers PROVE ParserInv'
  BY HeaderFieldStartStep, HeaderFieldStep, HeaderValueStartStep, HeaderValueStep, HeaderValueLwsStep,
     HeaderValueDiscardLwsStep, HeadersAlmostDoneStep, HeadersDoneStep DEF Headers

-------------------------------------------------------------------------------
(* The body                                                                *)

LEMMA ToReadFacts ==
    ASSUME ParserInv, Here, parser.content_length \in Nat \ {0}
    PROVE  /\ ToRead \in Nat \ {0} /\ ToRead <= parser.content_length
           /\ LastRead \in run.at .. run.end
<1>1. run.at \in 1 .. Size /\ run.end \in 1 .. Size /\ Size \in Nat /\ run.at <= run.end
  BY HereFacts DEF Here
<1>2. Left \in Nat \ {0} /\ Left = run.end - run.at + 1
  BY <1>1 DEF Left
<1>3. ToRead \in Nat \ {0} /\ ToRead <= parser.content_length /\ ToRead <= Left
  BY <1>2 DEF ToRead
<1> QED
  BY <1>1, <1>2, <1>3 DEF LastRead

\* The body is read up to `last`; its mark is set.
LEMMA BodyRun ==
    ASSUME ParserInv, Here, NEW last \in run.at .. run.end,
           NEW r, r = [MarkAt(run, "body") EXCEPT !.at = last]
    PROVE  /\ RunTyped(r) /\ r.pc = "switch" /\ r.at = last /\ r.end = run.end /\ r.start = run.start
           /\ PendingOf(r) = PendingOf(run) \cup {"body"} /\ r.mark["body"] \in 1 .. Size
           /\ last \in 1 .. Size /\ run.start <= last
<1>1. /\ run.at \in 1 .. Size /\ run.end \in 1 .. Size /\ Size \in Nat /\ RunTyped(run) /\ run.start \in 0 .. run.at
  BY HereFacts
<1>2. PICK p : p = MarkAt(run, "body")
  OBVIOUS
<1>3. /\ RunTyped(p) /\ p.pc = "switch" /\ p.end = run.end /\ p.start = run.start
      /\ PendingOf(p) = PendingOf(run) \cup {"body"} /\ p.mark["body"] # 0
  BY <1>1, <1>2, MarkRun DEF DataKinds, Here
<1>4. last \in 1 .. Size + 1 /\ last \in 1 .. Size /\ run.start <= last
  BY <1>1
<1>5. /\ RunTyped(r) /\ r.pc = "switch" /\ r.at = last /\ r.end = run.end /\ r.start = run.start
      /\ r.mark = p.mark
  BY <1>2, <1>3, <1>4 DEF RunTyped, Places
<1>6. PendingOf(r) = PendingOf(p)
  BY <1>5 DEF PendingOf
<1>7. r.mark["body"] \in 1 .. Size
  BY <1>3, <1>5 DEF RunTyped, DataKinds
<1> QED
  BY <1>3, <1>4, <1>5, <1>6, <1>7

\* More of the body is to come.
LEMMA BodyGoesOn ==
    ASSUME ParserInv, Here, parser.state \in BodyMarked, NEW last \in run.at .. run.end,
           NEW q, ParserOK(q, LastKind(log)), q.state \in BodyMarked,
           Set(q, Next1([MarkAt(run, "body") EXCEPT !.at = last]))
    PROVE  ParserInv'
<1>1. PICK p : p = [MarkAt(run, "body") EXCEPT !.at = last]
  OBVIOUS
<1>2. /\ RunTyped(p) /\ p.at = last /\ p.end = run.end /\ p.start = run.start
      /\ PendingOf(p) = PendingOf(run) \cup {"body"} /\ last \in 1 .. Size /\ run.start <= last
  BY <1>1, BodyRun
<1>3. /\ run.at \in 1 .. Size /\ run.end \in 1 .. Size /\ Size \in Nat /\ RunTyped(run)
  BY HereFacts
<1>4. PICK r : r = Next1(p)
  OBVIOUS
<1>5. /\ RunTyped(r) /\ r.pc = "top" /\ r.at = last + 1 /\ r.end = run.end /\ r.start = run.start
      /\ PendingOf(r) = PendingOf(run) \cup {"body"}
  BY <1>2, <1>3, <1>4, MoveRun
<1>6. RangeOK(r)
  <2>1. run.start \in Nat
    BY <1>3 DEF RunTyped
  <2> QED
    BY <1>2, <1>3, <1>5, <2>1 DEF RangeOK
<1>7. MarkedAtEntry(q.state) = {} /\ MarkedAtEntry(parser.state) = {} /\ q.state # "s_chunk_size_start"
  BY DEF MarkedAtEntry, BodyMarked, Identities, UrlStates, UrlServer, UrlTail
<1>8. PendingOf(r) \ {"body"} = {}
  BY <1>5, <1>7, HereFacts
<1>9. MarksOK(q.state, r)
  BY <1>5, <1>7, <1>8 DEF MarksOK, BodyMarked
<1>10. CountOK(q, r)
  BY <1>7 DEF CountOK
<1>11. Set(q, r)
  BY <1>1, <1>4
<1> QED
  BY <1>6, <1>9, <1>10, <1>11, SetStep DEF RunOK

LEMMA BodyIdentityStep == ASSUME ParserInv, BodyIdentity PROVE ParserInv'
<1>1. Here /\ parser.state = "s_body_identity" /\ parser.state \in Identities /\ parser.state \in BodyMarked
  BY InHere DEF BodyIdentity, Identities, BodyMarked
<1>2. /\ Typed(parser) /\ log \in Seq(Events) /\ ParserOK(parser, LastKind(log)) /\ stream \in Streams
      /\ run.at \in 1 .. Size /\ run.end \in 1 .. Size /\ Size \in Nat /\ run.at <= run.end
  BY <1>1, HereFacts DEF Here
<1>3. parser.content_length \in 1 .. ULLONG_MAX - 1 /\ ULLONG_MAX \in Nat
  BY <1>1, <1>2, ParserAssumption DEF ParserOK, Sound, Asserted
<1>4. LastKind(log) \in {"headers_complete", "body"}
  BY <1>1, <1>2, Was
<1>5. ToRead \in Nat \ {0} /\ ToRead <= parser.content_length /\ LastRead \in run.at .. run.end
  BY <1>1, <1>3, ToReadFacts
<1>6. PICK n \in 0 .. ULLONG_MAX - 1 : n = parser.content_length - ToRead
  BY <1>3, <1>5
<1>7. PICK q : q = [parser EXCEPT !.content_length = n]
  OBVIOUS
<1>8. Typed(q) /\ q.state = parser.state /\ q.content_length = n /\ q.flags = parser.flags
  BY <1>2, <1>3, <1>6, <1>7 DEF Typed, FieldNames
<1>9. CASE n > 0
  <2>1. ParserOK(q, LastKind(log))
    BY <1>1, <1>4, <1>6, <1>8, <1>9, IdentityIs, SafeOK
  <2>2. Set(q, Next1([MarkAt(run, "body") EXCEPT !.at = LastRead]))
    BY <1>6, <1>7, <1>8, <1>9 DEF BodyIdentity
  <2> QED
    BY <1>1, <1>5, <1>8, <2>1, <2>2, BodyGoesOn
<1>10. CASE ~(n > 0)
  <2>1. PICK t : t = [q EXCEPT !.state = "s_message_done"]
    OBVIOUS
  <2>2. Typed(t) /\ t.state = "s_message_done"
    BY <1>8, <2>1 DEF Typed, FieldNames
  <2>3. ParserOK(t, "body") /\ MarkedAtEntry(t.state) = {} /\ t.state # "s_chunk_size_start"
    BY <2>2, MessageDoneIs, SafeOK
  <2>4. PICK p : p = [MarkAt(run, "body") EXCEPT !.at = LastRead]
    OBVIOUS
  <2>5. /\ RunTyped(p) /\ p.pc = "switch" /\ p.at = LastRead /\ p.end = run.end /\ p.start = run.start
        /\ PendingOf(p) = PendingOf(run) \cup {"body"} /\ p.mark["body"] \in 1 .. Size
        /\ LastRead \in 1 .. Size /\ run.start <= LastRead
    BY <1>1, <1>5, <2>4, BodyRun
  <2>6. PICK a : a = Again(p)
    OBVIOUS
  <2>7. /\ RunTyped(a) /\ a.pc = "switch" /\ a.at = LastRead /\ a.end = run.end /\ a.start = run.start
        /\ PendingOf(a) = PendingOf(p)
    BY <1>2, <2>5, <2>6, MoveRun
  <2>8. PICK r : r = MarkCleared(a, "body")
    OBVIOUS
  <2>9. "body" \in DataKinds /\ Follows(log, "body")
    BY <1>2, <1>4, FollowsOK DEF DataKinds, CallbacksAfter
  <2>10. /\ RunTyped(r) /\ r.pc = "switch" /\ r.at = LastRead /\ r.end = run.end /\ r.start = run.start
         /\ PendingOf(r) = PendingOf(a) \ {"body"}
    BY <1>2, <2>7, <2>8, <2>9, ClearedRun
  <2>11. PendingOf(r) = {}
    <3>1. MarkedAtEntry(parser.state) = {}
      BY <1>1 DEF MarkedAtEntry, UrlStates, UrlServer, UrlTail
    <3> QED
      BY <3>1, <1>1, <2>5, <2>7, <2>10, HereFacts
  <2>12. RunOK(t, r)
    <3>1. RangeOK(r)
      BY <1>2, <1>5, <2>5, <2>10 DEF RangeOK
    <3>2. ~(r.at > r.end) /\ "body" \notin PendingOf(r)
      BY <1>2, <1>5, <2>10, <2>11
    <3>3. MarksOK(t.state, r)
      BY <2>3, <2>10, <2>11, <3>2 DEF MarksOK
    <3>4. CountOK(t, r)
      BY <2>3 DEF CountOK
    <3> QED
      BY <3>1, <3>3, <3>4 DEF RunOK
  <2>13. PICK ev : ev = Piece("body", p.mark["body"], LastRead)
    OBVIOUS
  <2>14. InPlace(log, ev, "body")
    <3>1. LastRead \in 0 .. Size
      BY <2>5
    <3> QED
      BY <1>2, <2>5, <2>9, <2>13, <3>1, PieceOK
  <2>15. Call(t, r, ev, Idle(LastRead))
    BY <1>6, <1>7, <1>8, <1>10, <2>1, <2>4, <2>6, <2>8, <2>13 DEF BodyIdentity
  <2>16. LastRead \in 1 .. Size + 1
    BY <1>2, <2>5
  <2> QED
    BY <2>3, <2>12, <2>14, <2>15, <2>16, CallStep
<1> QED
  BY <1>9, <1>10

LEMMA BodyIdentityEofStep == ASSUME ParserInv, BodyIdentityEof PROVE ParserInv'
<1>1. Here /\ parser.state \in BodyMarked
  BY InHere DEF BodyIdentityEof, Identities, BodyMarked
<1>2. /\ ParserOK(parser, LastKind(log)) /\ run.end \in run.at .. run.end
  BY <1>1, HereFacts DEF Here
<1>3. Set(parser, Next1([MarkAt(run, "body") EXCEPT !.at = run.end]))
  BY DEF BodyIdentityEof
<1> QED
  BY <1>1, <1>2, <1>3, BodyGoesOn

LEMMA MessageDoneStep == ASSUME ParserInv, MessageDone PROVE ParserInv'
<1>1. Here /\ parser.state = "s_message_done"
  BY InHere DEF MessageDone
<1>2. Typed(parser) /\ log \in Seq(Events) /\ RunTyped(run)
  BY <1>1, HereFacts
<1>3. LastKind(log) \in {"body", "chunk_complete"}
  BY <1>1, HereFacts, Was
<1>4. MarkedAtEntry(parser.state) = {} /\ parser.state \notin BodyMarked
  BY <1>1, <1>3, MessageDoneIs
<1>5. PendingOf(run) = {}
  BY <1>1, <1>4, HereFacts
<1>6. Follows(log, "message_complete")
  BY <1>2, <1>3, FollowsOK DEF CallbacksAfter
<1>7. EndMessage(parser, run)
  BY DEF MessageDone
<1> QED
  BY <1>1, <1>2, <1>5, <1>6, <1>7, EndMessageStep

LEMMA HexOK ==
    ASSUME NEW c, IsHex(c)
    PROVE  HexDigit(c) \in 0 .. 15
<1>1. CASE c \in {"a", "c", "C", "f"}
  BY <1>1 DEF HexDigit
<1>2. CASE c \notin {"a", "c", "C", "f"}
  <2>1. c \in Digits
    BY <1>2 DEF IsHex, HexLetters
  <2>2. HexDigit(c) = DecimalDigit(c)
    BY <1>2 DEF HexDigit
  <2> QED
    BY <2>1, <2>2, Decimal
<1> QED
  BY <1>1, <1>2

\* The size of a chunk is being read.
LEMMA SizeGoesOn ==
    ASSUME ParserInv, Here, parser.state \in {"s_chunk_size_start"} \cup SizeStates,
           NEW q, Typed(q), q.state \in SizeStates, q.flags = parser.flags, q.content_length < ULLONG_MAX, Break(q)
    PROVE  ParserInv'
<1>1. ParserOK(parser, LastKind(log))
  BY HereFacts
<1>2. "F_CHUNKED" \in parser.flags
  BY <1>1 DEF ParserOK, Sound, Asserted, ChunkStates
<1>3. LastKind(log) \in {"headers_complete", "chunk_complete"}
  BY <1>1, Was
<1>4. ParserOK(q, LastKind(log)) /\ MarkedAtEntry(q.state) = {} /\ q.state # "s_chunk_size_start"
  BY <1>2, <1>3, SizeIs, SafeOK
<1>5. MarkedAtEntry(parser.state) = {} /\ parser.state \notin BodyMarked
  BY DEF MarkedAtEntry, SizeStates, BodyMarked, Identities, UrlStates, UrlServer, UrlTail
<1>6. Set(q, Next1(run))
  BY DEF Break
<1> QED
  BY <1>4, <1>5, <1>6, GoStep

LEMMA ChunkSizeStartStep == ASSUME ParserInv, ChunkSizeStart PROVE ParserInv'
<1>1. Here /\ parser.state = "s_chunk_size_start"
  BY InHere DEF ChunkSizeStart
<1>2. Typed(parser) /\ run.pc # "closed"
  BY <1>1, HereFacts
<1>3. CASE IsHex(ch)
  <2>1. PICK d \in 0 .. 15 : d = HexDigit(ch)
    BY <1>3, HexOK
  <2>2. PICK q : q = [parser EXCEPT !.content_length = d, !.state = "s_chunk_size"]
    OBVIOUS
  <2>3. d \in 0 .. ULLONG_MAX /\ d < ULLONG_MAX
    BY ParserAssumption
  <2>4. Typed(q) /\ q.state \in SizeStates /\ q.flags = parser.flags /\ q.content_length < ULLONG_MAX
    BY <1>2, <2>2, <2>3 DEF Typed, FieldNames, SizeStates
  <2>5. Break(q)
    BY <1>3, <2>1, <2>2 DEF ChunkSizeStart
  <2> QED
    BY <1>1, <2>4, <2>5, SizeGoesOn
<1>4. CASE ~IsHex(ch)
  BY <1>2, <1>4, RefuseStep DEF ChunkSizeStart
<1> QED
  BY <1>3, <1>4

\* A size that is not too long does not wrap.
LEMMA SizeBounded ==
    ASSUME Typed(parser), ~TooLong(16), NEW d \in 0 .. 15
    PROVE  Widen(16, d) \in 0 .. ULLONG_MAX - 1
<1>1. PICK c \in Nat : c = parser.content_length
  BY ParserAssumption DEF Typed
<1>2. PICK m \in Nat : m = ULLONG_MAX - 16
  BY ParserAssumption
<1>3. c <= m \div 16
  BY <1>1, <1>2 DEF TooLong
<1>4. c * 16 + d \in 0 .. m + 15
  BY <1>3
<1>5. PICK n \in 0 .. ULLONG_MAX - 1 : n = c * 16 + d
  BY <1>2, <1>4, ParserAssumption
<1>6. n % (ULLONG_MAX + 1) = n
  BY ParserAssumption
<1> QED
  BY <1>1, <1>5, <1>6 DEF Widen

LEMMA ChunkSizeStep == ASSUME ParserInv, ChunkSize PROVE ParserInv'
<1>1. Here /\ parser.state \in SizeStates
  BY InHere DEF ChunkSize, SizeStates
<1>2. Typed(parser) /\ run.pc # "closed"
  BY <1>1, HereFacts
<1>3. CASE IsHex(ch) /\ ~TooLong(16)
  <2>1. PICK d \in 0 .. 15 : d = HexDigit(ch)
    BY <1>3, HexOK
  <2>2. PICK n \in 0 .. ULLONG_MAX - 1 : n = Widen(16, d)
    BY <1>2, <1>3, SizeBounded
  <2>3. PICK q : q = [parser EXCEPT !.content_length = n]
    OBVIOUS
  <2>4. n \in 0 .. ULLONG_MAX /\ n < ULLONG_MAX
    BY ParserAssumption
  <2>5. Typed(q) /\ q.state = parser.state /\ q.flags = parser.flags /\ q.content_length < ULLONG_MAX
    BY <1>2, <2>3, <2>4 DEF Typed, FieldNames
  <2>6. Break(q)
    BY <1>3, <2>1, <2>2, <2>3 DEF ChunkSize
  <2> QED
    BY <1>1, <2>5, <2>6, SizeGoesOn
<1>4. CASE IsHex(ch) /\ TooLong(16)
  <2>1. Fail("INVALID_CONTENT_LENGTH")
    BY <1>4 DEF ChunkSize
  <2> QED
    BY <1>2, <2>1, FailStep
<1>5. CASE ~IsHex(ch)
  <2>1. Refuse
    BY <1>5 DEF ChunkSize
  <2> QED
    BY <1>2, <2>1, RefuseStep
<1> QED
  BY <1>3, <1>4, <1>5

\* CALLBACK_NOTIFY when nread starts again.
LEMMA NotifyResetStep ==
    ASSUME ParserInv, Here, NEW q, NEW k \in Notices, Follows(log, k), ParserOK(q, k),
           q.nread = 0, Notify(k, q, [run EXCEPT !.nread = 0]),
           MarkedAtEntry(q.state) = MarkedAtEntry(parser.state),
           parser.state \notin BodyMarked
    PROVE  ParserInv'
<1>1. /\ RunTyped(run) /\ run.at \in 1 .. Size /\ Size \in Nat /\ run.start \in 0 .. run.at
  BY HereFacts
<1>2. PICK p : p = [run EXCEPT !.nread = 0]
  OBVIOUS
<1>3. /\ RunTyped(p) /\ p.at = run.at /\ p.end = run.end /\ p.nread = 0 /\ p.start = run.start
      /\ PendingOf(p) = PendingOf(run)
  BY <1>1, <1>2, ResetRun
<1>4. PICK r : r = Next1(p)
  OBVIOUS
<1>5. /\ RunTyped(r) /\ r.pc = "top" /\ r.at = run.at + 1 /\ r.end = run.end /\ r.nread = 0
      /\ r.start = run.start /\ PendingOf(r) = PendingOf(run)
  BY <1>1, <1>3, <1>4, MoveRun
<1>6. Onward(q, r)
  BY <1>1, <1>5, HereFacts DEF Onward
<1>7. run.at + 1 \in 1 .. Size + 1
  BY <1>1
<1>8. Call(q, r, <<<<k>>>>, Idle(run.at + 1))
  BY <1>2, <1>4 DEF Notify
<1> QED
  BY <1>6, <1>7, <1>8, OnwardOK, OneEvent, CallStep

LEMMA ChunkSizeAlmostDoneStep == ASSUME ParserInv, ChunkSizeAlmostDone PROVE ParserInv'
<1>1. Here /\ parser.state = "s_chunk_size_almost_done" /\ parser.state \in SizeStates
  BY InHere DEF ChunkSizeAlmostDone, SizeStates
<1>2. Typed(parser) /\ run.pc # "closed" /\ log \in Seq(Events) /\ ParserOK(parser, LastKind(log))
  BY <1>1, HereFacts
<1>3. "F_CHUNKED" \in parser.flags /\ parser.content_length < ULLONG_MAX /\ parser.content_length \in Nat
  BY <1>1, <1>2, ParserAssumption DEF ParserOK, Sound, Asserted, ChunkStates, Typed
<1>4. LastKind(log) \in {"headers_complete", "chunk_complete"}
  BY <1>1, <1>2, Was
<1>5. MarkedAtEntry(parser.state) = {} /\ parser.state \notin BodyMarked
  BY <1>1, <1>3, <1>4, SizeIs
<1>6. "chunk_header" \in Notices /\ Follows(log, "chunk_header")
  BY <1>2, <1>4, FollowsOK DEF Notices, CallbacksAfter
<1>7. CASE Refuse
  BY <1>2, <1>7, RefuseStep
<1>8. CASE parser.content_length = 0 /\ ch = LF
  <2>1. PICK q : q = [parser EXCEPT !.nread = 0, !.flags = @ \cup {"F_TRAILING"}, !.state = "s_header_field_start"]
    OBVIOUS
  <2>2. "F_TRAILING" \in Flags
    BY DEF Flags
  <2>3. Typed(q) /\ q.state \in FieldStates /\ "F_TRAILING" \in q.flags /\ q.nread = 0
    BY <1>2, <2>1, <2>2 DEF Typed, FieldNames, FieldStates
  <2>4. "chunk_header" \in BeforeField(q.flags)
    BY <2>3 DEF BeforeField
  <2>5. Notify("chunk_header", q, [run EXCEPT !.nread = 0])
    BY <1>8, <2>1 DEF ChunkSizeAlmostDone, NreadReset
  <2>6. ParserOK(q, "chunk_header") /\ MarkedAtEntry(q.state) = {}
    BY <2>3, <2>4, FieldStartIs, SafeOK
  <2> QED
    BY <1>1, <1>5, <1>6, <2>3, <2>5, <2>6, NotifyResetStep
<1>9. CASE parser.content_length # 0 /\ ch = LF
  <2>1. PICK q : q = [parser EXCEPT !.nread = 0, !.state = "s_chunk_data"]
    OBVIOUS
  <2>2. /\ Typed(q) /\ q.state = "s_chunk_data" /\ q.flags = parser.flags /\ q.nread = 0
        /\ q.content_length = parser.content_length
    BY <1>2, <2>1 DEF Typed, FieldNames
  <2>3. q.content_length \in 1 .. ULLONG_MAX - 1
    BY <1>3, <1>9, <2>2, ParserAssumption
  <2>4. Notify("chunk_header", q, [run EXCEPT !.nread = 0])
    BY <1>9, <2>1 DEF ChunkSizeAlmostDone, NreadReset
  <2>5. ParserOK(q, "chunk_header") /\ MarkedAtEntry(q.state) = {}
    BY <1>3, <2>2, <2>3, ChunkDataIs, SafeOK
  <2> QED
    BY <1>1, <1>5, <1>6, <2>2, <2>4, <2>5, NotifyResetStep
<1> QED
  BY <1>7, <1>8, <1>9 DEF ChunkSizeAlmostDone

LEMMA ChunkDataStep == ASSUME ParserInv, ChunkData PROVE ParserInv'
<1>1. Here /\ parser.state = "s_chunk_data" /\ parser.state \in BodyMarked
  BY InHere DEF ChunkData, BodyMarked
<1>2. Typed(parser) /\ ParserOK(parser, LastKind(log))
  BY <1>1, HereFacts
<1>3. /\ "F_CHUNKED" \in parser.flags /\ parser.content_length \in 1 .. ULLONG_MAX - 1 /\ ULLONG_MAX \in Nat
  BY <1>1, <1>2, ParserAssumption DEF ParserOK, Sound, Asserted, ChunkStates
<1>4. LastKind(log) \in {"chunk_header", "body"}
  BY <1>1, <1>2, Was
<1>5. ToRead \in Nat \ {0} /\ ToRead <= parser.content_length /\ LastRead \in run.at .. run.end
  BY <1>1, <1>3, ToReadFacts
<1>6. PICK n \in 0 .. ULLONG_MAX - 1 : n = parser.content_length - ToRead
  BY <1>3, <1>5
<1>7. PICK s : s = IF parser.content_length = ToRead THEN "s_chunk_data_almost_done" ELSE parser.state
  OBVIOUS
<1>8. PICK q : q = [parser EXCEPT !.content_length = n, !.state = s]
  OBVIOUS
<1>9. Typed(q) /\ q.state = s /\ q.content_length = n /\ q.flags = parser.flags
  BY <1>2, <1>3, <1>6, <1>8 DEF Typed, FieldNames
<1>10. Safe(q, LastKind(log)) /\ q.state \in BodyMarked
  <2>1. CASE parser.content_length = ToRead
    <3>1. s = "s_chunk_data_almost_done" /\ n = 0
      BY <2>1, <1>3, <1>6, <1>7
    <3> QED
      BY <3>1, <1>3, <1>4, <1>9, ChunkDataEndIs DEF BodyMarked
  <2>2. CASE parser.content_length # ToRead
    <3>1. s = "s_chunk_data" /\ n \in 1 .. ULLONG_MAX - 1
      BY <2>2, <1>1, <1>3, <1>5, <1>6, <1>7
    <3> QED
      BY <3>1, <1>3, <1>4, <1>9, ChunkDataIs DEF BodyMarked
  <2> QED
    BY <2>1, <2>2
<1>11. Set(q, Next1([MarkAt(run, "body") EXCEPT !.at = LastRead]))
  BY <1>6, <1>7, <1>8 DEF ChunkData
<1> QED
  BY <1>1, <1>5, <1>9, <1>10, <1>11, SafeOK, BodyGoesOn

LEMMA ChunkDataAlmostDoneStep == ASSUME ParserInv, ChunkDataAlmostDone PROVE ParserInv'
<1>1. Here /\ parser.state = "s_chunk_data_almost_done"
  BY InHere DEF ChunkDataAlmostDone
<1>2. Typed(parser) /\ run.pc # "closed" /\ log \in Seq(Events) /\ ParserOK(parser, LastKind(log))
  BY <1>1, HereFacts
<1>3. "F_CHUNKED" \in parser.flags
  BY <1>1, <1>2 DEF ParserOK, Sound, Asserted, ChunkStates
<1>4. LastKind(log) \in {"chunk_header", "body"}
  BY <1>1, <1>2, Was
<1>5. MarkedAtEntry(parser.state) = {}
  BY <1>1 DEF MarkedAtEntry, UrlStates, UrlServer, UrlTail
<1>6. CASE Refuse
  BY <1>2, <1>6, RefuseStep
<1>7. CASE CallbackData("body", To("s_chunk_data_done"))
  <2>1. PICK q : q = [parser EXCEPT !.state = "s_chunk_data_done"]
    OBVIOUS
  <2>2. Typed(q) /\ q.state = "s_chunk_data_done" /\ q.flags = parser.flags
    BY <1>2, <2>1 DEF Typed, FieldNames
  <2>3. CallbackData("body", q)
    BY <1>7, <2>1 DEF To
  <2>4. /\ ParserOK(q, "body") /\ ParserOK(q, LastKind(log)) /\ MarkedAtEntry(q.state) = {}
        /\ q.state # "s_chunk_size_start"
    BY <1>3, <1>4, <2>2, ChunkDoneIs, SafeOK
  <2>5. "body" \in DataKinds /\ Follows(log, "body")
    BY <1>2, <1>4, FollowsOK DEF DataKinds, CallbacksAfter
  <2> QED
    BY <1>1, <1>5, <2>3, <2>4, <2>5, HandOverStep
<1> QED
  BY <1>6, <1>7 DEF ChunkDataAlmostDone

LEMMA ChunkDataDoneStep == ASSUME ParserInv, ChunkDataDone PROVE ParserInv'
<1>1. Here /\ parser.state = "s_chunk_data_done"
  BY InHere DEF ChunkDataDone
<1>2. Typed(parser) /\ run.pc # "closed" /\ log \in Seq(Events) /\ ParserOK(parser, LastKind(log))
  BY <1>1, HereFacts
<1>3. "F_CHUNKED" \in parser.flags
  BY <1>1, <1>2 DEF ParserOK, Sound, Asserted, ChunkStates
<1>4. LastKind(log) \in {"chunk_header", "body"}
  BY <1>1, <1>2, Was
<1>5. MarkedAtEntry(parser.state) = {} /\ parser.state \notin BodyMarked
  BY <1>1, <1>3, <1>4, ChunkDoneIs
<1>6. "chunk_complete" \in Notices /\ Follows(log, "chunk_complete")
  BY <1>2, <1>4, FollowsOK DEF Notices, CallbacksAfter
<1>7. CASE Refuse
  BY <1>2, <1>7, RefuseStep
<1>8. CASE ch = LF
  <2>1. PICK q : q = [parser EXCEPT !.nread = 0, !.state = "s_chunk_size_start"]
    OBVIOUS
  <2>2. Typed(q) /\ q.state = "s_chunk_size_start" /\ q.flags = parser.flags /\ q.nread = 0
    BY <1>2, <2>1 DEF Typed, FieldNames
  <2>3. Notify("chunk_complete", q, [run EXCEPT !.nread = 0])
    BY <1>8, <2>1 DEF ChunkDataDone, NreadReset
  <2>4. ParserOK(q, "chunk_complete") /\ MarkedAtEntry(q.state) = {}
    BY <1>3, <2>2, SizeStartIs, SafeOK
  <2> QED
    BY <1>1, <1>5, <1>6, <2>2, <2>3, <2>4, NotifyResetStep
<1> QED
  BY <1>7, <1>8 DEF ChunkDataDone

LEMMA BodyStep == ASSUME ParserInv, Body PROVE ParserInv'
  BY BodyIdentityStep, BodyIdentityEofStep, MessageDoneStep, ChunkSizeStartStep, ChunkSizeStep,
     ChunkSizeAlmostDoneStep, ChunkDataStep, ChunkDataAlmostDoneStep, ChunkDataDoneStep DEF Body

-------------------------------------------------------------------------------
(* The loop and the calls                                                  *)

LEMMA RunFacts ==
    ASSUME ParserInv
    PROVE  /\ stream \in Streams /\ Size \in Nat /\ RunTyped(run) /\ RangeOK(run) /\ MarksOK(parser.state, run)
           /\ CountOK(parser, run) /\ Typed(parser) /\ Sound(parser) /\ log \in Seq(Events)
           /\ run.at \in 1 .. Size + 1 /\ run.end \in 0 .. Size /\ run.nread \in Nat /\ run.start \in 0 .. run.at
           /\ run.pc # "closed" => ParserOK(parser, LastKind(log))
<1>1. stream \in Streams /\ RunOK(parser, run) /\ Sound(parser) /\ log \in Seq(Events)
  BY DEF ParserInv
<1>2. RangeOK(run) /\ MarksOK(parser.state, run) /\ CountOK(parser, run) /\ RunTyped(run) /\ Size \in Nat
  BY <1>1, Stream DEF RunOK, RangeOK
<1>3. /\ run.at \in 1 .. Size + 1 /\ run.end \in 0 .. Size /\ run.nread \in Nat /\ run.start \in 0 .. run.at
  BY <1>2 DEF RangeOK, RunTyped
<1>4. Typed(parser) /\ (run.pc # "closed" => ParserOK(parser, LastKind(log)))
  BY <1>1 DEF Sound, ParserInv, ParserOK
<1> QED
  BY <1>1, <1>2, <1>3, <1>4

LEMMA NextByteStep == ASSUME ParserInv, NextByte PROVE ParserInv'
<1>1. run.pc = "top" /\ run.at <= run.end
  BY DEF NextByte
<1>2. PICK n \in Nat : n = IF parser.state \in BodyStates THEN run.nread ELSE run.nread + 1
  BY RunFacts
<1>3. CASE n > MaxHeaderSize
  <2>1. Set([parser EXCEPT !.errno = "HEADER_OVERFLOW", !.nread = n], Idle(run.at))
    BY <1>2, <1>3 DEF NextByte
  <2> QED
    BY <1>1, <2>1, RunFacts, ErrorStep
<1>4. CASE ~(n > MaxHeaderSize)
  <2>1. PICK r : r = [run EXCEPT !.pc = "switch", !.nread = n]
    OBVIOUS
  <2>2. /\ RunTyped(r) /\ r.pc = "switch" /\ r.at = run.at /\ r.end = run.end /\ r.nread = n
        /\ r.start = run.start /\ r.mark = run.mark
    BY <2>1, RunFacts DEF RunTyped, Places
  <2>3. RangeOK(r)
    BY <1>1, <2>2, RunFacts DEF RangeOK
  <2>4. PendingOf(r) = PendingOf(run)
    BY <2>2 DEF PendingOf
  <2>5. MarksOK(parser.state, r)
    BY <1>1, <2>2, <2>4, RunFacts DEF MarksOK
  <2>6. CountOK(parser, r)
    <3>1. CASE parser.state = "s_chunk_size_start"
      <4>1. run.nread = 0 /\ parser.state \notin BodyStates
        BY <1>1, <3>1, RunFacts DEF CountOK, BodyStates
      <4> QED
        BY <1>2, <2>2, <4>1 DEF CountOK
    <3>2. CASE parser.state # "s_chunk_size_start"
      BY <3>2 DEF CountOK
    <3> QED
      BY <3>1, <3>2
  <2>7. Set(parser, r)
    BY <1>2, <1>4, <2>1 DEF NextByte
  <2> QED
    BY <1>1, <2>3, <2>5, <2>6, <2>7, RunFacts, SetStep DEF RunOK
<1> QED
  BY <1>3, <1>4

LEMMA ScanEndsStep == ASSUME ParserInv, ScanEnds PROVE ParserInv'
<1>1. run.pc = "scanned" \/ (run.pc = "switch" /\ run.at > run.end)
  BY DEF ScanEnds
<1>2. PICK at : at = IF run.at > run.end THEN run.end ELSE run.at
  OBVIOUS
<1>3. /\ run.pc = "scanned" => at = run.at /\ at \in 1 .. Size /\ run.start \in 1 .. at /\ run.at <= run.end
                               /\ parser.state = "s_header_almost_done"
      /\ run.pc = "switch" => at = run.end /\ run.start \in 1 .. at /\ at \in 1 .. Size
                              /\ parser.state \in {"s_header_field", "s_header_value"}
  BY <1>1, <1>2, RunFacts DEF RangeOK, MarksOK
<1>4. at \in 1 .. Size /\ run.start \in 1 .. at /\ run.start <= run.at /\ at <= run.end /\ run.pc # "closed"
      /\ parser.state # "s_chunk_size_start"
  BY <1>1, <1>3, RunFacts
<1>5. /\ ScanCount(at) \in Nat
      /\ \A r : r = Scanned(at) =>
            /\ RunTyped(r) /\ r.pc = run.pc /\ r.at = at /\ r.end = run.end /\ r.start = 0
            /\ r.mark = run.mark
  BY <1>4, RunFacts, ScannedFacts
<1>6. CASE ScanCount(at) > MaxHeaderSize
  <2>1. Overflow(at)
    BY <1>2, <1>6 DEF ScanEnds
  <2> QED
    BY <1>4, <1>5, <2>1, OverflowStep
<1>7. CASE ~(ScanCount(at) > MaxHeaderSize)
  <2>1. PICK p : p = Scanned(at)
    OBVIOUS
  <2>2. /\ RunTyped(p) /\ p.at = at /\ p.end = run.end /\ p.start = 0 /\ p.mark = run.mark
    BY <1>5, <2>1
  <2>3. PICK r : r = Next1(p)
    OBVIOUS
  <2>4. /\ RunTyped(r) /\ r.pc = "top" /\ r.at = at + 1 /\ r.end = run.end /\ r.start = 0 /\ r.mark = run.mark
    BY <1>4, <2>2, <2>3, RunFacts, MoveRun
  <2>5. RangeOK(r)
    BY <1>4, <2>4, RunFacts DEF RangeOK
  <2>6. PendingOf(r) = PendingOf(run)
    BY <2>4 DEF PendingOf
  <2>7. MarksOK(parser.state, r)
    BY <1>1, <2>4, <2>6, RunFacts DEF MarksOK
  <2>8. CountOK(parser, r)
    BY <1>4 DEF CountOK
  <2>9. Set(parser, r)
    BY <1>2, <1>7, <2>1, <2>3 DEF ScanEnds
  <2> QED
    BY <1>4, <2>5, <2>7, <2>8, <2>9, RunFacts, SetStep DEF RunOK
<1> QED
  BY <1>6, <1>7

\* A string may be handed over in pieces: the state stays as good.
LEMMA HandedOver ==
    ASSUME NEW p, NEW last, ParserOK(p, last), NEW k,
           \/ k \in MarkedAtEntry(p.state)
           \/ k = "body" /\ p.state \in BodyMarked
    PROVE  /\ ParserOK(p, k) /\ k \in DataKinds /\ last # "none" /\ k \in CallbacksAfter[last]
           /\ p.state # "s_chunk_size_start"
<1>1. Typed(p) /\ Asserted(p)
  BY DEF ParserOK, Sound
<1>2. CASE p.state \in UrlStates /\ k = "url"
  <2>1. last \in {"message_begin", "url"} /\ "F_TRAILING" \notin p.flags
    BY <1>2, Was
  <2> QED
    BY <1>1, <1>2, <2>1, UrlIs, SafeOK DEF DataKinds, CallbacksAfter
<1>3. CASE p.state = "s_res_status" /\ k = "status"
  <2>1. last \in {"message_begin", "status"} /\ "F_TRAILING" \notin p.flags
    BY <1>3, Was
  <2> QED
    BY <1>1, <1>3, <2>1, StatusIs, SafeOK DEF DataKinds, CallbacksAfter
<1>4. CASE p.state = "s_header_field" /\ k = "header_field"
  <2>1. last \in {"status", "url", "header_value", "chunk_header", "header_field"}
    BY <1>4, Was DEF BeforeField
  <2>2. p.header_state \in HeaderFieldStates
    BY <1>1, <1>4 DEF Asserted
  <2> QED
    BY <1>1, <1>4, <2>1, <2>2, FieldIs, SafeOK DEF DataKinds, CallbacksAfter
<1>5. CASE p.state = "s_header_value" /\ k = "header_value"
  <2>1. last \in {"header_field", "header_value"}
    BY <1>5, Was
  <2>2. p.header_state \notin {"h_connection", "h_transfer_encoding"}
    BY <1>1, <1>5 DEF Asserted
  <2> QED
    BY <1>1, <1>5, <2>1, <2>2, ValueIs, SafeOK DEF DataKinds, CallbacksAfter
<1>6. CASE p.state \in Identities /\ k = "body"
  <2>1. last \in {"headers_complete", "body"}
    BY <1>6, Was
  <2>2. ParserOK(p, k)
    <3>1. CASE p.state = "s_body_identity"
      BY <3>1, <1>1, <1>6, IdentityIs, SafeOK DEF Asserted
    <3>2. CASE p.state = "s_body_identity_eof"
      BY <3>2, <1>1, <1>6, IdentityEofIs, SafeOK
    <3> QED
      BY <3>1, <3>2, <1>6 DEF Identities
  <2> QED
    BY <1>6, <2>1, <2>2 DEF DataKinds, CallbacksAfter, Identities
<1>7. CASE p.state \in {"s_chunk_data", "s_chunk_data_almost_done"} /\ k = "body"
  <2>1. last \in {"chunk_header", "body"}
    BY <1>7, Was
  <2>2. "F_CHUNKED" \in p.flags
    BY <1>1, <1>7 DEF Asserted, ChunkStates
  <2>3. ParserOK(p, k)
    <3>1. CASE p.state = "s_chunk_data"
      BY <3>1, <1>1, <1>7, <2>2, ChunkDataIs, SafeOK DEF Asserted
    <3>2. CASE p.state = "s_chunk_data_almost_done"
      BY <3>2, <1>1, <1>7, <2>2, ChunkDataEndIs, SafeOK DEF Asserted
    <3> QED
      BY <3>1, <3>2, <1>7
  <2> QED
    BY <1>7, <2>1, <2>3 DEF DataKinds, CallbacksAfter
<1>8. k = "body" /\ p.state \in BodyMarked =>
         p.state \in Identities \/ p.state \in {"s_chunk_data", "s_chunk_data_almost_done"}
  BY DEF BodyMarked
<1>9. k \in MarkedAtEntry(p.state) =>
         \/ p.state \in UrlStates /\ k = "url"
         \/ p.state = "s_res_status" /\ k = "status"
         \/ p.state = "s_header_field" /\ k = "header_field"
         \/ p.state = "s_header_value" /\ k = "header_value"
  BY DEF MarkedAtEntry
<1> QED
  BY <1>2, <1>3, <1>4, <1>5, <1>6, <1>7, <1>8, <1>9

LEMMA EndOfDataStep == ASSUME ParserInv, EndOfData PROVE ParserInv'
<1>1. run.pc \in {"top", "return"} /\ run.at > run.end /\ run.pc # "closed"
  BY DEF EndOfData
<1>2. Pending = PendingOf(run)
  BY DEF Pending, PendingOf
<1>3. CASE Pending = {}
  <2>1. PICK q : q = [parser EXCEPT !.nread = run.nread]
    OBVIOUS
  <2>2. Alike(parser, q) /\ q.nread = run.nread
    BY <2>1, RunFacts DEF Typed, FieldNames, Alike
  <2>3. ParserOK(q, LastKind(log))
    BY <1>1, <2>2, RunFacts, SameOK DEF ParserOK
  <2>4. RangeOK(Idle(run.at)) /\ MarksOK(q.state, Idle(run.at))
    BY RunFacts, IdleOK
  <2>5. CountOK(q, Idle(run.at))
    <3>1. q.state = "s_chunk_size_start" => q.nread = 0
      BY <1>1, <2>2, RunFacts DEF CountOK, Alike
    <3> QED
      BY <3>1 DEF CountOK, Idle
  <2>6. Set(q, Idle(run.at))
    BY <1>3, <2>1 DEF EndOfData
  <2> QED
    BY <2>3, <2>4, <2>5, <2>6, SetStep DEF RunOK
<1>4. CASE Pending # {}
  <2>1. PICK k \in Pending : Data(k, parser, [run EXCEPT !.pc = "return"], run.end, run.at)
    BY <1>4 DEF EndOfData
  <2>2. k \in DataKinds /\ run.mark[k] # 0 /\ k \in PendingOf(run)
    BY <1>2 DEF Pending
  <2>3. run.pc = "top"
    BY <1>1, <1>2, <1>4, RunFacts DEF MarksOK
  <2>4. /\ PendingOf(run) \ {"body"} = MarkedAtEntry(parser.state)
        /\ "body" \in PendingOf(run) => parser.state \in BodyMarked
    BY <2>3, RunFacts DEF MarksOK, BodyMarked
  <2>5. /\ ParserOK(parser, k) /\ LastKind(log) # "none" /\ k \in CallbacksAfter[LastKind(log)]
        /\ parser.state # "s_chunk_size_start"
    <3>1. ParserOK(parser, LastKind(log))
      BY <1>1, RunFacts
    <3> QED
      BY <2>2, <2>4, <3>1, HandedOver
  <2>6. Follows(log, k)
    BY <2>5, RunFacts, FollowsOK
  <2>7. PICK p : p = [run EXCEPT !.pc = "return"]
    OBVIOUS
  <2>8. /\ RunTyped(p) /\ p.pc = "return" /\ p.at = run.at /\ p.end = run.end /\ p.start = run.start
        /\ p.mark = run.mark
    BY <2>7, RunFacts DEF RunTyped, Places
  <2>9. PICK r : r = MarkCleared(p, k)
    OBVIOUS
  <2>10. /\ RunTyped(r) /\ r.pc = "return" /\ r.at = run.at /\ r.end = run.end /\ r.start = run.start
         /\ PendingOf(r) = PendingOf(run) \ {k}
    <3>1. PendingOf(p) = PendingOf(run)
      BY <2>8 DEF PendingOf
    <3> QED
      BY <2>2, <2>8, <2>9, <3>1, RunFacts, ClearedRun
  <2>11. PendingOf(r) = {}
    <3>1. PendingOf(run) \subseteq {k}
      <4>1. CASE "body" \in PendingOf(run)
        <5>1. MarkedAtEntry(parser.state) = {}
          BY <2>4, <4>1 DEF BodyMarked, Identities, MarkedAtEntry, UrlStates, UrlServer, UrlTail
        <5> QED
          BY <2>2, <2>4, <5>1
      <4>2. CASE "body" \notin PendingOf(run)
        <5>1. PendingOf(run) = MarkedAtEntry(parser.state)
          BY <2>4, <4>2
        <5>2. \A j \in MarkedAtEntry(parser.state) : MarkedAtEntry(parser.state) \subseteq {j}
          BY DEF MarkedAtEntry
        <5> QED
          BY <2>2, <5>1, <5>2
      <4> QED
        BY <4>1, <4>2
    <3> QED
      BY <2>10, <3>1
  <2>12. RunOK(parser, r)
    <3>1. RangeOK(r)
      BY <2>3, <2>10, RunFacts DEF RangeOK
    <3>2. MarksOK(parser.state, r)
      BY <2>10, <2>11 DEF MarksOK
    <3>3. CountOK(parser, r)
      BY <2>5 DEF CountOK
    <3> QED
      BY <3>1, <3>2, <3>3 DEF RunOK
  <2> QED
    BY <2>1, <2>2, <2>5, <2>6, <2>7, <2>9, <2>12, RunFacts, DataStep
<1> QED
  BY <1>3, <1>4

LEMMA LoopStep == ASSUME ParserInv, Loop PROVE ParserInv'
  BY NextByteStep, ScanEndsStep, EndOfDataStep, MoveStep, MoveRefusedStep DEF Loop

LEMMA ExecuteStep ==
    ASSUME ParserInv, NEW n \in Int, http_parser_execute(n)
    PROVE  ParserInv'
<1>1. run.pc = "idle" /\ parser.errno = "OK" /\ n > 0 /\ run.at + n - 1 <= Size
  BY DEF http_parser_execute, CanFeed
<1>2. PICK r : r = [pc |-> "top", at |-> run.at, end |-> run.at + n - 1, nread |-> parser.nread, start |-> 0,
                    mark |-> [k \in DataKinds |-> IF k \in MarkedAtEntry(parser.state) THEN run.at ELSE 0]]
  OBVIOUS
<1>3. run.at \in 1 .. Size /\ run.at + n - 1 \in run.at .. Size /\ parser.nread \in Nat /\ 0 \in 0 .. Size
  BY <1>1, RunFacts DEF Typed
<1>4. /\ RunTyped(r) /\ r.pc = "top" /\ r.at = run.at /\ r.end = run.at + n - 1 /\ r.start = 0
      /\ r.nread = parser.nread
  <2>1. [k \in DataKinds |-> IF k \in MarkedAtEntry(parser.state) THEN run.at ELSE 0] \in [DataKinds -> 0 .. Size]
    BY <1>3
  <2> QED
    BY <1>2, <1>3, <2>1, RunFacts DEF RunTyped, Places
<1>5. PendingOf(r) = MarkedAtEntry(parser.state) /\ "body" \notin MarkedAtEntry(parser.state)
  <2>1. MarkedAtEntry(parser.state) \subseteq DataKinds \ {"body"}
    BY DEF MarkedAtEntry, DataKinds
  <2>2. \A k \in DataKinds : r.mark[k] = IF k \in MarkedAtEntry(parser.state) THEN run.at ELSE 0
    BY <1>2
  <2>3. run.at # 0
    BY <1>3
  <2> QED
    BY <2>1, <2>2, <2>3 DEF PendingOf
<1>6. RangeOK(r)
  BY <1>3, <1>4, RunFacts DEF RangeOK
<1>7. MarksOK(parser.state, r)
  BY <1>4, <1>5 DEF MarksOK
<1>8. CountOK(parser, r)
  BY <1>1, <1>4, RunFacts DEF CountOK
<1>9. Set(parser, r)
  BY <1>2 DEF http_parser_execute
<1>10. ParserOK(parser, LastKind(log))
  BY <1>1, RunFacts
<1> QED
  BY <1>6, <1>7, <1>8, <1>9, <1>10, SetStep DEF RunOK

LEMMA ClosedOK ==
    ASSUME NEW at \in 1 .. Size + 1, stream \in Streams, NEW n \in Nat, NEW r,
           r = [Idle(at) EXCEPT !.pc = "closed", !.nread = n]
    PROVE  r.pc = "closed" /\ \A p : RunOK(p, r)
<1>1. /\ r.pc = "closed" /\ r.at = at /\ r.end = 0 /\ r.nread = n /\ r.mark = NoMarks /\ r.start = 0
      /\ DOMAIN r = {"pc", "at", "end", "nread", "mark", "start"}
  BY DEF Idle
<1>2. 0 \in 0 .. Size /\ NoMarks \in [DataKinds -> 0 .. Size]
  BY Stream DEF NoMarks
<1>3. RangeOK(r)
  BY <1>1, <1>2 DEF RangeOK, RunTyped, Places
<1>4. PendingOf(r) = {}
  BY <1>1 DEF PendingOf, NoMarks
<1>5. ASSUME NEW p
      PROVE  RunOK(p, r)
  BY <1>1, <1>3, <1>4 DEF RunOK, MarksOK, CountOK
<1> QED
  BY <1>1, <1>5

\* Once the connection is closed, the last callback binds no state any more.
LEMMA CloseStep ==
    ASSUME ParserInv, NEW q, NEW r, Sound(q), RunOK(q, r), r.pc = "closed", parser' = q, run' = r,
           stream' = stream, pauses' \in 0 .. MaxPauses, (log \in Seq(Events) /\ CallbackOrder)'
    PROVE  ParserInv'
<1>1. RunOK(parser, run)'
  BY RunSame
<1> QED
  BY <1>1 DEF ParserInv

LEMMA EofStep == ASSUME ParserInv, http_parser_execute_eof PROVE ParserInv'
<1>1. run.pc = "idle" /\ parser.errno = "OK"
  BY DEF http_parser_execute_eof, CanFeed
<1>2. PICK r : r = [Idle(run.at) EXCEPT !.pc = "closed", !.nread = parser.nread]
  OBVIOUS
<1>3. parser.nread \in Nat /\ ParserOK(parser, LastKind(log)) /\ Sound(parser)
  BY <1>1, RunFacts DEF Typed
<1>4. r.pc = "closed" /\ \A p : RunOK(p, r)
  BY <1>2, <1>3, RunFacts, ClosedOK
<1>5. pauses \in 0 .. MaxPauses /\ MaxPauses \in Nat /\ log \in Seq(Events) /\ CallbackOrder
  BY ParserAssumption DEF ParserInv
<1>6. \A e : \A q : q = [parser EXCEPT !.errno = e] => Sound(q)
  <2>1. ASSUME NEW e, NEW q, q = [parser EXCEPT !.errno = e]
        PROVE  Sound(q)
    <3>1. Alike(parser, q)
      BY <2>1, RunFacts DEF Typed, FieldNames, Alike
    <3> QED
      BY <1>3, <3>1, SameOK
  <2> QED
    BY <2>1
<1>7. ASSUME NEW q, Sound(q), Set(q, r)
      PROVE  ParserInv'
  <2>1. parser' = q /\ run' = r /\ stream' = stream /\ pauses' = pauses /\ log' = log
    BY <1>7 DEF Set
  <2>2. (log \in Seq(Events) /\ CallbackOrder)'
    BY <1>5, <2>1 DEF CallbackOrder
  <2> QED
    BY <1>4, <1>5, <1>7, <2>1, <2>2, CloseStep
<1>8. CASE parser.state = "s_body_identity_eof" /\ Call(parser, r, <<<<"message_complete">>>>, r)
  <2>1. LastKind(log) \in {"headers_complete", "body"}
    BY <1>3, <1>8, Was DEF Identities
  <2>2. Follows(log, "message_complete")
    BY <1>5, <2>1, FollowsOK DEF CallbacksAfter
  <2>3. InPlace(log, <<<<"message_complete">>>>, "message_complete")
    BY <2>2, OneEvent DEF Notices
  <2>4. PICK m : m = log \o <<<<"message_complete">>>>
    OBVIOUS
  <2>5. m \in Seq(Events) /\ InOrder(m)
    <3>1. InOrder(log)
      BY <1>5 DEF InOrder, CallbackOrder
    <3> QED
      BY <1>5, <2>3, <2>4, <3>1, LogExtended, Zenon
  <2>6. log' = m /\ stream' = stream /\ run' = r
    BY <1>8, <2>4 DEF Call
  <2>7. (log \in Seq(Events) /\ CallbackOrder)'
    BY <2>5, <2>6 DEF CallbackOrder, InOrder
  <2>8. pauses' \in 0 .. MaxPauses
    BY <1>5, <1>8 DEF Call
  <2>9. PICK q : parser' = q /\ Sound(q)
    <3>1. CASE parser' = parser
      BY <3>1, <1>3
    <3>2. CASE parser' = [parser EXCEPT !.errno = "PAUSED"]
      BY <3>2, <1>6
    <3>3. CASE parser' = [parser EXCEPT !.errno = "CB", !.nread = r.nread]
      <4>1. PICK q : q = [parser EXCEPT !.errno = "CB", !.nread = r.nread]
        OBVIOUS
      <4>2. r.nread \in Nat
        BY <1>4 DEF RunOK, RangeOK, RunTyped
      <4>3. Alike(parser, q)
        BY <4>1, <4>2, RunFacts DEF Typed, FieldNames, Alike
      <4> QED
        BY <1>3, <3>3, <4>1, <4>3, SameOK
    <3> QED
      BY <1>8, <3>1, <3>2, <3>3 DEF Call
  <2> QED
    BY <1>4, <2>6, <2>7, <2>8, <2>9, CloseStep
<1>9. CASE Set(parser, r)
  BY <1>3, <1>7, <1>9
<1>10. CASE Set([parser EXCEPT !.errno = "INVALID_EOF_STATE"], r)
  BY <1>6, <1>7, <1>10
<1> QED
  <2>1. \/ parser.state = "s_body_identity_eof" /\ Call(parser, r, <<<<"message_complete">>>>, r)
        \/ Set(parser, r)
        \/ Set([parser EXCEPT !.errno = "INVALID_EOF_STATE"], r)
    BY <1>2 DEF http_parser_execute_eof
  <2> QED
    BY <1>8, <1>9, <1>10, <2>1

LEMMA UnpauseStep == ASSUME ParserInv, http_parser_pause PROVE ParserInv'
<1>1. PICK q : q = [parser EXCEPT !.errno = "OK"]
  OBVIOUS
<1>2. Alike(parser, q) /\ q.nread = parser.nread
  BY <1>1, RunFacts DEF Typed, FieldNames, Alike
<1>3. Sound(q) /\ \A last : Fits(parser, last) => Fits(q, last)
  BY <1>2, RunFacts, SameOK
<1>4. parser.errno = "PAUSED" /\ Set(q, run)
  BY <1>1 DEF http_parser_pause
<1>5. RunOK(q, run)
  <2>1. CountOK(q, run)
    BY <1>2, <1>4, RunFacts DEF CountOK, Alike
  <2>2. MarksOK(q.state, run)
    BY <1>2, RunFacts DEF Alike
  <2> QED
    BY <2>1, <2>2, RunFacts DEF RunOK
<1>6. CASE run.pc # "closed"
  BY <1>3, <1>4, <1>5, <1>6, RunFacts, SetStep DEF ParserOK
<1>7. CASE run.pc = "closed"
  <2>1. parser' = q /\ run' = run /\ stream' = stream /\ pauses' = pauses /\ log' = log
    BY <1>4 DEF Set
  <2>2. pauses \in 0 .. MaxPauses /\ log \in Seq(Events) /\ CallbackOrder
    BY DEF ParserInv
  <2>3. (log \in Seq(Events) /\ CallbackOrder)'
    BY <2>1, <2>2 DEF CallbackOrder
  <2> QED
    BY <1>3, <1>5, <1>7, <2>1, <2>2, <2>3, CloseStep
<1> QED
  BY <1>6, <1>7

-------------------------------------------------------------------------------
(* The invariant is inductive                                              *)

LEMMA InitInv == ASSUME Init PROVE ParserInv
<1>1. stream \in Streams /\ run = Idle(1) /\ log = <<>> /\ pauses = 0 /\ MaxPauses \in Nat
  BY ParserAssumption DEF Init
<1>2. PICK q : q = parser
  OBVIOUS
<1>3. /\ Typed(q) /\ q.state = StartOf(stream.type) /\ q.nread = 0
  BY <1>2, ParserAssumption DEF Init, http_parser_init, Typed, FieldNames, Flags
<1>4. q.state \in StartStates
  BY <1>1, <1>3, Stream DEF StartOf, StartStates
<1>5. LastKind(log) = "none"
  BY <1>1 DEF LastKind
<1>6. ParserOK(q, LastKind(log))
  BY <1>3, <1>4, <1>5, StartIs, SafeOK
<1>7. RunOK(q, run)
  <2>1. 1 \in 1 .. Size + 1
    BY <1>1, Stream
  <2> QED
    BY <1>1, <1>3, <2>1, IdleOK DEF RunOK
<1>8. log \in Seq(Events) /\ CallbackOrder
  BY <1>1 DEF CallbackOrder
<1> QED
  BY <1>1, <1>2, <1>6, <1>7, <1>8 DEF ParserInv, ParserOK

LEMMA StutterInv == ASSUME ParserInv, UNCHANGED vars PROVE ParserInv'
<1>1. /\ stream' = stream /\ parser' = parser /\ run' = run /\ log' = log /\ pauses' = pauses
  BY DEF vars
<1>2. RunOK(parser, run)'
  BY <1>1, RunFacts, RunSame DEF RunOK
<1>3. (log \in Seq(Events) /\ CallbackOrder)'
  BY <1>1 DEF ParserInv, CallbackOrder
<1>4. Sound(parser)' /\ (run.pc # "closed" => Fits(parser, LastKind(log)))'
  BY <1>1 DEF ParserInv
<1> QED
  BY <1>1, <1>2, <1>3, <1>4 DEF ParserInv

LEMMA FeedStep == ASSUME ParserInv, Feed PROVE ParserInv'
<1>1. \A n \in PieceLens \cup {Size - run.at + 1} : n \in Int
  <2>1. Size - run.at + 1 \in Int
    BY RunFacts
  <2>2. PieceLens \subseteq Int
    BY ParserAssumption
  <2> QED
    BY <2>1, <2>2
<1>2. CASE \E n \in PieceLens \cup {Size - run.at + 1} : http_parser_execute(n)
  BY <1>1, <1>2, ExecuteStep
<1>3. CASE http_parser_execute_eof
  BY <1>3, EofStep
<1> QED
  BY <1>2, <1>3 DEF Feed

LEMMA StepInv == ASSUME ParserInv, [Next]_vars PROVE ParserInv'
  BY FeedStep, UnpauseStep, LoopStep, FirstLineStep, HeadersStep, BodyStep, StutterInv DEF Next

\* The parser keeps its invariant: every state knows the callback it comes
\* after, and the locals of the call agree with it.
THEOREM ParserInvariant == Spec => []ParserInv
<1>1. Init => ParserInv
  BY InitInv
<1>2. ParserInv /\ [Next]_vars => ParserInv'
  BY StepInv
<1> QED
  BY <1>1, <1>2, PTL DEF Spec

\* A string under way is one: never are two marks set.
LEMMA OnePending ==
    ASSUME ParserInv
    PROVE  Cardinality(Pending) <= 1 /\ (run.pc = "top" => Pending \ {"body"} = MarkedAtEntry(parser.state))
<1>1. Pending = PendingOf(run)
  BY DEF Pending, PendingOf
<1>2. MarksOK(parser.state, run) /\ run.pc \in Places
  BY RunFacts DEF RunTyped
<1>3. Cardinality({}) = 0 /\ \A k : Cardinality({k}) = 1
  BY FS_EmptySet, FS_Singleton
<1>4. Pending = {} \/ \E k : Pending = {k}
  <2>1. CASE run.pc \in {"idle", "closed", "return"}
    BY <1>1, <1>2, <2>1 DEF MarksOK
  <2>2. CASE run.pc \in {"top", "switch", "scanned"} /\ "body" \in Pending
    <3>1. MarkedAtEntry(parser.state) = {}
      BY <1>1, <1>2, <2>2 DEF MarksOK, Identities, MarkedAtEntry, UrlStates, UrlServer, UrlTail
    <3>2. Pending \ {"body"} = {}
      BY <1>1, <1>2, <2>2, <3>1 DEF MarksOK
    <3> QED
      BY <2>2, <3>2
  <2>3. CASE run.pc \in {"top", "switch", "scanned"} /\ "body" \notin Pending
    <3>1. Pending = MarkedAtEntry(parser.state)
      BY <1>1, <1>2, <2>3 DEF MarksOK
    <3>2. MarkedAtEntry(parser.state) \in {{}, {"header_field"}, {"header_value"}, {"url"}, {"status"}}
      BY DEF MarkedAtEntry
    <3> QED
      BY <3>1, <3>2
  <2> QED
    BY <1>2, <2>1, <2>2, <2>3 DEF Places
<1>5. Cardinality(Pending) <= 1
  BY <1>3, <1>4
<1> QED
  BY <1>1, <1>2, <1>5 DEF MarksOK

\* The fields of the parser and the locals of a call stay in their ranges:
\* content_length within its width, the offsets within the connection.
THEOREM TypesCorrect == Spec => []TypeOK
<1>1. ParserInv => TypeOK
  BY RunFacts DEF ParserInv, TypeOK, Typed, RunTyped, Places
<1> QED
  BY <1>1, ParserInvariant, PTL

\* Whatever bytes come, however they are cut and whichever callback pauses or
\* fails, the callbacks keep the order of a message.
THEOREM CallbacksOrdered == Spec => []CallbackOrder
<1>1. ParserInv => CallbackOrder
  BY DEF ParserInv
<1> QED
  BY <1>1, ParserInvariant, PTL

\* A call may end at any byte: at the top of the loop the marks are those that
\* the next call sets from the state alone, and no two strings are under way.
THEOREM MarksResumable == Spec => []MarksFollowState
<1>1. ParserInv => MarksFollowState
  BY OnePending DEF MarksFollowState
<1> QED
  BY <1>1, ParserInvariant, PTL

\* No assertion of http_parser_execute about lengths, chunks and headers fails.
THEOREM AssertionsNeverFail == Spec => []AssertionsHold
<1>1. ASSUME ParserInv
      PROVE  AssertionsHold
  <2>1. Asserted(parser) /\ CountOK(parser, run) /\ ULLONG_MAX \in Nat
    BY <1>1, RunFacts, ParserAssumption DEF Sound
  <2>2. In({"s_chunk_size_start"}) => run.nread = 1
    BY <2>1 DEF In, CountOK
  <2>3. In({"s_chunk_data", "s_body_identity"}) => parser.content_length \notin {0, ULLONG_MAX}
    BY <2>1 DEF In, Asserted
  <2> QED
    BY <2>1, <2>2, <2>3 DEF AssertionsHold, Asserted, In, ChunkStates, SizeStates
<1> QED
  BY <1>1, ParserInvariant, PTL
===============================================================================
