-------------------------- MODULE HttpParserDelivery --------------------------
(* Theorems about HttpParser for all connections, whatever their bytes, and *)
(* all cuttings, pauses and limits: the bytes that the callbacks get are in *)
(* order, none twice, and the pieces of a string join without a gap; the    *)
(* first head of a connection is accepted only within max_header_size; no   *)
(* call loops.                                                              *)
EXTENDS HttpParserProofs

-------------------------------------------------------------------------------
(* What is handed over, and what is counted                                *)

\* The string that a state reads, but for the value of a header.
StringOf(s) == CASE s = "s_header_field" -> "header_field" [] s \in UrlStates -> "url" [] s = "s_res_status" -> "status"
                 [] s \in BodyMarked -> "body" [] OTHER -> "none"

\* All bytes of log l are from before place b; l ends with the byte before b.
AllBefore(l, b) == \A i \in DOMAIN l : IsByte(l[i]) => Place(l[i]) < b
EndsBefore(l, b) == IsByte(l[Len(l)]) /\ Place(l[Len(l)]) + 1 = b

\* HandedOverInOrder
Joined(l) ==
    /\ \A i, j \in DOMAIN l : i < j /\ IsByte(l[i]) /\ IsByte(l[j]) => Place(l[i]) < Place(l[j])
    /\ \A i \in 1 .. Len(l) - 1 :
          l[i][1] = l[i + 1][1] /\ IsByte(l[i + 1]) /\ l[i][1] # "header_value" =>
              IsByte(l[i]) /\ Place(l[i + 1]) = Place(l[i]) + 1

\* The last byte of a body is executed again after it was handed over.
Beyond(s, r) == IF s = "s_message_done" THEN r.at + 1 ELSE r.at
\* Where the rest of a string under way begins.
Resumes(k, r) == IF r.mark[k] # 0 THEN r.mark[k] ELSE r.at

Handed(p, r, l) ==
    /\ Joined(l)
    /\ AllBefore(l, Beyond(p.state, r))
    /\ \A k \in DataKinds : r.mark[k] # 0 => r.mark[k] <= r.at /\ r.mark[k] <= r.end /\ AllBefore(l, r.mark[k])
    /\ \A k \in DataKinds : p.errno \in {"OK", "PAUSED"} /\ StringOf(p.state) = k /\ LastKind(l) = k =>
          EndsBefore(l, Resumes(k, r))

PastHead == ChunkStates \cup Identities \cup {"s_headers_done", "s_message_done"}
HeadOver(p) == p.state \in PastHead \/ "F_TRAILING" \in p.flags

\* While the first head is read, nread is the number of bytes read.
Counted(p, r) ==
    /\ r.pc = "idle" => p.nread = r.at - 1 /\ p.nread <= MaxHeaderSize
    /\ InCall(r) => r.nread <= MaxHeaderSize
    /\ r.pc \in {"top", "return"} => r.nread = r.at - 1
    /\ r.pc = "switch" /\ r.start = 0 => r.nread = r.at
    /\ r.start # 0 => r.nread = r.start

Counting(p, r, l, n) ==
    /\ InCall(r) => p.errno = "OK"
    /\ p.errno = "PAUSED" => n > 0
    /\ r.start # 0 => r.pc = "scanned" \/ (r.pc = "switch" /\ p.state \in {"s_header_field", "s_header_value"})
    /\ n = 0 /\ ~Announced(l) /\ p.errno = "OK" /\ r.pc # "closed" => ~HeadOver(p) /\ Counted(p, r)

TextInv == Handed(parser, run, log) /\ Counting(parser, run, log, pauses)

-------------------------------------------------------------------------------
(* Logs that grow                                                          *)

\* The place of a byte is a number.
LEMMA ByteAt ==
    ASSUME NEW l \in Seq(Events), NEW i \in DOMAIN l, IsByte(l[i])
    PROVE  Place(l[i]) \in Nat
<1>1. l[i] \in Events
  OBVIOUS
<1>2. CASE l[i] \in DataKinds \X (Symbols \cup {""}) \X Nat
  <2>1. l[i][3] \in Nat
    BY <1>2
  <2> QED BY <2>1 DEF Place
<1>3. CASE l[i] \in {<<x>> : x \in Notices}
  <2>1. PICK x \in Notices : l[i] = <<x>>
    BY <1>3
  <2>2. l[i][1] = x /\ x \notin DataKinds
    BY <2>1 DEF DataKinds, Notices
  <2> QED BY <2>2 DEF IsByte
<1> QED BY <1>1, <1>2, <1>3 DEF Events

LEMMA LaterPlace ==
    ASSUME NEW l \in Seq(Events), NEW b \in Nat, AllBefore(l, b), NEW c \in Nat, c >= b
    PROVE  AllBefore(l, c)
  BY ByteAt DEF AllBefore

\* An event without a byte.
LEMMA EventAppended ==
    ASSUME NEW l \in Seq(Events), Joined(l), NEW e \in Events, ~IsByte(e), NEW m, m = l \o <<e>>
    PROVE  /\ m \in Seq(Events) /\ Joined(m) /\ LastKind(m) = e[1]
           /\ \A b : AllBefore(l, b) => AllBefore(m, b)
<1>1. /\ m \in Seq(Events) /\ Len(m) = Len(l) + 1 /\ Len(l) \in Nat /\ m[Len(l) + 1] = e
      /\ \A i \in 1 .. Len(l) : m[i] = l[i]
  OBVIOUS
<1>2. \A i \in DOMAIN m : i \in DOMAIN l \/ i = Len(l) + 1
  BY <1>1
<1>3. \A i \in DOMAIN m : IsByte(m[i]) => i \in DOMAIN l /\ m[i] = l[i]
  BY <1>1, <1>2
<1>4. LastKind(m) = e[1]
  BY <1>1 DEF LastKind
<1>5. \A b : AllBefore(l, b) => AllBefore(m, b)
  BY <1>3 DEF AllBefore
<1>6. \A i, j \in DOMAIN m : i < j /\ IsByte(m[i]) /\ IsByte(m[j]) => Place(m[i]) < Place(m[j])
  BY <1>3 DEF Joined
<1>7. ASSUME NEW i \in 1 .. Len(m) - 1, m[i][1] = m[i + 1][1], IsByte(m[i + 1]), m[i][1] # "header_value"
      PROVE  IsByte(m[i]) /\ Place(m[i + 1]) = Place(m[i]) + 1
  <2>1. i + 1 \in DOMAIN m
    BY <1>1
  <2>2. i + 1 \in DOMAIN l /\ m[i + 1] = l[i + 1]
    BY <1>3, <1>7, <2>1
  <2>3. i \in 1 .. Len(l) - 1 /\ m[i] = l[i]
    BY <1>1, <2>2
  <2> QED BY <1>7, <2>2, <2>3 DEF Joined
<1> QED BY <1>1, <1>4, <1>5, <1>6, <1>7 DEF Joined

\* Bytes of kind k from place b on may come after log l.
MayFollow(l, k, b) == k = "header_value" \/ (LastKind(l) = k => l # <<>> /\ EndsBefore(l, b))

\* Bytes from place `from` to place `to` of the connection, of kind k.
BytesFrom(ev, k, from, to) ==
    /\ from \in Nat /\ to \in Nat /\ from <= to
    /\ ev \in Seq(Events) /\ Len(ev) = to - from + 1
    /\ \A i \in 1 .. Len(ev) : IsByte(ev[i]) /\ ev[i][1] = k /\ Place(ev[i]) = from + i - 1

EndsWith(l, k, b) == LastKind(l) = k /\ EndsBefore(l, b)

LEMMA BytesAppended ==
    ASSUME NEW l \in Seq(Events), Joined(l), NEW k, NEW from, NEW to, NEW ev, BytesFrom(ev, k, from, to),
           AllBefore(l, from), MayFollow(l, k, from), NEW m, m = l \o ev
    PROVE  m \in Seq(Events) /\ Joined(m) /\ AllBefore(m, to + 1) /\ EndsWith(m, k, to + 1)
<1>0. from \in Nat /\ to \in Nat
  BY DEF BytesFrom
<1>1. PICK n \in Nat : n = Len(l)
  OBVIOUS
<1>2. PICK c \in Nat \ {0} : c = to - from + 1 /\ Len(ev) = c
  BY DEF BytesFrom
<1>3. /\ m \in Seq(Events) /\ Len(m) = n + c
      /\ \A i \in 1 .. n : m[i] = l[i]
      /\ \A i \in n + 1 .. n + c : m[i] = ev[i - n]
  <2>1. ev \in Seq(Events)
    BY DEF BytesFrom
  <2>2. m \in Seq(Events) /\ Len(m) = n + c
    <3>1. m \in Seq(Events) /\ Len(m) = Len(l) + Len(ev)
      BY <2>1
    <3> QED BY <1>1, <1>2, <3>1, Zenon
  <2>3. \A i \in 1 .. n : m[i] = l[i]
    BY <1>1, <2>1
  <2>4. \A i \in n + 1 .. n + c : m[i] = ev[i - n]
    BY <1>1, <1>2, <2>1
  <2> QED BY <2>2, <2>3, <2>4
<1>4. PICK a \in Int : a + n + 1 = from /\ a + n + c = to
  <2>1. from - n - 1 \in Int /\ (from - n - 1) + n + 1 = from /\ (from - n - 1) + n + c = to
    BY <1>0, <1>2
  <2> QED BY <2>1
<1>5. ASSUME NEW i \in n + 1 .. n + c
      PROVE  IsByte(m[i]) /\ m[i][1] = k /\ Place(m[i]) = a + i
  <2>1. PICK j \in 1 .. c : j = i - n
    OBVIOUS
  <2>2. PICK x : x = m[i] /\ x = ev[j]
    BY <1>3, <2>1
  <2>3. IsByte(x) /\ x[1] = k /\ Place(x) = from + j - 1
    BY <1>2, <2>2 DEF BytesFrom
  <2>4. from + j - 1 = a + i
    BY <1>0, <1>4, <2>1
  <2>5. Place(x) = a + i
    BY ONLY <2>3, <2>4, Zenon
  <2> QED BY ONLY <2>2, <2>3, <2>5, Zenon
<1>6. ASSUME NEW i \in 1 .. n, IsByte(m[i])
      PROVE  i \in DOMAIN l /\ m[i] = l[i] /\ Place(m[i]) \in Nat /\ Place(m[i]) < from
  <2>1. i \in DOMAIN l /\ m[i] = l[i]
    BY <1>1, <1>3
  <2>2. Place(l[i]) < from
    BY <1>6, <2>1 DEF AllBefore
  <2>3. Place(l[i]) \in Nat
    BY <1>6, <2>1, ByteAt
  <2> QED BY ONLY <2>1, <2>2, <2>3, Zenon
<1>7. DOMAIN m = 1 .. n + c /\ \A i \in 1 .. n + c : i \in 1 .. n \/ i \in n + 1 .. n + c
  BY <1>3
<1>8. AllBefore(m, to + 1)
  <2>1. SUFFICES ASSUME NEW i \in DOMAIN m, IsByte(m[i]) PROVE Place(m[i]) < to + 1
    BY DEF AllBefore
  <2>2. CASE i \in 1 .. n
    <3>1. PICK x \in Nat : x = Place(m[i]) /\ x < from
      BY <1>6, <2>1, <2>2
    <3>2. x < to + 1
      BY <1>0, <3>1 DEF BytesFrom
    <3> QED BY ONLY <3>1, <3>2, Zenon
  <2>3. CASE i \in n + 1 .. n + c
    <3>1. Place(m[i]) = a + i
      BY <1>5, <2>3
    <3>2. a + i < to + 1
      BY <1>0, <1>4, <2>3
    <3> QED BY ONLY <3>1, <3>2, Zenon
  <2> QED BY <1>7, <2>2, <2>3
<1>9. EndsWith(m, k, to + 1)
  <2>0. PICK z \in Nat : z = n + c
    OBVIOUS
  <2>1. z \in n + 1 .. n + c /\ z = Len(m) /\ m # <<>> /\ a + z + 1 = to + 1
    BY <1>0, <1>3, <1>4, <2>0
  <2>2. IsByte(m[z]) /\ m[z][1] = k /\ Place(m[z]) = a + z
    BY <1>5, <2>1
  <2>3. Place(m[z]) + 1 = to + 1
    BY ONLY <2>1, <2>2, Zenon
  <2> QED BY ONLY <2>1, <2>2, <2>3, Zenon DEF LastKind, EndsBefore, EndsWith
<1>10. ASSUME NEW i \in DOMAIN m, NEW j \in DOMAIN m, i < j, IsByte(m[i]), IsByte(m[j])
       PROVE  Place(m[i]) < Place(m[j])
  <2>1. CASE j \in 1 .. n
    <3>1. i \in 1 .. n /\ i \in DOMAIN l /\ j \in DOMAIN l /\ m[i] = l[i] /\ m[j] = l[j]
      BY <1>1, <1>3, <1>7, <1>10, <2>1
    <3>2. IsByte(l[i]) /\ IsByte(l[j])
      BY ONLY <1>10, <3>1, Zenon
    <3>3. Place(l[i]) < Place(l[j])
      BY <1>10, <3>1, <3>2 DEF Joined
    <3> QED BY ONLY <3>1, <3>3, Zenon
  <2>2. CASE j \in n + 1 .. n + c /\ i \in 1 .. n
    <3>1. PICK x \in Nat : x = Place(m[i]) /\ x < from
      BY <1>6, <1>10, <2>2
    <3>2. PICK y \in Int : y = a + j
      BY <2>2
    <3>3. Place(m[j]) = y
      BY <1>5, <2>2, <3>2
    <3>4. x < y
      BY <1>0, <1>4, <2>2, <3>1, <3>2, SMTT(30)
    <3> QED BY ONLY <3>1, <3>3, <3>4, Zenon
  <2>3. CASE i \in n + 1 .. n + c /\ j \in n + 1 .. n + c
    <3>1. PICK x \in Int, y \in Int : x = a + i /\ y = a + j
      BY <2>3
    <3>2. Place(m[i]) = x /\ Place(m[j]) = y
      BY <1>5, <2>3, <3>1
    <3>3. x < y
      BY <1>10, <2>3, <3>1
    <3> QED BY ONLY <3>2, <3>3, Zenon
  <2> QED BY <1>7, <1>10, <2>1, <2>2, <2>3
<1>11. ASSUME NEW i \in 1 .. Len(m) - 1, m[i][1] = m[i + 1][1], IsByte(m[i + 1]), m[i][1] # "header_value"
       PROVE  IsByte(m[i]) /\ Place(m[i + 1]) = Place(m[i]) + 1
  <2>0. PICK j \in Nat : j = i + 1
    OBVIOUS
  <2>1. CASE i < n
    <3>1. i \in 1 .. Len(l) - 1 /\ m[i] = l[i] /\ m[j] = l[j]
      BY <1>1, <1>3, <2>0, <2>1
    <3>2. l[i][1] = l[j][1] /\ IsByte(l[j]) /\ l[i][1] # "header_value"
      BY ONLY <1>11, <2>0, <3>1, Zenon
    <3>3. IsByte(l[i]) /\ Place(l[j]) = Place(l[i]) + 1
      BY ONLY Joined(l), <2>0, <3>1, <3>2, Zenon DEF Joined
    <3> QED BY ONLY <2>0, <3>1, <3>3, Zenon
  <2>2. CASE i = n
    <3>1. m[i] = l[Len(l)] /\ l # <<>>
      BY <1>1, <1>3, <2>2
    <3>2. m[j][1] = k /\ Place(m[j]) = from
      <4>1. j \in n + 1 .. n + c /\ a + j = from
        BY <1>0, <1>4, <2>0, <2>2
      <4> QED BY <1>5, <4>1
    <3>3. LastKind(l) = k /\ k # "header_value"
      BY ONLY <1>11, <2>0, <3>1, <3>2, Zenon DEF LastKind
    <3>4. EndsBefore(l, from)
      BY <3>3 DEF MayFollow
    <3> QED BY ONLY <2>0, <3>1, <3>2, <3>4, Zenon DEF EndsBefore
  <2>3. CASE i > n
    <3>1. i \in n + 1 .. n + c /\ j \in n + 1 .. n + c
      BY <1>3, <2>0, <2>3
    <3>2. a + j = (a + i) + 1
      BY <2>0
    <3>3. IsByte(m[i]) /\ Place(m[i]) = a + i /\ Place(m[j]) = a + j
      BY <1>5, <3>1
    <3> QED BY ONLY <2>0, <3>2, <3>3, Zenon
  <2> QED BY <1>1, <2>1, <2>2, <2>3
<1> QED BY <1>3, <1>8, <1>9, <1>10, <1>11 DEF Joined

-------------------------------------------------------------------------------
(* How a step keeps it                                                     *)

Resumable == {"OK", "PAUSED"}

\* A call that goes on keeps what was handed over, if a string goes on where it was.
LEMMA HandedOn ==
    ASSUME NEW p, NEW r, NEW l \in Seq(Events), Handed(p, r, l), NEW q, NEW s,
           r.at \in Nat, r.end \in Nat, s.at \in Nat, s.at >= r.at,
           p.state = "s_message_done" => q.state = "s_message_done" \/ s.at > r.at,
           \A k \in DataKinds :
              \/ s.mark[k] = 0
              \/ s.end = r.end /\ (s.mark[k] = r.mark[k] \/ (s.mark[k] = r.at /\ r.at <= r.end /\ p.state # "s_message_done")),
           \A k \in DataKinds : q.errno \in Resumable /\ StringOf(q.state) = k /\ LastKind(l) = k =>
              p.errno \in Resumable /\ StringOf(p.state) = k /\ Resumes(k, s) = Resumes(k, r),
           r.mark \in [DataKinds -> Nat]
    PROVE  Handed(q, s, l)
<1>1. Joined(l)
  BY DEF Handed
<1>2. AllBefore(l, Beyond(q.state, s))
  <2>1. AllBefore(l, Beyond(p.state, r))
    BY DEF Handed
  <2>2. Beyond(p.state, r) \in Nat /\ Beyond(q.state, s) \in Nat /\ Beyond(q.state, s) >= Beyond(p.state, r)
    BY DEF Beyond
  <2> QED BY <2>1, <2>2, LaterPlace
<1>3. ASSUME NEW k \in DataKinds, s.mark[k] # 0
      PROVE  s.mark[k] <= s.at /\ s.mark[k] <= s.end /\ AllBefore(l, s.mark[k])
  <2>1. CASE s.end = r.end /\ s.mark[k] = r.mark[k]
    <3>1. r.mark[k] \in Nat /\ r.mark[k] <= r.at /\ r.mark[k] <= r.end /\ AllBefore(l, r.mark[k])
      BY <1>3, <2>1 DEF Handed
    <3> QED BY <2>1, <3>1
  <2>2. CASE s.end = r.end /\ s.mark[k] = r.at /\ r.at <= r.end /\ p.state # "s_message_done"
    <3>1. AllBefore(l, r.at)
      BY <2>2 DEF Handed, Beyond
    <3> QED BY <2>2, <3>1
  <2> QED BY <1>3, <2>1, <2>2
<1>4. ASSUME NEW k \in DataKinds, q.errno \in {"OK", "PAUSED"}, StringOf(q.state) = k, LastKind(l) = k
      PROVE  EndsBefore(l, Resumes(k, s))
  <2>1. p.errno \in {"OK", "PAUSED"} /\ StringOf(p.state) = k /\ Resumes(k, s) = Resumes(k, r)
    BY <1>4 DEF Resumable
  <2>2. EndsBefore(l, Resumes(k, r))
    BY <1>4, <2>1 DEF Handed
  <2> QED BY <2>1, <2>2
<1> QED BY <1>1, <1>2, <1>3, <1>4 DEF Handed

\* break and REEXECUTE in a state without an inner loop.
LEMMA CountGo ==
    ASSUME NEW p, NEW r, NEW l, NEW n, Counting(p, r, l, n), r.pc = "switch", r.start = 0,
           NEW q, NEW s, NEW m, q.errno = p.errno, s.start = 0, r.at \in Nat,
           (s.pc = "top" /\ s.at = r.at + 1) \/ (s.pc = "switch" /\ s.at = r.at),
           Announced(l) => Announced(m),
           Announced(m) \/ HeadOver(p) \/ (~HeadOver(q) /\ s.nread = r.nread)
    PROVE  Counting(q, s, m, n)
<1>1. p.errno = "OK"
  BY DEF Counting, InCall
<1>2. ASSUME n = 0, ~Announced(m)
      PROVE  ~HeadOver(q) /\ Counted(q, s)
  <2>1. ~HeadOver(p) /\ Counted(p, r)
    BY <1>1, <1>2 DEF Counting
  <2>2. ~HeadOver(q) /\ s.nread = r.nread /\ r.nread = r.at /\ r.nread <= MaxHeaderSize
    BY <1>2, <2>1 DEF Counted, InCall
  <2>3. Counted(q, s)
    BY <2>2 DEF Counted
  <2> QED BY <2>2, <2>3
<1> QED BY <1>1, <1>2 DEF Counting

LEMMA CountStops ==
    ASSUME NEW q, NEW r, NEW l, NEW n, q.errno # "OK", q.errno = "PAUSED" => n > 0, ~InCall(r), r.start = 0
    PROVE  Counting(q, r, l, n)
  BY DEF Counting

LEMMA SetText ==
    ASSUME NEW q, NEW r, Set(q, r), Handed(q, r, log), Counting(q, r, log, pauses)
    PROVE  TextInv'
  BY DEF Set, TextInv

LEMMA TextHere ==
    ASSUME ParserInv, TextInv, run.pc \notin {"idle", "closed"}
    PROVE  /\ Handed(parser, run, log) /\ Counting(parser, run, log, pauses) /\ parser.errno = "OK"
           /\ log \in Seq(Events) /\ pauses \in Nat /\ Size \in Nat
           /\ run.at \in Nat \ {0} /\ run.end \in Nat /\ run.mark \in [DataKinds -> Nat] /\ RunTyped(run) /\ Typed(parser)
           /\ run.pc = "switch" /\ parser.state \notin {"s_header_field", "s_header_value"} => run.start = 0
<1>1. stream \in Streams /\ RunTyped(run) /\ Typed(parser) /\ pauses \in 0 .. MaxPauses
  BY DEF ParserInv, RunOK, RangeOK, Sound
<1>2. Size \in Nat
  BY <1>1, Stream
<1>3. run.at \in Nat \ {0} /\ run.end \in Nat /\ run.mark \in [DataKinds -> Nat]
  BY <1>1, <1>2 DEF RunTyped
<1>4. InCall(run)
  BY <1>1 DEF RunTyped, Places, InCall
<1>5. parser.errno = "OK" /\ (run.pc = "switch" /\ parser.state \notin {"s_header_field", "s_header_value"} => run.start = 0)
  BY <1>4 DEF TextInv, Counting
<1>6. log \in Seq(Events) /\ pauses \in Nat
  BY <1>1, ParserAssumption DEF ParserInv
<1> QED BY <1>1, <1>2, <1>3, <1>5, <1>6 DEF TextInv

\* State s goes on with the string under way, or its callback is not the last one.
Continues(s) ==
    StringOf(s) \in DataKinds /\ StringOf(s) = LastKind(log) =>
        StringOf(s) = StringOf(parser.state) /\ run.mark[StringOf(s)] # 0

LEMMA GoText ==
    ASSUME ParserInv, TextInv, Here, NEW q, NEW r, Set(q, r), r \in {Next1(run), Again(run)},
           q.errno = parser.errno, Continues(q.state), HeadOver(q) => HeadOver(parser),
           parser.state \notin {"s_header_field", "s_header_value", "s_message_done"}
    PROVE  TextInv'
<1>1. run.pc = "switch" /\ run.pc \notin {"idle", "closed"}
  BY DEF Here
<1>2. run.start = 0 /\ run.at \in 1 .. Size
  BY <1>1, TextHere, HereFacts
<1>3. /\ (r.pc = "top" /\ r.at = run.at + 1) \/ (r.pc = "switch" /\ r.at = run.at)
      /\ r.end = run.end /\ r.nread = run.nread /\ r.start = 0 /\ r.mark = run.mark
  BY <1>1, <1>2, TextHere, MoveRun
<1>4. Handed(q, r, log)
  <2>1. ASSUME NEW k \in DataKinds, StringOf(q.state) = k, LastKind(log) = k
        PROVE  parser.errno \in Resumable /\ StringOf(parser.state) = k /\ Resumes(k, r) = Resumes(k, run)
    <3>1. StringOf(parser.state) = k /\ run.mark[k] # 0
      BY <2>1 DEF Continues
    <3> QED BY <1>1, <1>3, <3>1, TextHere DEF Resumes, Resumable
  <2>2. r.at \in Nat /\ r.at >= run.at
    BY <1>1, <1>3, TextHere
  <2> QED BY <1>1, <1>3, <2>1, <2>2, TextHere, HandedOn
<1>5. Counting(q, r, log, pauses)
  BY <1>1, <1>2, <1>3, TextHere, CountGo
<1> QED BY <1>4, <1>5, SetText

\* What is marked: nothing where no string is read; where one is, that string only.
LEMMA NoMark ==
    ASSUME ParserInv, TextInv, Here, MarkedAtEntry(parser.state) = {}, parser.state \notin BodyMarked
    PROVE  \A k \in DataKinds : run.mark[k] = 0
  BY HereFacts DEF PendingOf

LEMMA OneMark ==
    ASSUME ParserInv, TextInv, Here, NEW k, MarkedAtEntry(parser.state) = {k}, parser.state \notin BodyMarked
    PROVE  run.mark[k] # 0 /\ \A j \in DataKinds : run.mark[j] # 0 => j = k
<1>1. PendingOf(run) \ {"body"} = {k} /\ "body" \notin PendingOf(run)
  BY HereFacts
<1> QED BY <1>1 DEF PendingOf

\* MARK and break or REEXECUTE
LEMMA MarkText ==
    ASSUME ParserInv, TextInv, Here, NEW q, NEW r, NEW k \in DataKinds, Set(q, r),
           r \in {Next1(MarkAt(run, k)), Again(MarkAt(run, k))}, run.mark[k] = 0,
           q.errno = parser.errno, StringOf(q.state) \notin DataKinds \/ StringOf(q.state) # LastKind(log),
           HeadOver(q) => HeadOver(parser),
           parser.state \notin {"s_header_field", "s_header_value", "s_message_done"}
    PROVE  TextInv'
<1>1. run.pc = "switch" /\ run.pc \notin {"idle", "closed"} /\ run.at <= run.end
  BY DEF Here
<1>2. run.start = 0 /\ run.at \in 1 .. Size /\ Size \in Nat
  BY <1>1, TextHere, HereFacts
<1>3. PICK p : p = MarkAt(run, k)
  OBVIOUS
<1>4. /\ RunTyped(p) /\ p.at = run.at /\ p.end = run.end /\ p.nread = run.nread /\ p.start = run.start
      /\ p.mark = [run.mark EXCEPT ![k] = run.at]
  <2>1. RunTyped(p) /\ p.at = run.at /\ p.end = run.end /\ p.nread = run.nread /\ p.start = run.start
    BY <1>1, <1>2, <1>3, TextHere, MarkRun
  <2>2. p = [run EXCEPT !.mark[k] = run.at]
    BY <1>3 DEF MarkAt
  <2>3. p.mark = [run.mark EXCEPT ![k] = run.at]
    BY <1>1, <2>2, TextHere DEF RunTyped
  <2> QED BY <2>1, <2>3
<1>5. /\ (r.pc = "top" /\ r.at = run.at + 1) \/ (r.pc = "switch" /\ r.at = run.at)
      /\ r.end = run.end /\ r.nread = run.nread /\ r.start = 0 /\ r.mark = [run.mark EXCEPT ![k] = run.at]
  <2>1. r \in {Next1(p), Again(p)} /\ p.at \in 1 .. Size
    BY <1>2, <1>3, <1>4
  <2> QED BY <1>2, <1>4, <2>1, MoveRun
<1>6. Handed(q, r, log)
  <2>1. r.at \in Nat /\ r.at >= run.at
    BY <1>1, <1>5, TextHere
  <2>2. \A j \in DataKinds : r.mark[j] = run.mark[j] \/ r.mark[j] = run.at
    BY <1>1, <1>5, TextHere
  <2> QED BY <1>1, <1>5, <2>1, <2>2, TextHere, HandedOn, SMTT(30)
<1>7. Counting(q, r, log, pauses)
  BY <1>1, <1>2, <1>5, TextHere, CountGo
<1> QED BY <1>6, <1>7, SetText

\* An error, at the byte it is found at or, in an inner loop, at the end of the piece.
LEMMA ErrorText ==
    ASSUME ParserInv, TextInv, run.pc \notin {"idle", "closed"}, NEW e, e \notin Resumable, NEW n, NEW at \in Nat,
           at >= run.at \/ (\E k \in DataKinds : run.mark[k] # 0 /\ at = run.end),
           Set([parser EXCEPT !.errno = e, !.nread = n], Idle(at))
    PROVE  TextInv'
<1>1. PICK q : q = [parser EXCEPT !.errno = e, !.nread = n]
  OBVIOUS
<1>2. q.errno = e /\ q.state = parser.state
  BY <1>1, TextHere DEF Typed, FieldNames
<1>3. PICK r : r = Idle(at)
  OBVIOUS
<1>4. r.pc = "idle" /\ r.at = at /\ r.start = 0 /\ \A k \in DataKinds : r.mark[k] = 0
  BY <1>3 DEF Idle, NoMarks
<1>5. AllBefore(log, Beyond(q.state, r))
  <2>1. CASE at >= run.at
    <3>1. AllBefore(log, Beyond(parser.state, run)) /\ Beyond(parser.state, run) \in Nat
      BY TextHere DEF Handed, Beyond
    <3>2. Beyond(q.state, r) \in Nat /\ Beyond(q.state, r) >= Beyond(parser.state, run)
      BY <1>2, <1>4, <2>1, TextHere DEF Beyond
    <3> QED BY <3>1, <3>2, TextHere, LaterPlace
  <2>2. CASE \E k \in DataKinds : run.mark[k] # 0 /\ at = run.end
    <3>1. PICK k \in DataKinds : run.mark[k] # 0 /\ at = run.end
      BY <2>2
    <3>2. AllBefore(log, run.mark[k]) /\ run.mark[k] \in Nat /\ run.mark[k] <= run.end
      BY <3>1, TextHere DEF Handed
    <3>3. Beyond(q.state, r) \in Nat /\ Beyond(q.state, r) >= run.mark[k]
      BY <1>4, <3>1, <3>2, TextHere DEF Beyond
    <3> QED BY <3>2, <3>3, TextHere, LaterPlace
  <2> QED BY <2>1, <2>2
<1>6. Handed(q, r, log)
  BY <1>2, <1>4, <1>5, TextHere DEF Handed, Resumable
<1>7. Counting(q, r, log, pauses)
  BY <1>2, <1>4, CountStops DEF InCall, Resumable
<1>8. Set(q, r)
  BY <1>1, <1>3
<1> QED BY <1>6, <1>7, <1>8, SetText

LEMMA FailText ==
    ASSUME ParserInv, TextInv, Here, NEW e, e \notin Resumable, Fail(e), parser.state # "s_message_done"
    PROVE  TextInv'
<1>1. run.pc \notin {"idle", "closed"}
  BY DEF Here
<1>2. Set([parser EXCEPT !.errno = e, !.nread = run.nread], Idle(run.at)) /\ run.at \in Nat /\ run.at >= run.at
  BY <1>1, TextHere DEF Fail
<1> QED BY <1>1, <1>2, ErrorText

LEMMA RefuseText ==
    ASSUME ParserInv, TextInv, Here, Refuse, parser.state # "s_message_done"
    PROVE  TextInv'
<1>1. \A e \in ErrorOf : e[2] \notin Resumable
  BY DEF ErrorOf, Resumable
<1>2. PICK e \in ErrorOf : Fail(e[2])
  BY DEF Refuse
<1> QED BY <1>1, <1>2, FailText

LEMMA CallText ==
    ASSUME ParserInv, TextInv, run.pc \notin {"idle", "closed"}, NEW q, NEW r, NEW events, NEW back, Call(q, r, events, back),
           ~InCall(back), back.start = 0, Typed(q), q.errno = "OK",
           Handed(q, r, log \o events), Handed(q, back, log \o events), Counting(q, r, log \o events, pauses)
    PROVE  TextInv'
<1>1. log' = log \o events /\ pauses \in Nat
  BY TextHere DEF Call
<1>2. CASE parser' = q /\ run' = r /\ UNCHANGED pauses
  BY <1>1, <1>2 DEF TextInv
<1>3. CASE parser' = [q EXCEPT !.errno = "CB", !.nread = r.nread] /\ run' = back /\ UNCHANGED pauses
  <2>1. parser'.errno = "CB" /\ parser'.state = q.state
    BY <1>3 DEF Typed, FieldNames
  <2>2. Handed(parser', run', log')
    BY <1>1, <1>3, <2>1 DEF Handed
  <2>3. Counting(parser', run', log', pauses')
    BY <1>3, <2>1, CountStops
  <2> QED BY <2>2, <2>3 DEF TextInv
<1>4. CASE parser' = [q EXCEPT !.errno = "PAUSED"] /\ run' = back /\ pauses' = pauses + 1
  <2>1. parser'.errno = "PAUSED" /\ parser'.state = q.state /\ pauses' > 0
    BY <1>1, <1>4 DEF Typed, FieldNames
  <2>2. Handed(parser', run', log')
    BY <1>1, <1>4, <2>1 DEF Handed
  <2>3. Counting(parser', run', log', pauses')
    BY <1>4, <2>1, CountStops
  <2> QED BY <2>2, <2>3 DEF TextInv
<1> QED BY <1>2, <1>3, <1>4 DEF Call

-------------------------------------------------------------------------------
(* Callbacks                                                               *)

LEMMA StillAnnounced ==
    ASSUME NEW l \in Seq(Events), NEW ev \in Seq(Events), NEW m, m = l \o ev, Announced(l)
    PROVE  Announced(m)
<1>1. PICK i \in DOMAIN l : l[i] = <<"headers_complete">>
  BY DEF Announced
<1>2. i \in DOMAIN m /\ m[i] = l[i]
  BY <1>1
<1> QED BY <1>1, <1>2 DEF Announced

LEMMA NoticeAnnounced ==
    ASSUME NEW l \in Seq(Events), NEW m, m = l \o <<<<"headers_complete">>>>
    PROVE  Announced(m)
<1>1. PICK e : e = <<"headers_complete">>
  OBVIOUS
<1>2. m = l \o <<e>>
  BY <1>1
<1>3. Len(l) + 1 \in DOMAIN m /\ m[Len(l) + 1] = e
  BY <1>2
<1> QED BY <1>1, <1>3 DEF Announced

LEMMA CountMore ==
    ASSUME NEW q, NEW r, NEW l, NEW n, Counting(q, r, l, n), NEW s, NEW m, Announced(l) => Announced(m),
           s.pc = r.pc, s.at = r.at, s.nread = r.nread, s.start = r.start
    PROVE  Counting(q, s, m, n)
  BY DEF Counting, Counted, InCall

\* Once the first head is over there is nothing to count.
LEMMA CountOver ==
    ASSUME NEW p, NEW r, NEW l, NEW n, Counting(p, r, l, n), InCall(r), HeadOver(p),
           NEW q, NEW s, NEW m, q.errno = "OK", s.start = 0, Announced(l) => Announced(m)
    PROVE  Counting(q, s, m, n)
  BY DEF Counting, InCall

\* CALLBACK_NOTIFY
LEMMA NoticeText ==
    ASSUME ParserInv, TextInv, Here, NEW q, NEW r, NEW k \in Notices, NEW at \in {run.at, run.at + 1},
           Call(q, r, <<<<k>>>>, Idle(at)), Typed(q), q.errno = "OK", r.at \in {run.at, run.at + 1},
           \A j \in DataKinds : r.mark[j] = 0 \/ (r.end = run.end /\ r.mark[j] = run.mark[j]),
           parser.state = "s_message_done" => q.state = "s_message_done" \/ (at = run.at + 1 /\ r.at = run.at + 1),
           Counting(q, r, log \o <<<<k>>>>, pauses)
    PROVE  TextInv'
<1>0. run.pc \notin {"idle", "closed"}
  BY DEF Here
<1>1. PICK e : e = <<k>>
  OBVIOUS
<1>2. e \in Events /\ e[1] = k /\ k \notin DataKinds
  <2>1. e \in {<<x>> : x \in Notices}
    BY <1>1
  <2> QED BY <1>1, <2>1 DEF Events, Notices, DataKinds
<1>3. PICK m : m = log \o <<e>>
  OBVIOUS
<1>4. m \in Seq(Events) /\ Joined(m) /\ LastKind(m) = k /\ \A b : AllBefore(log, b) => AllBefore(m, b)
  <2>1. log \in Seq(Events) /\ Joined(log) /\ ~IsByte(e)
    BY <1>0, <1>2, TextHere DEF Handed, IsByte
  <2> QED BY ONLY <1>2, <1>3, <2>1, EventAppended
<1>5. Handed(parser, run, m)
  BY <1>0, <1>2, <1>4, TextHere DEF Handed
<1>6. Handed(q, r, m)
  <2>1. r.at \in Nat /\ r.at >= run.at
    BY <1>0, TextHere
  <2>2. \A j \in DataKinds : LastKind(m) # j
    BY <1>2, <1>4
  <2> QED BY <1>0, <1>4, <1>5, <2>1, <2>2, TextHere, HandedOn
<1>7. PICK back : back = Idle(at)
  OBVIOUS
<1>8. /\ back.at = at /\ at \in Nat /\ back.at >= run.at /\ ~InCall(back) /\ back.start = 0
      /\ \A j \in DataKinds : back.mark[j] = 0
  BY <1>0, <1>7, TextHere DEF Idle, NoMarks, InCall
<1>9. Handed(q, back, m)
  <2>1. \A j \in DataKinds : LastKind(m) # j
    BY <1>2, <1>4
  <2>2. parser.state = "s_message_done" => q.state = "s_message_done" \/ back.at > run.at
    BY <1>0, <1>8, TextHere
  <2> QED BY <1>0, <1>4, <1>5, <1>8, <2>1, <2>2, TextHere, HandedOn, SMTT(30)
<1> QED BY <1>0, <1>1, <1>3, <1>6, <1>7, <1>8, <1>9, CallText

LEMMA SymbolIsByte == "" \notin Symbols
  BY DEF Symbols, Digits, Letters, Words, Punct, CR, LF

\* What a piece adds to the log.
LEMMA PieceText ==
    ASSUME stream \in Streams, log \in Seq(Events), Joined(log), NEW k \in DataKinds, NEW from \in Nat \ {0}, NEW to \in Nat,
           to <= Size, from <= to + 1, AllBefore(log, from),
           k = "header_value" \/ (LastKind(log) = k => EndsBefore(log, from)),
           NEW m, m = log \o Piece(k, from, to)
    PROVE  /\ m \in Seq(Events) /\ Joined(m) /\ AllBefore(m, to + 1) /\ (Announced(log) => Announced(m))
           /\ from <= to => LastKind(m) = k /\ EndsBefore(m, to + 1)
<1>1. PICK ev : ev = Piece(k, from, to)
  OBVIOUS
<1>2. CASE from <= to
  <2>1. ev = [i \in 1 .. to - from + 1 |-> <<k, stream.syms[from + i - 1], from + i - 1>>]
    BY <1>1, <1>2 DEF Piece
  <2>2. PICK n \in Nat \ {0} : n = to - from + 1
    BY <1>2
  <2>3. ASSUME NEW i \in 1 .. n
        PROVE  ev[i] \in Events /\ IsByte(ev[i]) /\ ev[i][1] = k /\ Place(ev[i]) = from + i - 1
    <3>1. PICK j \in 1 .. Size : j = from + i - 1
      BY <2>2, Stream
    <3>1a. PICK c : c = stream.syms[j]
      OBVIOUS
    <3>2. c \in Symbols /\ c # ""
      BY <3>1, <3>1a, Stream, SymbolIsByte
    <3>3. ev[i] = <<k, c, j>>
      BY <2>1, <2>2, <3>1, <3>1a
    <3>4. ev[i] \in DataKinds \X (Symbols \cup {""}) \X Nat
      <4>1. PICK n1 \in Nat : n1 = j
        BY <3>1, Stream
      <4>2. <<k, c, n1>> \in DataKinds \X (Symbols \cup {""}) \X Nat
        BY <3>2
      <4> QED BY <3>3, <4>1, <4>2
    <3>5. ev[i][1] = k /\ ev[i][2] = c /\ Place(ev[i]) = j
      BY <3>3 DEF Place
    <3> QED BY <3>1, <3>2, <3>4, <3>5, Zenon DEF Events, IsByte
  <2>4. ev \in [1 .. n -> Events] /\ DOMAIN ev = 1 .. n
    BY <2>1, <2>2, <2>3
  <2>5. ev \in Seq(Events) /\ Len(ev) = n
    BY <2>4
  <2>6. BytesFrom(ev, k, from, to)
    BY <1>2, <2>2, <2>3, <2>5 DEF BytesFrom
  <2>7. LastKind(log) = k => log # <<>>
    BY DEF LastKind, DataKinds
  <2>8. m \in Seq(Events) /\ Joined(m) /\ AllBefore(m, to + 1) /\ EndsWith(m, k, to + 1)
    <3>1. log \in Seq(Events) /\ Joined(log) /\ AllBefore(log, from) /\ m = log \o ev
      BY <1>1
    <3>2. MayFollow(log, k, from)
      BY <2>7 DEF MayFollow
    <3> QED BY ONLY <2>6, <3>1, <3>2, BytesAppended
  <2> QED BY <1>1, <2>5, <2>8, StillAnnounced DEF EndsWith
<1>3. CASE ~ (from <= to)
  <2>1. from = to + 1
    BY <1>3
  <2>2. CASE ev = <<>>
    <3>1. m = log
      BY <1>1, <2>2
    <3> QED BY <1>3, <2>1, <3>1
  <2>3. CASE ev # <<>>
    <3>1. PICK e : e = <<k, "", from>> /\ ev = <<e>>
      BY <1>1, <1>3, <2>3 DEF Piece
    <3>2. e \in Events /\ ~IsByte(e)
      BY <3>1 DEF Events, IsByte
    <3>3. <<e>> \in Seq(Events)
      BY <3>2
    <3>4. m \in Seq(Events) /\ Joined(m) /\ AllBefore(m, to + 1)
      BY <1>1, <2>1, <3>1, <3>2, EventAppended
    <3> QED BY <1>1, <1>3, <3>1, <3>3, <3>4, StillAnnounced
  <2> QED BY <2>2, <2>3
<1> QED BY <1>2, <1>3

\* What was handed over, when nothing is marked any more.
LEMMA HandedAfter ==
    ASSUME NEW m \in Seq(Events), Joined(m), NEW to \in Nat, AllBefore(m, to + 1), NEW q, NEW r, r.at \in Nat,
           r.at >= to + 1 \/ (q.state = "s_message_done" /\ r.at >= to),
           \A j \in DataKinds : r.mark[j] = 0,
           StringOf(q.state) \in DataKinds => r.at = to + 1 /\ EndsBefore(m, to + 1)
    PROVE  Handed(q, r, m)
<1>1. AllBefore(m, Beyond(q.state, r))
  <2>1. Beyond(q.state, r) \in Nat /\ Beyond(q.state, r) >= to + 1
    BY DEF Beyond
  <2> QED BY <2>1, LaterPlace
<1>2. ASSUME NEW j \in DataKinds, StringOf(q.state) = j
      PROVE  EndsBefore(m, Resumes(j, r))
  BY <1>2 DEF Resumes
<1> QED BY <1>1, <1>2 DEF Handed

\* CALLBACK_DATA of the bytes from place `from` to place `to`.
LEMMA PieceHanded ==
    ASSUME ParserInv, TextInv, run.pc \notin {"idle", "closed"}, NEW k \in DataKinds, NEW from \in Nat \ {0},
           NEW to \in Nat, to <= Size, from <= to + 1, AllBefore(log, from),
           k = "header_value" \/ (LastKind(log) = k => EndsBefore(log, from)),
           NEW q, NEW r, NEW at \in Nat, Call(q, r, Piece(k, from, to), Idle(at)), Typed(q), q.errno = "OK",
           r.at \in Nat, \A j \in DataKinds : r.mark[j] = 0,
           (r.at >= to + 1 /\ at >= to + 1) \/ (q.state = "s_message_done" /\ r.at >= to /\ at >= to),
           StringOf(q.state) \in DataKinds => from <= to /\ r.at = to + 1 /\ at = to + 1,
           Counting(q, r, log, pauses)
    PROVE  TextInv'
<1>1. PICK ev, m : ev = Piece(k, from, to) /\ m = log \o Piece(k, from, to)
  OBVIOUS
<1>2. /\ m \in Seq(Events) /\ Joined(m) /\ AllBefore(m, to + 1) /\ (Announced(log) => Announced(m))
      /\ from <= to => EndsBefore(m, to + 1)
  <2>1. stream \in Streams /\ log \in Seq(Events) /\ Joined(log)
    BY TextHere DEF ParserInv, Handed
  <2> QED BY <1>1, <2>1, PieceText
<1>3. Handed(q, r, m)
  BY <1>2, HandedAfter
<1>4. PICK back : back = Idle(at)
  OBVIOUS
<1>5. /\ back.at = at /\ ~InCall(back) /\ back.start = 0
      /\ \A j \in DataKinds : back.mark[j] = 0
  BY <1>4 DEF Idle, NoMarks, InCall
<1>6. Handed(q, back, m)
  BY <1>2, <1>5, HandedAfter
<1>7. Counting(q, r, m, pauses)
  BY <1>2, CountMore
<1>8. Call(q, r, ev, back) /\ m = log \o ev
  BY <1>1, <1>4
<1> QED BY <1>3, <1>5, <1>6, <1>7, <1>8, CallText

\* CALLBACK_DATA_
LEMMA DataText ==
    ASSUME ParserInv, TextInv, run.pc \notin {"idle", "closed"}, NEW k \in DataKinds, NEW q, NEW n, NEW to \in Nat,
           NEW at \in Nat, Data(k, q, n, to, at), to <= Size, run.mark[k] <= to + 1,
           k = "header_value" \/ k = StringOf(parser.state), parser.state # "s_message_done",
           \A j \in DataKinds : run.mark[j] # 0 => j = k,
           RunTyped(n), n.mark = run.mark, n.at >= run.at, n.at >= to + 1, at >= to + 1,
           Typed(q), q.errno = "OK",
           StringOf(q.state) \in DataKinds => run.mark[k] \in 1 .. to /\ n.at = to + 1 /\ at = to + 1,
           Counting(q, n, log, pauses)
    PROVE  TextInv'
<1>1. Size \in Nat /\ run.at \in Nat /\ run.end \in Nat /\ n.at \in Nat /\ run.mark \in [DataKinds -> Nat]
  BY TextHere, SMTT(30) DEF RunTyped
<1>2. CASE run.mark[k] = 0
  <2>1. Set(q, n) /\ \A j \in DataKinds : n.mark[j] = 0
    BY <1>2 DEF Data
  <2>2. Handed(q, n, log)
    BY <1>1, <1>2, <2>1, TextHere, HandedOn
  <2> QED BY <2>1, <2>2, SetText
<1>3. CASE run.mark[k] # 0
  <2>1. PICK r : r = MarkCleared(n, k)
    OBVIOUS
  <2>2. /\ r.pc = n.pc /\ r.at = n.at /\ r.nread = n.nread /\ r.start = n.start
        /\ PendingOf(r) = PendingOf(n) \ {k}
    BY <1>1, <2>1, ClearedRun
  <2>3. \A j \in DataKinds : r.mark[j] = 0
    BY <2>2 DEF PendingOf
  <2>4. PICK from \in Nat \ {0} : from = run.mark[k]
    BY <1>1, <1>3
  <2>5. AllBefore(log, from)
    BY <1>3, <2>4, TextHere DEF Handed
  <2>6. k = "header_value" \/ (LastKind(log) = k => EndsBefore(log, from))
    <3>1. SUFFICES ASSUME k = StringOf(parser.state), LastKind(log) = k PROVE EndsBefore(log, from)
      OBVIOUS
    <3>2. EndsBefore(log, Resumes(k, run))
      BY <3>1, TextHere DEF Handed
    <3> QED BY <1>3, <2>4, <3>2 DEF Resumes
  <2>7. Call(q, r, Piece(k, from, to), Idle(at))
    BY <1>3, <2>1, <2>4 DEF Data
  <2>8. Counting(q, r, log, pauses)
    BY <2>2, CountMore
  <2> QED BY <1>1, <2>2, <2>3, <2>4, <2>5, <2>6, <2>7, <2>8, PieceHanded
<1> QED BY <1>2, <1>3

-------------------------------------------------------------------------------
(* The first line keeps it                                                 *)

\* The states of a head that read no string, or the value of a header.
Quiet == StartStates \cup LineStates \cup VersionStates \cup DiscardStates \cup ValueEndStates \cup FieldStates
           \cup {"s_res_line_almost_done", "s_header_value"}

LEMMA NoString ==
    ASSUME NEW s, s \notin UrlStates, s \notin BodyMarked, s \notin {"s_header_field", "s_res_status"}
    PROVE  StringOf(s) \notin DataKinds
  BY DEF StringOf, DataKinds

LEMMA QuietIs ==
    ASSUME NEW s \in Quiet
    PROVE  StringOf(s) \notin DataKinds /\ s \notin PastHead
<1>1. CASE s \in StartStates \cup LineStates
  <2>1. s \notin UrlStates /\ s \notin BodyMarked /\ s \notin {"s_header_field", "s_res_status"} /\ s \notin PastHead
    BY <1>1 DEF StartStates, LineStates, UrlStates, UrlServer, UrlTail, BodyMarked, Identities, PastHead, ChunkStates, SizeStates
  <2> QED BY <2>1, NoString
<1>2. CASE s \in VersionStates \cup DiscardStates
  <2>1. s \notin UrlStates /\ s \notin BodyMarked /\ s \notin {"s_header_field", "s_res_status"} /\ s \notin PastHead
    BY <1>2 DEF VersionStates, DiscardStates, UrlStates, UrlServer, UrlTail, BodyMarked, Identities, PastHead, ChunkStates, SizeStates
  <2> QED BY <2>1, NoString
<1>3. CASE s \in ValueEndStates \cup FieldStates \cup {"s_res_line_almost_done", "s_header_value"}
  <2>1. s \notin UrlStates /\ s \notin BodyMarked /\ s \notin {"s_header_field", "s_res_status"} /\ s \notin PastHead
    BY <1>3 DEF ValueEndStates, FieldStates, UrlStates, UrlServer, UrlTail, BodyMarked, Identities, PastHead, ChunkStates, SizeStates
  <2> QED BY <2>1, NoString
<1> QED BY <1>1, <1>2, <1>3 DEF Quiet

SlowStates == {"s_header_field", "s_header_value", "s_message_done"}

LEMMA QuietText ==
    ASSUME ParserInv, TextInv, Here, NEW q, Break(q) \/ Reexecute(q), q.errno = parser.errno, q.state \in Quiet,
           "F_TRAILING" \in q.flags => "F_TRAILING" \in parser.flags, parser.state \notin SlowStates
    PROVE  TextInv'
<1>1. PICK r \in {Next1(run), Again(run)} : Set(q, r)
  BY DEF Break, Reexecute
<1>2. Continues(q.state) /\ (HeadOver(q) => HeadOver(parser))
  BY QuietIs DEF Continues, HeadOver
<1> QED BY <1>1, <1>2, GoText DEF SlowStates

LEMMA UrlString ==
    ASSUME NEW s \in UrlStates
    PROVE  StringOf(s) = "url" /\ MarkedAtEntry(s) = {"url"} /\ s \notin PastHead \cup BodyMarked \cup SlowStates
<1>1. s \notin PastHead \cup BodyMarked \cup SlowStates \cup {"s_header_field", "s_header_value", "s_res_status"}
  BY DEF UrlStates, UrlServer, UrlTail, BodyMarked, Identities, SlowStates, PastHead, ChunkStates, SizeStates
<1>2. StringOf(s) = "url"
  BY <1>1 DEF StringOf
<1>3. MarkedAtEntry(s) = {"url"}
  BY <1>1 DEF MarkedAtEntry
<1> QED BY <1>1, <1>2, <1>3

LEMMA StatusString == StringOf("s_res_status") = "status" /\ MarkedAtEntry("s_res_status") = {"status"}
<1>1. "s_res_status" \notin UrlStates \cup BodyMarked
  BY DEF UrlStates, UrlServer, UrlTail, BodyMarked, Identities
<1> QED BY <1>1 DEF StringOf, MarkedAtEntry

\* A string that goes on.
LEMMA StringText ==
    ASSUME ParserInv, TextInv, Here, NEW q, Break(q), q.errno = parser.errno, q.flags = parser.flags,
           \/ parser.state \in UrlStates /\ q.state \in UrlStates
           \/ parser.state = "s_res_status" /\ q.state = "s_res_status"
    PROVE  TextInv'
<1>1. Set(q, Next1(run))
  BY DEF Break
<1>2. MarkedAtEntry(parser.state) = {StringOf(parser.state)} /\ StringOf(q.state) = StringOf(parser.state)
  BY UrlString, StatusString
<1>3. parser.state \notin BodyMarked \cup SlowStates /\ q.state \notin PastHead
  BY DEF UrlStates, UrlServer, UrlTail, BodyMarked, Identities, SlowStates, PastHead, ChunkStates, SizeStates
<1>4. Continues(q.state)
  BY <1>2, <1>3, OneMark DEF Continues
<1>5. HeadOver(q) => HeadOver(parser)
  BY <1>3 DEF HeadOver
<1> QED BY <1>1, <1>3, <1>4, <1>5, GoText DEF SlowStates

LEMMA NotifyText ==
    ASSUME ParserInv, TextInv, Here, NEW q, NEW k \in Notices, Notify(k, q, run) \/ NotifyAgain(k, q), Typed(q),
           q.errno = "OK", parser.state \notin SlowStates,
           k = "headers_complete" \/ HeadOver(parser) \/ ~HeadOver(q)
    PROVE  TextInv'
<1>1. PICK r \in {Next1(run), Again(run)}, at \in {run.at, run.at + 1} : Call(q, r, <<<<k>>>>, Idle(at))
  BY DEF Notify, NotifyAgain
<1>2. run.pc = "switch" /\ run.pc \notin {"idle", "closed"}
  BY DEF Here
<1>3. run.start = 0 /\ run.at \in 1 .. Size
  BY <1>2, TextHere, HereFacts DEF SlowStates
<1>4. /\ (r.pc = "top" /\ r.at = run.at + 1) \/ (r.pc = "switch" /\ r.at = run.at)
      /\ r.end = run.end /\ r.nread = run.nread /\ r.start = 0 /\ r.mark = run.mark
  BY <1>2, <1>3, TextHere, MoveRun
<1>5. PICK m : m = log \o <<<<k>>>>
  OBVIOUS
<1>6. (Announced(log) => Announced(m)) /\ (k = "headers_complete" => Announced(m))
  <2>1. log \in Seq(Events) /\ <<<<k>>>> \in Seq(Events)
    <3>1. PICK e \in Events : e = <<k>>
      BY DEF Events
    <3> QED BY <1>2, <3>1, TextHere
  <2> QED BY <1>5, <2>1, StillAnnounced, NoticeAnnounced
<1>7. Counting(q, r, m, pauses)
  BY <1>2, <1>3, <1>4, <1>6, TextHere, CountGo
<1> QED BY <1>1, <1>4, <1>5, <1>7, NoticeText DEF SlowStates

LEMMA MoveText == ASSUME ParserInv, TextInv, Move PROVE TextInv'
<1>1. Here
  BY InHere DEF Move
<1>2. PICK m \in Moves : parser.state \in m[1] /\ Break(To(m[3]))
  BY DEF Move
<1>3. PICK q : q = [parser EXCEPT !.state = m[3]]
  OBVIOUS
<1>4. q.state = m[3] /\ q.flags = parser.flags /\ q.errno = parser.errno /\ Break(q)
  BY <1>1, <1>2, <1>3, HereFacts DEF To, Typed, FieldNames
<1>5. CASE parser.state \in Quiet \ {"s_header_value"} /\ q.state \in Quiet
  <2>1. parser.state \notin SlowStates
    BY <1>5, QuietIs DEF SlowStates, Quiet, PastHead, StartStates, LineStates, VersionStates, DiscardStates, ValueEndStates, FieldStates
  <2> QED BY <1>1, <1>4, <1>5, <2>1, QuietText
<1>6. CASE parser.state \in SizeStates /\ q.state \in SizeStates
  <2>1. parser.state \notin SlowStates /\ HeadOver(parser) /\ q.state \notin UrlStates /\ q.state \notin BodyMarked
        /\ q.state \notin {"s_header_field", "s_res_status"}
    BY <1>6 DEF SizeStates, SlowStates, HeadOver, PastHead, ChunkStates, UrlStates, UrlServer, UrlTail, BodyMarked, Identities
  <2>2. Continues(q.state) /\ Set(q, Next1(run))
    BY <1>4, <2>1, NoString DEF Continues, Break
  <2> QED BY <1>1, <1>4, <2>1, <2>2, GoText DEF SlowStates
<1>7. CASE Stays(m, SizeStates)
  BY <1>2, <1>4, <1>6, <1>7 DEF Stays, Within
<1>8. CASE Ends(m)
  <2>1. parser.state \in VersionStates \cup {"s_res_line_almost_done"} /\ q.state \in FieldStates
    BY <1>2, <1>4, <1>8 DEF Ends, Within, FieldStates
  <2> QED BY <1>5, <2>1 DEF Quiet, VersionStates
<1>9. ASSUME NEW class, Stays(m, class), class \subseteq Quiet \ {"s_header_value"}
      PROVE  TextInv'
  BY <1>2, <1>4, <1>5, <1>9 DEF Stays, Within
<1>10. /\ StartStates \subseteq Quiet \ {"s_header_value"} /\ LineStates \subseteq Quiet \ {"s_header_value"}
       /\ VersionStates \subseteq Quiet \ {"s_header_value"} /\ FieldStates \subseteq Quiet \ {"s_header_value"}
       /\ DiscardStates \subseteq Quiet \ {"s_header_value"} /\ ValueEndStates \subseteq Quiet \ {"s_header_value"}
  BY DEF Quiet, StartStates, LineStates, VersionStates, FieldStates, DiscardStates, ValueEndStates
<1> QED BY <1>7, <1>8, <1>9, <1>10, MoveGroups

LEMMA MoveRefusedText == ASSUME ParserInv, TextInv, MoveRefused PROVE TextInv'
<1>1. Here /\ Refuse /\ parser.state # "s_message_done"
  BY InHere DEF MoveRefused, MoveOnly
<1> QED BY <1>1, RefuseText

LEMMA BeginText ==
    ASSUME ParserInv, TextInv, Here, parser.state \in StartStates, NEW q, Typed(q), q.errno = "OK",
           q.state \in LineStates, q.flags = {}, Notify("message_begin", q, run)
    PROVE  TextInv'
<1>1. "message_begin" \in Notices /\ parser.state \notin SlowStates
  BY DEF Notices, SlowStates, StartStates
<1>2. ~HeadOver(q)
  BY QuietIs DEF HeadOver, Quiet
<1> QED BY <1>1, <1>2, NotifyText

LEMMA StartReqOrResText == ASSUME ParserInv, TextInv, StartReqOrRes PROVE TextInv'
<1>1. Here /\ parser.state = "s_start_req_or_res"
  BY InHere DEF StartReqOrRes
<1>2. Typed(parser) /\ parser.state \in StartStates /\ parser.errno = "OK"
  BY <1>1, TextHere DEF StartStates, Here
<1>3. CASE ch = "H"
  <2>1. PICK q : q = [Fresh EXCEPT !.state = "s_res_or_resp_H"]
    OBVIOUS
  <2>2. Typed(q) /\ q.state \in LineStates /\ q.flags = {} /\ q.errno = "OK"
    BY <1>2, <2>1, ParserAssumption DEF LineStates, Fresh, Typed, FieldNames
  <2>3. Notify("message_begin", q, run)
    BY <1>3, <2>1 DEF StartReqOrRes
  <2> QED BY <1>1, <1>2, <2>2, <2>3, BeginText
<1>4. CASE ch # "H"
  <2>1. PICK q : q = [Fresh EXCEPT !.type = "REQUEST", !.state = "s_start_req"]
    OBVIOUS
  <2>2. q.state \in Quiet /\ q.flags = {} /\ q.errno = parser.errno
    BY <1>2, <2>1, ParserAssumption DEF Fresh, Typed, FieldNames, Quiet, StartStates
  <2>3. Reexecute(q)
    BY <1>4, <2>1 DEF StartReqOrRes
  <2> QED BY <1>1, <2>2, <2>3, QuietText DEF SlowStates
<1> QED BY <1>3, <1>4

LEMMA StartResText == ASSUME ParserInv, TextInv, StartRes PROVE TextInv'
<1>1. Here /\ parser.state = "s_start_res"
  BY InHere DEF StartRes
<1>2. Typed(parser) /\ parser.state \in StartStates /\ parser.errno = "OK"
  BY <1>1, TextHere DEF StartStates, Here
<1>3. CASE ch = "H"
  <2>1. PICK q : q = [Fresh EXCEPT !.state = "s_res_H"]
    OBVIOUS
  <2>2. Typed(q) /\ q.state \in LineStates /\ q.flags = {} /\ q.errno = "OK"
    BY <1>2, <2>1, ParserAssumption DEF LineStates, Fresh, Typed, FieldNames
  <2>3. Notify("message_begin", q, run)
    BY <1>3, <2>1 DEF StartRes
  <2> QED BY <1>1, <1>2, <2>2, <2>3, BeginText
<1>4. CASE ch # "H"
  BY <1>1, <1>4, RefuseText DEF StartRes
<1> QED BY <1>3, <1>4

LEMMA StartReqText == ASSUME ParserInv, TextInv, StartReq PROVE TextInv'
<1>1. Here /\ parser.state = "s_start_req"
  BY InHere DEF StartReq
<1>2. Typed(parser) /\ parser.state \in StartStates /\ parser.errno = "OK"
  BY <1>1, TextHere DEF StartStates, Here
<1>3. CASE ch \in DOMAIN MethodOf
  <2>1. PICK q : q = [Fresh EXCEPT !.method = MethodOf[ch], !.index = 1, !.state = "s_req_method"]
    OBVIOUS
  <2>2. Typed(q) /\ q.state \in LineStates /\ q.flags = {} /\ q.errno = "OK"
    BY <1>2, <2>1, ParserAssumption DEF LineStates, Fresh, Typed, FieldNames
  <2>3. Notify("message_begin", q, run)
    BY <1>3, <2>1 DEF StartReq
  <2> QED BY <1>1, <1>2, <2>2, <2>3, BeginText
<1>4. CASE ch \notin DOMAIN MethodOf
  BY <1>1, <1>4, RefuseText DEF StartReq
<1> QED BY <1>3, <1>4

\* A byte of the first line that is no string's.
LEMMA LineText ==
    ASSUME ParserInv, TextInv, Here, parser.state \in LineStates \cup VersionStates,
           NEW q, q.state \in LineStates \cup VersionStates, q.flags = parser.flags, q.errno = parser.errno,
           Break(q) \/ Reexecute(q)
    PROVE  TextInv'
<1>1. parser.state \notin SlowStates /\ q.state \in Quiet
  BY DEF LineStates, VersionStates, SlowStates, Quiet
<1> QED BY <1>1, QuietText

LEMMA LineRefusedText ==
    ASSUME ParserInv, TextInv, Here, parser.state \in LineStates \cup VersionStates, Refuse
    PROVE  TextInv'
<1>1. parser.state # "s_message_done"
  BY DEF LineStates, VersionStates
<1> QED BY <1>1, RefuseText

LEMMA ResOrRespHText == ASSUME ParserInv, TextInv, ResOrRespH PROVE TextInv'
<1>1. Here /\ parser.state \in LineStates
  BY InHere DEF ResOrRespH, LineStates
<1>2. Typed(parser)
  BY <1>1, HereFacts
<1>3. CASE ch = "TTP/"
  <2>1. PICK q : q = [parser EXCEPT !.type = "RESPONSE", !.state = "s_res_http_major"]
    OBVIOUS
  <2>2. q.state \in LineStates /\ q.flags = parser.flags /\ q.errno = parser.errno
    BY <1>2, <2>1 DEF LineStates, Typed, FieldNames
  <2>3. Break(q)
    BY <1>3, <2>1 DEF ResOrRespH
  <2> QED BY <1>1, <2>2, <2>3, LineText
<1>4. CASE ch = "EAD"
  <2>1. PICK q : q = [parser EXCEPT !.type = "REQUEST", !.method = "HEAD", !.index = 2, !.state = "s_req_method"]
    OBVIOUS
  <2>2. q.state \in LineStates /\ q.flags = parser.flags /\ q.errno = parser.errno
    BY <1>2, <2>1 DEF LineStates, Typed, FieldNames
  <2>3. Break(q)
    BY <1>4, <2>1 DEF ResOrRespH
  <2> QED BY <1>1, <2>2, <2>3, LineText
<1>5. CASE ch \notin {"TTP/", "EAD"}
  BY <1>1, <1>5, LineRefusedText DEF ResOrRespH
<1> QED BY <1>3, <1>4, <1>5

LEMMA ReqMethodText == ASSUME ParserInv, TextInv, ReqMethod PROVE TextInv'
<1>1. Here /\ parser.state \in LineStates
  BY InHere DEF ReqMethod, LineStates
<1>2. Typed(parser)
  BY <1>1, HereFacts
<1>3. CASE Break(To("s_req_spaces_before_url"))
  <2>1. PICK q : q = To("s_req_spaces_before_url")
    OBVIOUS
  <2>2. q.state \in LineStates /\ q.flags = parser.flags /\ q.errno = parser.errno
    BY <1>2, <2>1 DEF To, LineStates, Typed, FieldNames
  <2>3. Break(q)
    BY <1>3, <2>1
  <2> QED BY <1>1, <2>2, <2>3, LineText
<1>4. CASE Break([parser EXCEPT !.index = 2])
  <2>1. PICK q : q = [parser EXCEPT !.index = 2]
    OBVIOUS
  <2>2. q.state = parser.state /\ q.flags = parser.flags /\ q.errno = parser.errno
    BY <1>2, <2>1 DEF Typed, FieldNames
  <2>3. Break(q)
    BY <1>4, <2>1
  <2> QED BY <1>1, <2>2, <2>3, LineText
<1>5. CASE Refuse
  BY <1>1, <1>5, LineRefusedText
<1> QED BY <1>3, <1>4, <1>5 DEF ReqMethod

LEMMA UrlFirstText == ASSUME ParserInv, TextInv, UrlFirst PROVE TextInv'
<1>1. Here /\ parser.state = "s_req_spaces_before_url" /\ parser.state \in LineStates
  BY InHere DEF UrlFirst, LineStates
<1>2. Typed(parser)
  BY <1>1, HereFacts
<1>3. PICK s \in UrlStates \cup {"s_dead"} :
        IF s = "s_dead" THEN Refuse ELSE Set(To(s), Next1(MarkAt(run, "url")))
  BY ParseUrlChar DEF UrlFirst
<1>4. CASE s = "s_dead"
  BY <1>1, <1>3, <1>4, LineRefusedText
<1>5. CASE s # "s_dead"
  <2>1. PICK q : q = To(s)
    OBVIOUS
  <2>2. q.state = s /\ q.flags = parser.flags /\ q.errno = parser.errno
    BY <1>2, <2>1 DEF To, Typed, FieldNames
  <2>3. PICK r : r = Next1(MarkAt(run, "url")) /\ Set(q, r)
    BY <1>3, <1>5, <2>1
  <2>4. MarkedAtEntry(parser.state) = {} /\ parser.state \notin BodyMarked /\ LastKind(log) = "message_begin"
    BY <1>1, HereFacts, Was, LineIs
  <2>5. "url" \in DataKinds /\ run.mark["url"] = 0
    BY <1>1, <2>4, NoMark DEF DataKinds
  <2>6. q.state \notin PastHead /\ StringOf(q.state) = "url"
    BY <1>3, <1>5, <2>2, UrlString
  <2>7. StringOf(q.state) # LastKind(log) /\ (HeadOver(q) => HeadOver(parser))
    BY <2>2, <2>4, <2>6 DEF HeadOver
  <2> QED BY <1>1, <2>2, <2>3, <2>5, <2>7, MarkText
<1> QED BY <1>4, <1>5

\* A string of the first line is handed over, and is over.
LEMMA StringEndText ==
    ASSUME ParserInv, TextInv, Here, NEW q, NEW k, CallbackData(k, q), Typed(q), q.errno = "OK", q.flags = parser.flags,
           q.state \in Quiet,
           \/ k = "url" /\ parser.state \in UrlStates
           \/ k = "status" /\ parser.state = "s_res_status"
    PROVE  TextInv'
<1>1. k \in DataKinds /\ StringOf(parser.state) = k /\ MarkedAtEntry(parser.state) = {k}
  BY UrlString, StatusString DEF DataKinds
<1>2. parser.state \notin BodyMarked \cup SlowStates
  BY DEF UrlStates, UrlServer, UrlTail, BodyMarked, Identities, SlowStates
<1>3. \A j \in DataKinds : run.mark[j] # 0 => j = k
  BY <1>1, <1>2, OneMark
<1>4. run.pc = "switch" /\ run.start = 0 /\ run.at \in 1 .. Size /\ Size \in Nat /\ RunTyped(run) /\ run.mark[k] \in Nat
      /\ run.mark[k] <= run.at
  <2>1. run.pc = "switch" /\ run.start = 0 /\ run.at \in 1 .. Size /\ Size \in Nat /\ RunTyped(run)
    BY <1>2, TextHere, HereFacts DEF Here, SlowStates
  <2>2. run.mark[k] \in Nat /\ (run.mark[k] # 0 => run.mark[k] <= run.at)
    BY <1>1, <2>1, TextHere DEF Handed
  <2> QED BY <2>1, <2>2
<1>5. PICK n : n = Next1(run)
  OBVIOUS
<1>6. /\ RunTyped(n) /\ n.pc = "top" /\ n.at = run.at + 1 /\ n.nread = run.nread
      /\ n.start = 0 /\ n.mark = run.mark
  BY <1>4, <1>5, MoveRun
<1>7. StringOf(q.state) \notin DataKinds /\ (HeadOver(q) => HeadOver(parser))
  BY QuietIs DEF HeadOver
<1>8. Counting(q, n, log, pauses)
  BY <1>4, <1>6, <1>7, TextHere, CountGo
<1>9. PICK to \in Nat : to = run.at - 1
  BY <1>4
<1>10. Data(k, q, n, to, run.at + 1)
  BY <1>5, <1>9 DEF CallbackData
<1> QED BY <1>1, <1>2, <1>3, <1>4, <1>6, <1>7, <1>8, <1>9, <1>10, DataText DEF SlowStates

LEMMA UrlByteText == ASSUME ParserInv, TextInv, UrlByte PROVE TextInv'
<1>1. Here /\ parser.state \in UrlStates /\ parser.state # "s_message_done"
  <2>1. Here /\ parser.state \in UrlStates
    BY InHere DEF UrlByte
  <2> QED BY <2>1, UrlString DEF SlowStates
<1>2. Typed(parser) /\ parser.errno = "OK"
  BY <1>1, TextHere DEF Here
<1>3. CASE CallbackData("url", To("s_req_http_start"))
  <2>1. PICK q : q = To("s_req_http_start")
    OBVIOUS
  <2>2. Typed(q) /\ q.state \in Quiet /\ q.flags = parser.flags /\ q.errno = "OK"
    BY <1>2, <2>1 DEF To, Typed, FieldNames, VersionStates, Quiet
  <2>3. CallbackData("url", q)
    BY <1>3, <2>1
  <2> QED BY <1>1, <2>2, <2>3, StringEndText
<1>4. CASE CallbackData("url", [parser EXCEPT !.version = "0.9",
                 !.state = IF ch = CR THEN "s_req_line_almost_done" ELSE "s_header_field_start"])
  <2>1. PICK s \in {"s_req_line_almost_done", "s_header_field_start"} :
          s = IF ch = CR THEN "s_req_line_almost_done" ELSE "s_header_field_start"
    OBVIOUS
  <2>2. PICK q : q = [parser EXCEPT !.version = "0.9", !.state = s]
    OBVIOUS
  <2>3. Typed(q) /\ q.state = s /\ q.flags = parser.flags /\ q.errno = "OK"
    BY <1>2, <2>2 DEF Typed, FieldNames
  <2>4. CallbackData("url", q)
    BY <1>4, <2>1, <2>2
  <2>5. q.state \in Quiet
    BY <2>1, <2>3 DEF VersionStates, FieldStates, Quiet
  <2> QED BY <1>1, <2>3, <2>4, <2>5, StringEndText
<1>5. CASE \E s \in UrlStates \cup {"s_dead"} : IF s = "s_dead" THEN Refuse ELSE Break(To(s))
  <2>1. PICK s \in UrlStates \cup {"s_dead"} : IF s = "s_dead" THEN Refuse ELSE Break(To(s))
    BY <1>5
  <2>2. CASE s = "s_dead"
    BY <1>1, <2>1, <2>2, RefuseText
  <2>3. CASE s # "s_dead"
    <3>1. PICK q : q = To(s)
      OBVIOUS
    <3>2. q.state = s /\ q.flags = parser.flags /\ q.errno = parser.errno
      BY <1>2, <3>1 DEF To, Typed, FieldNames
    <3>3. Break(q)
      BY <2>1, <2>3, <3>1
    <3> QED BY <1>1, <2>1, <2>3, <3>2, <3>3, StringText
  <2> QED BY <2>2, <2>3
<1>6. parse_url_char(parser.state, ch) \in UrlStates \cup {"s_dead"}
  BY ParseUrlChar
<1> QED BY <1>3, <1>4, <1>5, <1>6 DEF UrlByte

LEMMA ReqIceText == ASSUME ParserInv, TextInv, ReqIce PROVE TextInv'
<1>1. Here /\ parser.state \in VersionStates
  BY InHere DEF ReqIce, VersionStates
<1>2. Typed(parser)
  BY <1>1, HereFacts
<1>3. CASE Break(To("s_req_http_I"))
  <2>1. PICK q : q = To("s_req_http_I")
    OBVIOUS
  <2>2. q.state \in VersionStates /\ q.flags = parser.flags /\ q.errno = parser.errno
    BY <1>2, <2>1 DEF To, Typed, FieldNames, VersionStates
  <2>3. Break(q)
    BY <1>3, <2>1
  <2> QED BY <1>1, <2>2, <2>3, LineText
<1>4. CASE Refuse
  BY <1>1, <1>4, LineRefusedText
<1> QED BY <1>3, <1>4 DEF ReqIce

LEMMA ReqVersionText == ASSUME ParserInv, TextInv, ReqVersion PROVE TextInv'
<1>1. Here /\ parser.state \in VersionStates
  BY InHere DEF ReqVersion, VersionStates
<1>2. Typed(parser)
  BY <1>1, HereFacts
<1>3. CASE ch \in {"1.0", "1.1"}
  <2>1. PICK q : q = [parser EXCEPT !.version = ch, !.state = "s_req_http_end"]
    OBVIOUS
  <2>2. q.state \in VersionStates /\ q.flags = parser.flags /\ q.errno = parser.errno
    BY <1>2, <2>1 DEF Typed, FieldNames, VersionStates
  <2>3. Break(q)
    BY <1>3, <2>1 DEF ReqVersion
  <2> QED BY <1>1, <2>2, <2>3, LineText
<1>4. CASE ch \notin {"1.0", "1.1"}
  BY <1>1, <1>4, LineRefusedText DEF ReqVersion
<1> QED BY <1>3, <1>4

LEMMA ResVersionText == ASSUME ParserInv, TextInv, ResVersion PROVE TextInv'
<1>1. Here /\ parser.state \in LineStates
  BY InHere DEF ResVersion, LineStates
<1>2. Typed(parser)
  BY <1>1, HereFacts
<1>3. CASE ch \in {"1.0", "1.1"}
  <2>1. PICK q : q = [parser EXCEPT !.version = ch, !.state = "s_res_http_end"]
    OBVIOUS
  <2>2. q.state \in LineStates /\ q.flags = parser.flags /\ q.errno = parser.errno
    BY <1>2, <2>1 DEF Typed, FieldNames, LineStates
  <2>3. Break(q)
    BY <1>3, <2>1 DEF ResVersion
  <2> QED BY <1>1, <2>2, <2>3, LineText
<1>4. CASE ch \notin {"1.0", "1.1"}
  BY <1>1, <1>4, LineRefusedText DEF ResVersion
<1> QED BY <1>3, <1>4

LEMMA FirstStatusCodeText == ASSUME ParserInv, TextInv, FirstStatusCode PROVE TextInv'
<1>1. Here /\ parser.state \in LineStates
  BY InHere DEF FirstStatusCode, LineStates
<1>2. Typed(parser)
  BY <1>1, HereFacts
<1>3. CASE ch \in Digits
  <2>1. PICK d, q : d = DecimalDigit(ch) /\ q = [parser EXCEPT !.status_code = d, !.state = "s_res_status_code"]
    OBVIOUS
  <2>2. q.state \in LineStates /\ q.flags = parser.flags /\ q.errno = parser.errno
    BY <1>2, <2>1 DEF Typed, FieldNames, LineStates
  <2>3. Break(q)
    BY <1>3, <2>1 DEF FirstStatusCode
  <2> QED BY <1>1, <2>2, <2>3, LineText
<1>4. CASE ch \notin Digits
  BY <1>1, <1>4, LineRefusedText DEF FirstStatusCode
<1> QED BY <1>3, <1>4

LEMMA StatusCodeText == ASSUME ParserInv, TextInv, StatusCode PROVE TextInv'
<1>1. Here /\ parser.state \in LineStates
  BY InHere DEF StatusCode, LineStates
<1>2. Typed(parser)
  BY <1>1, HereFacts
<1>3. CASE Reexecute(To("s_res_status_start"))
  <2>1. PICK q : q = To("s_res_status_start")
    OBVIOUS
  <2>2. q.state \in LineStates /\ q.flags = parser.flags /\ q.errno = parser.errno
    BY <1>2, <2>1 DEF To, Typed, FieldNames, LineStates
  <2>3. Reexecute(q)
    BY <1>3, <2>1
  <2> QED BY <1>1, <2>2, <2>3, LineText
<1>4. CASE Break([parser EXCEPT !.status_code = @ * 10 + DecimalDigit(ch)])
  <2>1. PICK n : n = parser.status_code * 10 + DecimalDigit(ch)
    OBVIOUS
  <2>2. PICK q : q = [parser EXCEPT !.status_code = n]
    OBVIOUS
  <2>3. q.state = parser.state /\ q.flags = parser.flags /\ q.errno = parser.errno
    BY <1>2, <2>2 DEF Typed, FieldNames
  <2>4. Break(q)
    BY <1>4, <2>1, <2>2
  <2> QED BY <1>1, <2>3, <2>4, LineText
<1>5. CASE Refuse
  BY <1>1, <1>5, LineRefusedText
<1> QED BY <1>3, <1>4, <1>5 DEF StatusCode

LEMMA StatusStartText == ASSUME ParserInv, TextInv, StatusStart PROVE TextInv'
<1>1. Here /\ parser.state = "s_res_status_start" /\ parser.state \in LineStates
  BY InHere DEF StatusStart, LineStates
<1>2. Typed(parser)
  BY <1>1, HereFacts
<1>3. PICK q : q = To("s_res_status")
  OBVIOUS
<1>4. q.state = "s_res_status" /\ q.flags = parser.flags /\ q.errno = parser.errno
  BY <1>2, <1>3 DEF To, Typed, FieldNames
<1>5. PICK r \in {Next1(MarkAt(run, "status")), Again(MarkAt(run, "status"))} : Set(q, r)
  BY <1>3 DEF StatusStart
<1>6. MarkedAtEntry(parser.state) = {} /\ parser.state \notin BodyMarked /\ LastKind(log) = "message_begin"
  BY <1>1, HereFacts, Was, LineIs
<1>7. "status" \in DataKinds /\ run.mark["status"] = 0
  BY <1>1, <1>6, NoMark DEF DataKinds
<1>8. StringOf(q.state) # LastKind(log)
  BY <1>4, <1>6, StatusString
<1>9. HeadOver(q) => HeadOver(parser)
  BY <1>4 DEF HeadOver, PastHead, ChunkStates, SizeStates, Identities
<1> QED BY <1>1, <1>4, <1>5, <1>7, <1>8, <1>9, MarkText

LEMMA StatusText == ASSUME ParserInv, TextInv, Status PROVE TextInv'
<1>1. Here /\ parser.state = "s_res_status"
  BY InHere DEF Status
<1>2. Typed(parser) /\ parser.errno = "OK"
  BY <1>1, TextHere DEF Here
<1>3. CASE \E s \in {"s_res_line_almost_done", "s_header_field_start"} : CallbackData("status", To(s))
  <2>1. PICK s \in {"s_res_line_almost_done", "s_header_field_start"} : CallbackData("status", To(s))
    BY <1>3
  <2>2. PICK q : q = To(s)
    OBVIOUS
  <2>3. Typed(q) /\ q.state = s /\ q.flags = parser.flags /\ q.errno = "OK"
    BY <1>2, <2>2 DEF To, Typed, FieldNames
  <2>4. CallbackData("status", q)
    BY <2>1, <2>2
  <2>5. q.state \in Quiet
    BY <2>1, <2>3 DEF FieldStates, Quiet
  <2> QED BY <1>1, <2>3, <2>4, <2>5, StringEndText
<1>4. CASE Break(parser)
  BY <1>1, <1>4, StringText
<1> QED BY <1>3, <1>4 DEF Status

LEMMA FirstLineText == ASSUME ParserInv, TextInv, FirstLine PROVE TextInv'
  BY StartReqOrResText, ResOrRespHText, StartResText, StartReqText, ReqMethodText, UrlFirstText, UrlByteText,
     ReqIceText, ReqVersionText, ResVersionText, FirstStatusCodeText, StatusCodeText, StatusStartText, StatusText
  DEF FirstLine

-------------------------------------------------------------------------------
(* The headers keep it                                                     *)

\* The inner loops count when they end: by then nread is the place they end at.
LEMMA ScanCounts ==
    ASSUME ParserInv, TextInv, run.pc \in {"switch", "scanned"}, pauses = 0, ~Announced(log), NEW at \in Nat
    PROVE  ScanCount(at) = at /\ ~HeadOver(parser)
<1>1. RangeOK(run) /\ RunTyped(run) /\ Size \in Nat /\ run.nread \in Nat
  BY RunFacts
<1>2. Counted(parser, run) /\ ~HeadOver(parser)
  BY TextHere DEF Counting
<1>3. CASE run.start = 0
  <2>1. run.pc = "switch" /\ run.nread = run.at
    BY <1>1, <1>2, <1>3 DEF RangeOK, Counted
  <2>2. InScan.start = run.at
    BY <1>1, <1>3 DEF InScan, RunTyped
  <2> QED BY <1>1, <1>2, <2>1, <2>2 DEF ScanCount
<1>4. CASE run.start # 0
  <2>1. InScan.start = run.nread
    BY <1>2, <1>4 DEF InScan, Counted
  <2> QED BY <1>1, <1>2, <2>1 DEF ScanCount
<1> QED BY <1>3, <1>4

LEMMA OverflowText ==
    ASSUME ParserInv, TextInv, run.pc \notin {"idle", "closed"}, NEW at \in Nat, Overflow(at), parser.state # "s_message_done",
           at >= run.at \/ (\E k \in DataKinds : run.mark[k] # 0 /\ at = run.end)
    PROVE  TextInv'
<1>1. PICK n : n = ScanCount(at)
  OBVIOUS
<1>2. Set([parser EXCEPT !.errno = "HEADER_OVERFLOW", !.nread = n], Idle(at))
  BY <1>1 DEF Overflow
<1> QED BY <1>2, ErrorText DEF Resumable

\* What is marked in a header's field and in its value.
HeaderKind(s) == IF s = "s_header_field" THEN "header_field" ELSE "header_value"

LEMMA HeaderMark ==
    ASSUME ParserInv, TextInv, Here, parser.state \in {"s_header_field", "s_header_value"}
    PROVE  /\ HeaderKind(parser.state) \in DataKinds /\ run.mark[HeaderKind(parser.state)] # 0
           /\ \A j \in DataKinds : run.mark[j] # 0 => j = HeaderKind(parser.state)
<1>1. parser.state \notin BodyMarked /\ MarkedAtEntry(parser.state) = {HeaderKind(parser.state)}
  BY DEF BodyMarked, Identities, MarkedAtEntry, HeaderKind, UrlStates, UrlServer, UrlTail
<1> QED BY <1>1, OneMark DEF HeaderKind, DataKinds

LEMMA ScanText ==
    ASSUME ParserInv, TextInv, Here, parser.state \in {"s_header_field", "s_header_value"}, NEW q, q.state = parser.state,
           q.errno = "OK", "F_TRAILING" \in q.flags => "F_TRAILING" \in parser.flags, ScanOn(q)
    PROVE  TextInv'
<1>1. run.pc = "switch" /\ run.pc \notin {"idle", "closed"}
  BY DEF Here
<1>2. run.at \in 1 .. Size /\ Size \in Nat /\ RunTyped(run) /\ run.start \in 0 .. run.at
  BY HereFacts
<1>3. PICK p : p = InScan
  OBVIOUS
<1>4. /\ RunTyped(p) /\ p.pc = run.pc /\ p.at = run.at /\ p.end = run.end /\ p.nread = run.nread
      /\ p.start \in 1 .. run.at /\ p.mark = run.mark /\ (run.start # 0 => p.start = run.start)
      /\ (run.start = 0 => p.start = run.at)
  BY <1>2, <1>3, InScanFacts DEF InScan, RunTyped
<1>5. PICK r : r = [p EXCEPT !.at = @ + 1]
  OBVIOUS
<1>6. /\ r.pc = "switch" /\ r.at = run.at + 1 /\ r.end = run.end /\ r.nread = run.nread /\ r.start = p.start
      /\ r.mark = run.mark
  BY <1>1, <1>4, <1>5 DEF RunTyped
<1>7. Set(q, r)
  BY <1>3, <1>5 DEF ScanOn
<1>8. Handed(q, r, log)
  <2>1. ASSUME NEW k \in DataKinds, StringOf(q.state) = k, LastKind(log) = k
        PROVE  parser.errno \in Resumable /\ StringOf(parser.state) = k /\ Resumes(k, r) = Resumes(k, run)
    <3>1. k = HeaderKind(parser.state)
      <4>1. CASE parser.state = "s_header_field"
        <5>1. "s_header_field" \notin UrlStates \cup BodyMarked
          BY DEF UrlStates, UrlServer, UrlTail, BodyMarked, Identities
        <5> QED BY <2>1, <4>1, <5>1 DEF StringOf, HeaderKind
      <4>2. CASE parser.state = "s_header_value"
        BY <2>1, <4>2, QuietIs DEF Quiet
      <4> QED BY <4>1, <4>2
    <3> QED BY <1>1, <1>6, <2>1, <3>1, HeaderMark, TextHere DEF Resumes, Resumable
  <2>2. r.at \in Nat /\ r.at >= run.at
    BY <1>2, <1>6
  <2> QED BY <1>1, <1>6, <2>1, <2>2, TextHere, HandedOn
<1>9. Counting(q, r, log, pauses)
  <2>1. ASSUME pauses = 0, ~Announced(log)
        PROVE  ~HeadOver(q) /\ Counted(q, r)
    <3>1. ~HeadOver(parser) /\ Counted(parser, run)
      BY <1>1, <2>1, TextHere DEF Counting
    <3>2. ~HeadOver(q)
      BY <3>1 DEF HeadOver
    <3>3. run.nread <= MaxHeaderSize /\ run.nread = p.start
      BY <1>1, <1>4, <3>1 DEF Counted, InCall
    <3> QED BY <1>4, <1>6, <3>2, <3>3 DEF Counted
  <2> QED BY <1>6, <2>1 DEF Counting
<1> QED BY <1>7, <1>8, <1>9, SetText

\* A field or a value has ended, and is handed over.
LEMMA HeaderEndText ==
    ASSUME ParserInv, TextInv, Here, parser.state \in {"s_header_field", "s_header_value"},
           NEW q, NEW n, NEW at \in Nat, Data(HeaderKind(parser.state), q, n, run.at - 1, at),
           RunTyped(n), n.mark = run.mark, n.at >= run.at, at >= run.at, Typed(q), q.errno = "OK", q.state \in Quiet,
           Counting(q, n, log, pauses)
    PROVE  TextInv'
<1>1. run.pc \notin {"idle", "closed"} /\ run.at \in 1 .. Size /\ Size \in Nat
  BY HereFacts DEF Here
<1>2. PICK k \in DataKinds : k = HeaderKind(parser.state)
  BY HeaderMark
<1>3. run.mark[k] # 0 /\ \A j \in DataKinds : run.mark[j] # 0 => j = k
  BY <1>2, HeaderMark
<1>4. run.mark[k] \in Nat /\ run.mark[k] <= run.at
  BY <1>1, <1>3, TextHere DEF Handed
<1>5. k = "header_value" \/ k = StringOf(parser.state)
  <2>1. CASE parser.state = "s_header_field"
    <3>1. "s_header_field" \notin UrlStates \cup BodyMarked
      BY DEF UrlStates, UrlServer, UrlTail, BodyMarked, Identities
    <3> QED BY <1>2, <2>1, <3>1 DEF StringOf, HeaderKind
  <2>2. CASE parser.state = "s_header_value"
    BY <1>2, <2>2 DEF HeaderKind
  <2> QED BY <2>1, <2>2
<1>6. PICK to \in Nat : to = run.at - 1
  BY <1>1
<1>7. Data(k, q, n, to, at)
  BY <1>2, <1>6
<1>8. n.at \in Nat
  BY <1>1 DEF RunTyped
<1> QED BY <1>1, <1>3, <1>4, <1>5, <1>6, <1>7, <1>8, QuietIs, DataText

LEMMA HeaderFieldStartText == ASSUME ParserInv, TextInv, HeaderFieldStart PROVE TextInv'
<1>1. Here /\ parser.state = "s_header_field_start" /\ parser.state \in FieldStates
  BY InHere DEF HeaderFieldStart, FieldStates
<1>2. Typed(parser)
  BY <1>1, HereFacts
<1>3. CASE Reexecute(EndOfHeaders(parser))
  <2>1. PICK q : q = EndOfHeaders(parser)
    OBVIOUS
  <2>2. q.state \in Quiet /\ q.flags = parser.flags /\ q.errno = parser.errno
    BY <1>2, <2>1 DEF EndOfHeaders, Typed, FieldNames, FieldStates, Quiet
  <2>3. Reexecute(q)
    BY <1>3, <2>1
  <2> QED BY <1>1, <2>2, <2>3, QuietText DEF SlowStates
<1>4. CASE Set([parser EXCEPT !.state = "s_header_field",
                   !.header_state = Lookup(FirstLetterRules, "s_header_field", ch, "h_general")],
               Next1(MarkAt(run, "header_field")))
  <2>1. PICK h : h = Lookup(FirstLetterRules, "s_header_field", ch, "h_general")
    OBVIOUS
  <2>2. PICK q : q = [parser EXCEPT !.state = "s_header_field", !.header_state = h]
    OBVIOUS
  <2>3. q.state = "s_header_field" /\ q.flags = parser.flags /\ q.errno = parser.errno
    BY <1>2, <2>2 DEF Typed, FieldNames
  <2>4. PICK r : r = Next1(MarkAt(run, "header_field")) /\ Set(q, r)
    BY <1>4, <2>1, <2>2
  <2>5. LastKind(log) \in BeforeField(parser.flags)
    BY <1>1, HereFacts, Was
  <2>6. MarkedAtEntry(parser.state) = {} /\ parser.state \notin BodyMarked
    BY <1>1, <2>5, FieldStartIs
  <2>7. "header_field" \in DataKinds /\ run.mark["header_field"] = 0
    BY <1>1, <2>6, NoMark DEF DataKinds
  <2>8. StringOf(q.state) # LastKind(log)
    <3>1. "s_header_field" \notin UrlStates \cup BodyMarked
      BY DEF UrlStates, UrlServer, UrlTail, BodyMarked, Identities
    <3>2. StringOf(q.state) = "header_field"
      BY <2>3, <3>1 DEF StringOf
    <3> QED BY <2>5, <3>2 DEF BeforeField
  <2>9. HeadOver(q) => HeadOver(parser)
    BY <2>3 DEF HeadOver, PastHead, ChunkStates, SizeStates, Identities
  <2> QED BY <1>1, <2>3, <2>4, <2>7, <2>8, <2>9, MarkText
<1>5. CASE Refuse
  BY <1>1, <1>5, RefuseText
<1> QED BY <1>3, <1>4, <1>5 DEF HeaderFieldStart

LEMMA ScannedCount ==
    ASSUME RunTyped(run), NEW at
    PROVE  Scanned(at).nread = ScanCount(at)
  BY DEF Scanned, RunTyped

LEMMA HeaderFieldText == ASSUME ParserInv, TextInv, HeaderField PROVE TextInv'
<1>1. Here /\ parser.state = "s_header_field"
  BY InHere DEF HeaderField
<1>2. /\ Typed(parser) /\ run.pc = "switch" /\ parser.errno = "OK" /\ run.at \in 1 .. Size /\ Size \in Nat
      /\ RunTyped(run)
  BY <1>1, HereFacts, TextHere DEF Here
<1>3. CASE ch \in Token
  <2>1. PICK h : h = Lookup(NameRules, parser.header_state, ch, "h_general")
    OBVIOUS
  <2>2. PICK f \in {{"F_TRANSFER_ENCODING"}, {}} :
          f = IF h = "h_transfer_encoding" THEN {"F_TRANSFER_ENCODING"} ELSE {}
    OBVIOUS
  <2>3. PICK q : q = [parser EXCEPT !.header_state = h, !.flags = @ \cup f]
    OBVIOUS
  <2>4. q.state = parser.state /\ q.flags = parser.flags \cup f /\ q.errno = "OK"
    BY <1>2, <2>3 DEF Typed, FieldNames
  <2>5. ScanOn(q)
    BY <1>3, <2>1, <2>2, <2>3 DEF HeaderField
  <2> QED BY <1>1, <2>2, <2>4, <2>5, ScanText
<1>4. CASE Overflow(run.at)
  BY <1>1, <1>2, <1>4, OverflowText
<1>5. CASE /\ ScanCount(run.at) <= MaxHeaderSize
           /\ Data("header_field", To("s_header_value_discard_ws"), Next1(Scanned(run.at)), run.at - 1, run.at + 1)
  <2>1. PICK q : q = To("s_header_value_discard_ws")
    OBVIOUS
  <2>2. Typed(q) /\ q.state \in Quiet /\ q.flags = parser.flags /\ q.errno = "OK"
    BY <1>2, <2>1 DEF To, Typed, FieldNames, DiscardStates, Quiet
  <2>3. PICK p : p = Scanned(run.at)
    OBVIOUS
  <2>4. /\ RunTyped(p) /\ p.at = run.at /\ p.end = run.end /\ p.start = 0 /\ p.mark = run.mark
        /\ p.nread = ScanCount(run.at)
    BY <1>1, <1>2, <2>3, ScannedHere, ScannedCount
  <2>5. PICK n : n = Next1(p)
    OBVIOUS
  <2>6. /\ RunTyped(n) /\ n.pc = "top" /\ n.at = run.at + 1 /\ n.start = 0 /\ n.mark = run.mark
        /\ n.nread = ScanCount(run.at)
    BY <1>2, <2>4, <2>5, MoveRun
  <2>7. Counting(q, n, log, pauses)
    <3>1. ASSUME pauses = 0, ~Announced(log)
          PROVE  ~HeadOver(q) /\ Counted(q, n)
      <4>1. ScanCount(run.at) = run.at /\ ~HeadOver(parser)
        BY <1>2, <3>1, ScanCounts
      <4>2. ~HeadOver(q)
        BY <2>2, <4>1, QuietIs DEF HeadOver
      <4> QED BY <1>2, <1>5, <2>6, <4>1, <4>2 DEF Counted
    <3> QED BY <2>2, <2>6, <3>1 DEF Counting
  <2>8. Data("header_field", q, n, run.at - 1, run.at + 1)
    BY <1>5, <2>1, <2>3, <2>5
  <2>9. HeaderKind(parser.state) = "header_field" /\ run.at + 1 \in Nat /\ n.at >= run.at /\ run.at + 1 >= run.at
    BY <1>1, <1>2, <2>6 DEF HeaderKind
  <2> QED BY <1>1, <2>2, <2>6, <2>7, <2>8, <2>9, HeaderEndText
<1>6. CASE Refuse
  BY <1>1, <1>6, RefuseText
<1>7. ScanCount(run.at) \in Nat /\ MaxHeaderSize \in Nat
  BY <1>1, ScannedHere, ParserAssumption
<1>8. CASE ch \notin Token
  <2>1. CASE ScanCount(run.at) > MaxHeaderSize
    <3>1. ~(ScanCount(run.at) <= MaxHeaderSize)
      BY <1>7, <2>1
    <3> QED BY <1>4, <1>8, <2>1, <3>1 DEF HeaderField
  <2>2. CASE ScanCount(run.at) <= MaxHeaderSize
    <3>1. ~(ScanCount(run.at) > MaxHeaderSize)
      BY <1>7, <2>2
    <3> QED BY <1>5, <1>6, <1>8, <2>2, <3>1 DEF HeaderField
  <2> QED BY <1>7, <2>1, <2>2
<1> QED BY <1>3, <1>8

\* The value of a header starts.
LEMMA ValueStartText ==
    ASSUME ParserInv, TextInv, Here, parser.state \in DiscardStates \cup ValueEndStates, NEW p, Typed(p),
           p.errno = "OK", "F_TRAILING" \in p.flags => "F_TRAILING" \in parser.flags,
           Set([p EXCEPT !.state = "s_header_value"], Next1(MarkAt(run, "header_value")))
    PROVE  TextInv'
<1>1. PICK q : q = [p EXCEPT !.state = "s_header_value"]
  OBVIOUS
<1>2. q.state = "s_header_value" /\ q.flags = p.flags /\ q.errno = "OK"
  BY <1>1 DEF Typed, FieldNames
<1>3. PICK r : r = Next1(MarkAt(run, "header_value")) /\ Set(q, r)
  BY <1>1
<1>4. MarkedAtEntry(parser.state) = {} /\ parser.state \notin BodyMarked
  <2>1. CASE parser.state \in DiscardStates
    BY <2>1, HereFacts, Was, DiscardIs
  <2>2. CASE parser.state \in ValueEndStates
    BY <2>2, HereFacts, Was, ValueEndIs
  <2> QED BY <2>1, <2>2
<1>5. "header_value" \in DataKinds /\ run.mark["header_value"] = 0
  BY <1>4, NoMark DEF DataKinds
<1>6. StringOf(q.state) \notin DataKinds /\ (HeadOver(q) => HeadOver(parser))
  BY <1>2, QuietIs DEF Quiet, HeadOver
<1>7. parser.state \notin {"s_header_field", "s_header_value", "s_message_done"} /\ q.errno = parser.errno
  BY <1>2, TextHere DEF DiscardStates, ValueEndStates, Here
<1> QED BY <1>3, <1>5, <1>6, <1>7, MarkText

LEMMA HeaderValueStartText == ASSUME ParserInv, TextInv, HeaderValueStart PROVE TextInv'
<1>1. Here /\ parser.state \in DiscardStates \cup ValueEndStates /\ parser.state # "s_message_done"
  <2>1. CASE In({"s_header_value_start"})
    BY <2>1, InHere DEF ValueEndStates
  <2>2. CASE In({"s_header_value_discard_ws"})
    BY <2>2, InHere DEF DiscardStates
  <2> QED BY <2>1, <2>2 DEF HeaderValueStart
<1>2. Typed(parser) /\ parser.errno = "OK"
  BY <1>1, TextHere DEF Here
<1>3. CASE Fail("INVALID_CONTENT_LENGTH") \/ Fail("UNEXPECTED_CONTENT_LENGTH")
  BY <1>1, <1>3, FailText DEF Resumable
<1>4. CASE /\ ch \in Digits
           /\ Set([[parser EXCEPT !.flags = @ \cup {"F_CONTENTLENGTH"}, !.content_length = DecimalDigit(ch),
                             !.header_state = "h_content_length_num"] EXCEPT !.state = "s_header_value"],
                  Next1(MarkAt(run, "header_value")))
  <2>1. PICK d \in 0 .. 9 : d = DecimalDigit(ch)
    BY <1>4, Decimal
  <2>2. PICK p : p = [parser EXCEPT !.flags = @ \cup {"F_CONTENTLENGTH"}, !.content_length = d,
                             !.header_state = "h_content_length_num"]
    OBVIOUS
  <2>3. d \in 0 .. ULLONG_MAX /\ "F_CONTENTLENGTH" \in Flags
    BY ParserAssumption DEF Flags
  <2>4. Typed(p) /\ p.errno = "OK" /\ p.flags = parser.flags \cup {"F_CONTENTLENGTH"}
    BY <1>2, <2>2, <2>3 DEF Typed, FieldNames
  <2>5. Set([p EXCEPT !.state = "s_header_value"], Next1(MarkAt(run, "header_value")))
    BY <1>4, <2>1, <2>2
  <2> QED BY <1>1, <2>4, <2>5, ValueStartText
<1>5. CASE Set([[parser EXCEPT !.header_state = Lookup(ValueFirstRules, parser.header_state, ch, "h_general"),
                       !.flags = @ \cup IF parser.header_state = "h_upgrade" THEN {"F_UPGRADE"} ELSE {}]
                     EXCEPT !.state = "s_header_value"],
               Next1(MarkAt(run, "header_value")))
  <2>1. PICK h : h = Lookup(ValueFirstRules, parser.header_state, ch, "h_general")
    OBVIOUS
  <2>2. PICK f \in {{"F_UPGRADE"}, {}} : f = IF parser.header_state = "h_upgrade" THEN {"F_UPGRADE"} ELSE {}
    OBVIOUS
  <2>3. f \subseteq Flags
    BY <2>2 DEF Flags
  <2>4. PICK p : p = [parser EXCEPT !.header_state = h, !.flags = @ \cup f]
    OBVIOUS
  <2>5. Typed(p) /\ p.errno = "OK" /\ p.flags = parser.flags \cup f
    BY <1>2, <2>3, <2>4 DEF Typed, FieldNames
  <2>6. Set([p EXCEPT !.state = "s_header_value"], Next1(MarkAt(run, "header_value")))
    BY <1>5, <2>1, <2>2, <2>4
  <2> QED BY <1>1, <2>2, <2>5, <2>6, ValueStartText
<1> QED BY <1>3, <1>4, <1>5 DEF HeaderValueStart

LEMMA ContentLengthByteText ==
    ASSUME ParserInv, TextInv, Here, parser.state = "s_header_value", ContentLengthByte
    PROVE  TextInv'
<1>1. Typed(parser) /\ parser.errno = "OK"
  BY TextHere DEF Here
<1>2. CASE ScanOn([parser EXCEPT !.header_state = "h_content_length_ws"])
  <2>1. PICK q : q = [parser EXCEPT !.header_state = "h_content_length_ws"]
    OBVIOUS
  <2>2. q.state = parser.state /\ q.flags = parser.flags /\ q.errno = "OK"
    BY <1>1, <2>1 DEF Typed, FieldNames
  <2>3. ScanOn(q)
    BY <1>2, <2>1
  <2> QED BY <2>2, <2>3, ScanText
<1>3. CASE ScanOn([parser EXCEPT !.content_length = Widen(10, DecimalDigit(ch))])
  <2>1. PICK n, q : n = Widen(10, DecimalDigit(ch)) /\ q = [parser EXCEPT !.content_length = n]
    OBVIOUS
  <2>2. q.state = parser.state /\ q.flags = parser.flags /\ q.errno = "OK"
    BY <1>1, <2>1 DEF Typed, FieldNames
  <2>3. ScanOn(q)
    BY <1>3, <2>1
  <2> QED BY <2>2, <2>3, ScanText
<1>4. CASE Fail("INVALID_CONTENT_LENGTH")
  BY <1>4, FailText DEF Resumable
<1> QED BY <1>2, <1>3, <1>4 DEF ContentLengthByte

\* A CR ends the value: nread is counted in the next step.
LEMMA ValueCrText ==
    ASSUME ParserInv, TextInv, Here, parser.state = "s_header_value",
           Data("header_value", To("s_header_almost_done"), [InScan EXCEPT !.pc = "scanned"], run.at - 1, run.at + 1)
    PROVE  TextInv'
<1>1. /\ Typed(parser) /\ run.pc = "switch" /\ parser.errno = "OK" /\ run.at \in 1 .. Size /\ Size \in Nat
      /\ RunTyped(run) /\ run.start \in 0 .. run.at
  BY HereFacts, TextHere DEF Here
<1>2. PICK q : q = To("s_header_almost_done")
  OBVIOUS
<1>3. Typed(q) /\ q.state = "s_header_almost_done" /\ q.flags = parser.flags /\ q.errno = "OK"
  BY <1>1, <1>2 DEF To, Typed, FieldNames
<1>4. q.state \in Quiet
  BY <1>3 DEF ValueEndStates, Quiet
<1>5. PICK p : p = InScan
  OBVIOUS
<1>6. /\ RunTyped(p) /\ p.pc = run.pc /\ p.at = run.at /\ p.end = run.end /\ p.nread = run.nread
      /\ p.start \in 1 .. run.at /\ p.mark = run.mark /\ (run.start # 0 => p.start = run.start)
      /\ (run.start = 0 => p.start = run.at)
  BY <1>1, <1>5, InScanFacts DEF InScan, RunTyped
<1>7. PICK n : n = [p EXCEPT !.pc = "scanned"]
  OBVIOUS
<1>8. /\ RunTyped(n) /\ n.pc = "scanned" /\ n.at = run.at /\ n.nread = run.nread /\ n.start = p.start
      /\ n.mark = run.mark
  BY <1>6, <1>7 DEF RunTyped, Places
<1>9. Counting(q, n, log, pauses)
  <2>1. ASSUME pauses = 0, ~Announced(log)
        PROVE  ~HeadOver(q) /\ Counted(q, n)
    <3>1. ~HeadOver(parser) /\ Counted(parser, run)
      BY <1>1, <2>1, TextHere DEF Counting
    <3>2. ~HeadOver(q)
      BY <1>3, <1>4, <3>1, QuietIs DEF HeadOver
    <3>3. run.nread <= MaxHeaderSize /\ run.nread = p.start
      BY <1>1, <1>6, <3>1 DEF Counted, InCall
    <3> QED BY <1>6, <1>8, <3>2, <3>3 DEF Counted
  <2> QED BY <1>3, <1>8, <2>1 DEF Counting
<1>10. Data("header_value", q, n, run.at - 1, run.at + 1)
  BY <1>2, <1>5, <1>7
<1>11. HeaderKind(parser.state) = "header_value" /\ run.at + 1 \in Nat /\ n.at >= run.at /\ run.at + 1 >= run.at
  BY <1>1, <1>8 DEF HeaderKind
<1> QED BY <1>3, <1>4, <1>8, <1>9, <1>10, <1>11, HeaderEndText

\* An LF ends it: nread has been counted, and the LF is executed again.
LEMMA ValueLfText ==
    ASSUME ParserInv, TextInv, Here, parser.state = "s_header_value", ScanCount(run.at) <= MaxHeaderSize,
           Data("header_value", To("s_header_almost_done"), Again(Scanned(run.at)), run.at - 1, run.at)
    PROVE  TextInv'
<1>1. /\ Typed(parser) /\ run.pc = "switch" /\ parser.errno = "OK" /\ run.at \in 1 .. Size /\ Size \in Nat
      /\ RunTyped(run)
  BY HereFacts, TextHere DEF Here
<1>2. PICK q : q = To("s_header_almost_done")
  OBVIOUS
<1>3. Typed(q) /\ q.state = "s_header_almost_done" /\ q.flags = parser.flags /\ q.errno = "OK"
  BY <1>1, <1>2 DEF To, Typed, FieldNames
<1>4. q.state \in Quiet
  BY <1>3 DEF ValueEndStates, Quiet
<1>5. PICK p : p = Scanned(run.at)
  OBVIOUS
<1>6. /\ RunTyped(p) /\ p.at = run.at /\ p.start = 0 /\ p.mark = run.mark /\ p.nread = ScanCount(run.at)
  BY <1>1, <1>5, ScannedHere, ScannedCount
<1>7. PICK n : n = Again(p)
  OBVIOUS
<1>8. /\ RunTyped(n) /\ n.pc = "switch" /\ n.at = run.at /\ n.start = 0 /\ n.mark = run.mark
      /\ n.nread = ScanCount(run.at)
  BY <1>1, <1>6, <1>7, MoveRun
<1>9. Counting(q, n, log, pauses)
  <2>1. ASSUME pauses = 0, ~Announced(log)
        PROVE  ~HeadOver(q) /\ Counted(q, n)
    <3>1. ScanCount(run.at) = run.at /\ ~HeadOver(parser)
      BY <1>1, <2>1, ScanCounts
    <3>2. ~HeadOver(q)
      BY <1>3, <1>4, <3>1, QuietIs DEF HeadOver
    <3> QED BY <1>8, <3>1, <3>2 DEF Counted
  <2> QED BY <1>3, <1>8, <2>1 DEF Counting
<1>10. Data("header_value", q, n, run.at - 1, run.at)
  BY <1>2, <1>5, <1>7
<1>11. HeaderKind(parser.state) = "header_value" /\ run.at \in Nat /\ n.at >= run.at /\ run.at >= run.at
  BY <1>1, <1>8 DEF HeaderKind
<1> QED BY <1>3, <1>4, <1>8, <1>9, <1>10, <1>11, HeaderEndText

LEMMA HeaderValueText == ASSUME ParserInv, TextInv, HeaderValue PROVE TextInv'
<1>1. Here /\ parser.state = "s_header_value"
  BY InHere DEF HeaderValue
<1>2. Typed(parser) /\ parser.errno = "OK" /\ run.at \in Nat /\ run.at >= run.at /\ run.pc \notin {"idle", "closed"}
  BY <1>1, TextHere DEF Here
<1>3. CASE ch = CR
  BY <1>1, <1>3, ValueCrText DEF HeaderValue, CR, LF
<1>4. CASE ch = LF
  <2>1. CASE ScanCount(run.at) > MaxHeaderSize
    <3>1. ~(ScanCount(run.at) <= MaxHeaderSize)
      BY <1>1, <2>1, ScannedHere, ParserAssumption
    <3>2. Overflow(run.at)
      BY <1>4, <2>1, <3>1 DEF HeaderValue, CR, LF
    <3> QED BY <1>1, <1>2, <3>2, OverflowText
  <2>2. CASE ~(ScanCount(run.at) > MaxHeaderSize)
    <3>1. ScanCount(run.at) <= MaxHeaderSize
      BY <1>1, <2>2, ScannedHere, ParserAssumption
    <3> QED BY <1>1, <1>4, <2>2, <3>1, ValueLfText DEF HeaderValue, CR, LF
  <2> QED BY <2>1, <2>2
<1>5. CASE Fail("INVALID_HEADER_TOKEN")
  BY <1>1, <1>5, FailText DEF Resumable
<1>6. CASE ContentLengthByte
  BY <1>1, <1>6, ContentLengthByteText
<1>7. CASE ScanOn([parser EXCEPT
              !.header_state = Lookup(TransferRules \cup ConnectionRules, parser.header_state, ch, "h_general"),
              !.flags = @ \cup IF ch = "," THEN ConnectionFlag(parser.header_state) ELSE {}])
  <2>1. PICK h : h = Lookup(TransferRules \cup ConnectionRules, parser.header_state, ch, "h_general")
    OBVIOUS
  <2>2. PICK f : f = IF ch = "," THEN ConnectionFlag(parser.header_state) ELSE {}
    OBVIOUS
  <2>3. "F_TRAILING" \notin f
    BY <2>2, NoTrailing
  <2>4. PICK q : q = [parser EXCEPT !.header_state = h, !.flags = @ \cup f]
    OBVIOUS
  <2>5. q.state = parser.state /\ q.flags = parser.flags \cup f /\ q.errno = "OK"
    BY <1>2, <2>4 DEF Typed, FieldNames
  <2>6. ScanOn(q)
    BY <1>7, <2>1, <2>2, <2>4
  <2> QED BY <1>1, <2>3, <2>5, <2>6, ScanText
<1> QED BY <1>3, <1>4, <1>5, <1>6, <1>7 DEF HeaderValue

LEMMA HeaderValueLwsText == ASSUME ParserInv, TextInv, HeaderValueLws PROVE TextInv'
<1>1. Here /\ parser.state = "s_header_value_lws"
  <2>1. In({"s_header_value_lws"})
    BY DEF HeaderValueLws
  <2> QED BY <2>1, InHere
<1>2. Typed(parser) /\ parser.state \notin SlowStates
  BY <1>1, HereFacts DEF SlowStates
<1>3. CASE ch = " "
  <2>1. PICK h : h = IF parser.header_state = "h_content_length_num" THEN "h_content_length_ws"
                     ELSE parser.header_state
    OBVIOUS
  <2>2. PICK q : q = [parser EXCEPT !.state = "s_header_value_start", !.header_state = h]
    OBVIOUS
  <2>3. q.state = "s_header_value_start" /\ q.flags = parser.flags /\ q.errno = parser.errno
    BY <1>2, <2>2 DEF Typed, FieldNames
  <2>4. Reexecute(q)
    BY <1>3, <2>1, <2>2 DEF HeaderValueLws
  <2>5. q.state \in Quiet
    BY <2>3 DEF ValueEndStates, Quiet
  <2> QED BY <1>1, <1>2, <2>3, <2>4, <2>5, QuietText
<1>4. CASE ch # " "
  <2>1. PICK f : f = ValueFlags(parser.header_state)
    OBVIOUS
  <2>2. "F_TRAILING" \notin f
    BY <2>1, NoTrailing
  <2>3. PICK q : q = [parser EXCEPT !.state = "s_header_field_start", !.flags = @ \cup f]
    OBVIOUS
  <2>4. q.state = "s_header_field_start" /\ q.flags = parser.flags \cup f /\ q.errno = parser.errno
    BY <1>2, <2>3 DEF Typed, FieldNames
  <2>5. Reexecute(q)
    BY <1>4, <2>1, <2>3 DEF HeaderValueLws
  <2>6. q.state \in Quiet
    BY <2>4 DEF FieldStates, Quiet
  <2> QED BY <1>1, <1>2, <2>2, <2>4, <2>5, <2>6, QuietText
<1> QED BY <1>3, <1>4

LEMMA HeaderValueDiscardLwsText == ASSUME ParserInv, TextInv, HeaderValueDiscardLws PROVE TextInv'
<1>1. Here /\ parser.state \in DiscardStates /\ parser.state \notin SlowStates
  <2>1. In({"s_header_value_discard_lws"})
    BY DEF HeaderValueDiscardLws
  <2> QED BY <2>1, InHere DEF DiscardStates, SlowStates
<1>2. /\ Typed(parser) /\ run.pc = "switch" /\ parser.errno = "OK" /\ run.at \in 1 .. Size /\ Size \in Nat
      /\ RunTyped(run) /\ run.start = 0
  BY <1>1, HereFacts, TextHere DEF Here, SlowStates
<1>3. CASE Fail("INVALID_CONTENT_LENGTH")
  BY <1>1, <1>3, FailText DEF Resumable, SlowStates
<1>4. CASE Call([parser EXCEPT !.state = "s_header_field_start", !.flags = @ \cup ValueFlags(parser.header_state)],
                Again(run), Piece("header_value", run.at, run.at - 1), Idle(run.at))
  <2>1. PICK f : f = ValueFlags(parser.header_state)
    OBVIOUS
  <2>2. f \subseteq Flags /\ "F_TRAILING" \notin f
    BY <2>1, NoTrailing
  <2>3. PICK q : q = [parser EXCEPT !.state = "s_header_field_start", !.flags = @ \cup f]
    OBVIOUS
  <2>4. Typed(q) /\ q.state = "s_header_field_start" /\ q.flags = parser.flags \cup f /\ q.errno = "OK"
    BY <1>2, <2>2, <2>3 DEF Typed, FieldNames
  <2>5. q.state \in Quiet
    BY <2>4 DEF FieldStates, Quiet
  <2>6. PICK r : r = Again(run)
    OBVIOUS
  <2>7. /\ r.pc = "switch" /\ r.at = run.at /\ r.nread = run.nread /\ r.start = 0 /\ r.mark = run.mark
    BY <1>2, <2>6, MoveRun
  <2>8. MarkedAtEntry(parser.state) = {} /\ parser.state \notin BodyMarked
    BY <1>1, HereFacts, Was, DiscardIs
  <2>9. \A j \in DataKinds : r.mark[j] = 0
    BY <1>1, <2>7, <2>8, NoMark
  <2>10. PICK from \in Nat \ {0}, to \in Nat, at \in Nat : from = run.at /\ to = run.at - 1 /\ at = run.at
    BY <1>2
  <2>11. Call(q, r, Piece("header_value", from, to), Idle(at))
    BY <1>4, <2>1, <2>3, <2>6, <2>10
  <2>12. AllBefore(log, from)
    BY <1>1, <1>2, <2>10, TextHere DEF Handed, Beyond, SlowStates
  <2>13. Counting(q, r, log, pauses)
    <3>1. HeadOver(parser) \/ ~HeadOver(q)
      BY <2>2, <2>4, <2>5, QuietIs DEF HeadOver
    <3> QED BY <1>2, <2>4, <2>7, <3>1, TextHere, CountGo
  <2>14. /\ "header_value" \in DataKinds /\ to <= Size /\ from <= to + 1 /\ r.at \in Nat /\ r.at >= to + 1 /\ at >= to + 1
         /\ run.pc \notin {"idle", "closed"}
    BY <1>2, <2>7, <2>10 DEF DataKinds
  <2> QED BY <2>4, <2>5, <2>9, <2>11, <2>12, <2>13, <2>14, QuietIs, PieceHanded
<1> QED BY <1>3, <1>4 DEF HeaderValueDiscardLws

LEMMA HeadersAlmostDoneText == ASSUME ParserInv, TextInv, HeadersAlmostDone PROVE TextInv'
<1>1. Here /\ parser.state = "s_headers_almost_done" /\ parser.state \notin SlowStates
  BY InHere DEF HeadersAlmostDone, SlowStates
<1>2. Typed(parser) /\ parser.errno = "OK" /\ run.nread \in Nat
  BY <1>1, TextHere, HereFacts DEF Here
<1>3. CASE Refuse
  BY <1>1, <1>3, RefuseText
<1>4. CASE Fail("UNEXPECTED_CONTENT_LENGTH")
  BY <1>1, <1>4, FailText DEF Resumable
<1>5. CASE InTrailer(parser) /\ NotifyAgain("chunk_complete", To("s_message_done"))
  <2>1. PICK q : q = To("s_message_done")
    OBVIOUS
  <2>2. Typed(q) /\ q.errno = "OK"
    BY <1>2, <2>1 DEF To, Typed, FieldNames
  <2>3. NotifyAgain("chunk_complete", q) /\ "chunk_complete" \in Notices
    BY <1>5, <2>1 DEF Notices
  <2>4. HeadOver(parser)
    BY <1>5 DEF InTrailer, HeadOver
  <2> QED BY <1>1, <2>2, <2>3, <2>4, NotifyText
<1>6. CASE NotifyAgain("headers_complete",
              [parser EXCEPT !.state = "s_headers_done", !.nread = run.nread,
                  !.upgrade = UpgradeOf(parser) \/ stream.skip = 2,
                  !.flags = @ \cup IF stream.skip > 0 THEN {"F_SKIPBODY"} ELSE {}])
  <2>1. PICK f : f = IF stream.skip > 0 THEN {"F_SKIPBODY"} ELSE {}
    OBVIOUS
  <2>2. f \subseteq Flags
    BY <2>1 DEF Flags
  <2>3. PICK u : u = (UpgradeOf(parser) \/ stream.skip = 2)
    OBVIOUS
  <2>4. PICK q : q = [parser EXCEPT !.state = "s_headers_done", !.nread = run.nread, !.upgrade = u,
                         !.flags = @ \cup f]
    OBVIOUS
  <2>5. Typed(q) /\ q.errno = "OK"
    BY <1>2, <2>2, <2>4 DEF Typed, FieldNames
  <2>6. NotifyAgain("headers_complete", q) /\ "headers_complete" \in Notices
    BY <1>6, <2>1, <2>3, <2>4 DEF Notices
  <2> QED BY <1>1, <2>5, <2>6, NotifyText
<1>7. ch = LF /\ InTrailer(parser) => NotifyAgain("chunk_complete", To("s_message_done"))
  BY DEF HeadersAlmostDone
<1> QED BY <1>3, <1>4, <1>5, <1>6, <1>7 DEF HeadersAlmostDone

\* The message has ended: what it was read with does not matter any more.
LEMMA EndMessageText ==
    ASSUME ParserInv, TextInv, Here, PendingOf(run) = {}, HeadOver(parser), parser.state \notin {"s_header_field", "s_header_value"},
           NEW p, Typed(p), p.errno = "OK", NEW r, RunTyped(r), r.at = run.at, r.start = run.start, r.mark = run.mark,
           EndMessage(p, r)
    PROVE  TextInv'
<1>1. /\ run.at \in 1 .. Size /\ Size \in Nat /\ run.start = 0 /\ r.nread \in Nat /\ InCall(run)
      /\ run.pc \notin {"idle", "closed"}
  BY HereFacts, TextHere DEF RunTyped, Here, InCall
<1>2. PICK s \in StartStates : s = IF ~http_should_keep_alive(p) THEN "s_dead"
                                   ELSE IF p.type = "REQUEST" THEN "s_start_req" ELSE "s_start_res"
  BY DEF StartStates
<1>3. PICK t : t = [p EXCEPT !.state = s]
  OBVIOUS
<1>4. Typed(t) /\ t.errno = "OK" /\ t = NewMessage(p)
  BY <1>2, <1>3 DEF Typed, FieldNames, NewMessage
<1>5. PICK q : q = [t EXCEPT !.nread = IF p.upgrade THEN r.nread ELSE @]
  OBVIOUS
<1>6. Typed(q) /\ q.errno = "OK"
  BY <1>1, <1>4, <1>5 DEF Typed, FieldNames
<1>7. PICK n : n = IF p.upgrade THEN Idle(run.at + 1) ELSE Next1(r)
  OBVIOUS
<1>8. n.at = run.at + 1 /\ n.start = 0 /\ \A j \in DataKinds : n.mark[j] = 0
  <2>1. CASE p.upgrade
    BY <1>7, <2>1 DEF Idle, NoMarks
  <2>2. CASE ~p.upgrade
    BY <1>1, <1>7, <2>2, MoveRun DEF PendingOf
  <2> QED BY <2>1, <2>2
<1>9. PICK at \in {run.at, run.at + 1} : at = run.at + 1
  OBVIOUS
<1>10. Call(q, n, <<<<"message_complete">>>>, Idle(at)) /\ "message_complete" \in Notices
  BY <1>4, <1>5, <1>7, <1>9 DEF EndMessage, Notices
<1>11. Counting(q, n, log \o <<<<"message_complete">>>>, pauses)
  <2>1. PICK ev : ev = <<<<"message_complete">>>>
    OBVIOUS
  <2>2. ev \in Seq(Events)
    <3>1. PICK e \in Events : e = <<"message_complete">>
      BY DEF Events, Notices
    <3> QED BY <2>1, <3>1
  <2>3. Announced(log) => Announced(log \o ev)
    BY <1>1, <2>2, TextHere, StillAnnounced
  <2> QED BY <1>1, <1>6, <1>8, <2>1, <2>3, TextHere, CountOver
<1> QED BY <1>6, <1>8, <1>9, <1>10, <1>11, NoticeText

LEMMA HeadersDoneText == ASSUME ParserInv, TextInv, HeadersDone PROVE TextInv'
<1>1. Here /\ parser.state = "s_headers_done" /\ HeadOver(parser)
  BY InHere DEF HeadersDone, HeadOver, PastHead
<1>2. /\ Typed(parser) /\ parser.errno = "OK" /\ RunTyped(run) /\ run.at \in 1 .. Size /\ Size \in Nat /\ run.start = 0
      /\ InCall(run) /\ run.pc \notin {"idle", "closed"}
  BY <1>1, HereFacts, TextHere DEF Here, InCall
<1>3. LastKind(log) = "headers_complete"
  BY <1>1, HereFacts, Was
<1>4. PendingOf(run) = {}
  BY <1>1, <1>3, HeadersDoneIs, HereFacts
<1>5. PICK q : q = [parser EXCEPT !.nread = 0]
  OBVIOUS
<1>6. Typed(q) /\ q.errno = "OK"
  BY <1>2, <1>5 DEF Typed, FieldNames
<1>7. PICK r : r = [run EXCEPT !.nread = 0]
  OBVIOUS
<1>8. /\ RunTyped(r) /\ r.at = run.at /\ r.end = run.end /\ r.start = run.start /\ r.mark = run.mark
  BY <1>2, <1>7, ResetRun
<1>9. CASE EndMessage(q, r)
  BY <1>1, <1>4, <1>6, <1>8, <1>9, EndMessageText
<1>10. ASSUME NEW s, Set([q EXCEPT !.state = s], Next1(r))
       PROVE  TextInv'
  <2>1. PICK t : t = [q EXCEPT !.state = s]
    OBVIOUS
  <2>2. t.errno = "OK"
    BY <1>6, <2>1 DEF Typed, FieldNames
  <2>3. PICK n : n = Next1(r)
    OBVIOUS
  <2>4. n.at = run.at + 1 /\ n.end = run.end /\ n.start = 0 /\ n.mark = run.mark
    BY <1>2, <1>8, <2>3, MoveRun
  <2>5. Handed(t, n, log)
    <3>1. n.at \in Nat /\ n.at >= run.at /\ n.at > run.at
      BY <1>2, <2>4
    <3>2. \A k \in DataKinds : LastKind(log) # k
      BY <1>3 DEF DataKinds
    <3> QED BY <1>2, <2>4, <3>1, <3>2, TextHere, HandedOn
  <2>6. Counting(t, n, log, pauses)
    BY <1>1, <1>2, <2>2, <2>4, TextHere, CountOver
  <2>7. Set(t, n)
    BY <1>10, <2>1, <2>3
  <2> QED BY <2>5, <2>6, <2>7, SetText
<1>11. CASE Set([q EXCEPT !.errno = "INVALID_TRANSFER_ENCODING"], Idle(run.at))
  <2>1. PICK t : t = [parser EXCEPT !.errno = "INVALID_TRANSFER_ENCODING", !.nread = 0]
    OBVIOUS
  <2>2. t = [q EXCEPT !.errno = "INVALID_TRANSFER_ENCODING"]
    BY <1>2, <1>5, <2>1, ZenonT(40) DEF Typed, FieldNames
  <2>3. Set([parser EXCEPT !.errno = "INVALID_TRANSFER_ENCODING", !.nread = 0], Idle(run.at))
    BY <1>11, <2>1, <2>2
  <2>4. run.at \in Nat /\ run.at >= run.at
    BY <1>2
  <2> QED BY <1>1, <1>2, <2>3, <2>4, ErrorText DEF Resumable
<1>12. \/ EndMessage(q, r)
       \/ \E s : Set([q EXCEPT !.state = s], Next1(r))
       \/ Set([q EXCEPT !.errno = "INVALID_TRANSFER_ENCODING"], Idle(run.at))
  <2>1. \/ EndMessage(q, r)
        \/ Set([q EXCEPT !.state = "s_chunk_size_start"], Next1(r))
        \/ Set([q EXCEPT !.errno = "INVALID_TRANSFER_ENCODING"], Idle(run.at))
        \/ Set([q EXCEPT !.state = "s_body_identity_eof"], Next1(r))
        \/ Set([q EXCEPT !.state = "s_body_identity"], Next1(r))
    BY <1>5, <1>7 DEF HeadersDone
  <2> QED BY <2>1
<1> QED BY <1>9, <1>10, <1>11, <1>12

LEMMA HeadersText == ASSUME ParserInv, TextInv, Headers PROVE TextInv'
  BY HeaderFieldStartText, HeaderFieldText, HeaderValueStartText, HeaderValueText, HeaderValueLwsText,
     HeaderValueDiscardLwsText, HeadersAlmostDoneText, HeadersDoneText DEF Headers

-------------------------------------------------------------------------------
(* The body keeps it                                                       *)

LEMMA BodyString ==
    ASSUME NEW s \in BodyMarked
    PROVE  StringOf(s) = "body" /\ s \in PastHead /\ s \notin SlowStates /\ MarkedAtEntry(s) = {}
<1>1. s \notin UrlStates /\ s \notin {"s_header_field", "s_header_value", "s_res_status", "s_message_done"} /\ s \in PastHead
  BY DEF UrlStates, UrlServer, UrlTail, BodyMarked, Identities, PastHead, ChunkStates
<1>2. StringOf(s) = "body"
  BY <1>1 DEF StringOf
<1>3. MarkedAtEntry(s) = {}
  BY <1>1 DEF MarkedAtEntry
<1> QED BY <1>1, <1>2, <1>3 DEF SlowStates

\* The body is marked where it resumes.
LEMMA BodyMark ==
    ASSUME ParserInv, TextInv, Here, parser.state \in BodyMarked, NEW last \in run.at .. run.end,
           NEW r, r = [MarkAt(run, "body") EXCEPT !.at = last]
    PROVE  /\ RunTyped(r) /\ r.pc = "switch" /\ r.at = last /\ r.end = run.end /\ r.start = 0
           /\ r.mark["body"] = Resumes("body", run) /\ r.mark["body"] # 0 /\ r.mark["body"] \in 1 .. run.at
           /\ \A k \in DataKinds : k # "body" => r.mark[k] = 0 /\ run.mark[k] = 0
           /\ last \in 1 .. Size /\ run.at \in 1 .. Size /\ Size \in Nat /\ run.end \in 1 .. Size
<1>1. /\ RunTyped(r) /\ r.pc = "switch" /\ r.at = last /\ r.end = run.end /\ r.start = run.start
      /\ PendingOf(r) = PendingOf(run) \cup {"body"} /\ r.mark["body"] \in 1 .. Size /\ last \in 1 .. Size
  BY BodyRun
<1>2. run.at \in 1 .. Size /\ Size \in Nat /\ RunTyped(run) /\ run.start = 0 /\ run.end \in 1 .. Size
  BY HereFacts, TextHere, BodyString DEF Here, SlowStates
<1>3. PendingOf(run) \ {"body"} = {}
  BY HereFacts, BodyString
<1>4. \A k \in DataKinds : k # "body" => r.mark[k] = 0 /\ run.mark[k] = 0
  BY <1>1, <1>3 DEF PendingOf
<1>5. r.mark["body"] = Resumes("body", run)
  <2>1. "body" \in DataKinds
    BY DEF DataKinds
  <2>2. CASE run.mark["body"] = 0
    BY <1>2, <2>1, <2>2 DEF MarkAt, Resumes, RunTyped
  <2>3. CASE run.mark["body"] # 0
    BY <1>2, <2>1, <2>3 DEF MarkAt, Resumes, RunTyped
  <2> QED BY <2>2, <2>3
<1>6. r.mark["body"] <= run.at
  <2>1. "body" \in DataKinds /\ Handed(parser, run, log)
    BY TextHere DEF DataKinds, Here
  <2>2. run.mark["body"] # 0 => run.mark["body"] <= run.at
    BY <2>1 DEF Handed
  <2> QED BY <1>2, <1>5, <2>2 DEF Resumes
<1> QED BY <1>1, <1>2, <1>4, <1>5, <1>6

LEMMA BodyGoesOnText ==
    ASSUME ParserInv, TextInv, Here, parser.state \in BodyMarked, NEW last \in run.at .. run.end,
           NEW q, q.errno = "OK", q.state \in BodyMarked,
           Set(q, Next1([MarkAt(run, "body") EXCEPT !.at = last]))
    PROVE  TextInv'
<1>1. PICK p : p = [MarkAt(run, "body") EXCEPT !.at = last]
  OBVIOUS
<1>2. /\ RunTyped(p) /\ p.at = last /\ p.end = run.end /\ p.start = 0
      /\ p.mark["body"] = Resumes("body", run) /\ p.mark["body"] # 0
      /\ \A k \in DataKinds : k # "body" => p.mark[k] = 0
      /\ last \in 1 .. Size /\ run.at \in 1 .. Size /\ Size \in Nat /\ run.end \in 1 .. Size
  BY <1>1, BodyMark, ZenonT(40)
<1>3. PICK r : r = Next1(p)
  OBVIOUS
<1>4. r.at = last + 1 /\ r.end = run.end /\ r.start = 0 /\ r.mark = p.mark
  BY <1>2, <1>3, MoveRun
<1>5. InCall(run) /\ run.pc \notin {"idle", "closed"} /\ run.at <= run.end
  BY DEF Here, InCall
<1>6. Handed(q, r, log)
  <2>1. r.at \in Nat /\ r.at >= run.at /\ r.at > run.at
    BY <1>2, <1>4
  <2>2. r.mark["body"] = run.mark["body"] \/ r.mark["body"] = run.at
    BY <1>2, <1>4 DEF Resumes
  <2>3. \A k \in DataKinds : StringOf(q.state) = k => k = "body" /\ StringOf(parser.state) = k
    BY BodyString
  <2>4. Resumes("body", r) = Resumes("body", run)
    BY <1>2, <1>4 DEF Resumes
  <2>5. parser.state # "s_message_done" /\ parser.errno \in Resumable
    BY <1>5, BodyString, TextHere DEF SlowStates, Resumable
  <2>6. ASSUME NEW k \in DataKinds
        PROVE  \/ r.mark[k] = 0
               \/ r.end = run.end /\ (r.mark[k] = run.mark[k] \/ (r.mark[k] = run.at /\ run.at <= run.end /\ parser.state # "s_message_done"))
    BY <1>2, <1>4, <1>5, <2>2, <2>5
  <2> QED BY <1>5, <2>1, <2>3, <2>4, <2>5, <2>6, TextHere, HandedOn
<1>7. Counting(q, r, log, pauses)
  <2>1. HeadOver(parser)
    BY BodyString DEF HeadOver
  <2> QED BY <1>4, <1>5, <2>1, TextHere, CountOver
<1>8. Set(q, r)
  BY <1>1, <1>3
<1> QED BY <1>6, <1>7, <1>8, SetText

LEMMA BodyIdentityText == ASSUME ParserInv, TextInv, BodyIdentity PROVE TextInv'
<1>1. Here /\ parser.state = "s_body_identity" /\ parser.state \in BodyMarked
  BY InHere DEF BodyIdentity, Identities, BodyMarked
<1>2. Typed(parser) /\ parser.errno = "OK" /\ InCall(run) /\ run.pc \notin {"idle", "closed"}
      /\ ParserOK(parser, LastKind(log))
  BY <1>1, TextHere, HereFacts DEF Here, InCall
<1>3. parser.content_length \in 1 .. ULLONG_MAX - 1 /\ ULLONG_MAX \in Nat
  BY <1>1, <1>2, ParserAssumption DEF ParserOK, Sound, Asserted
<1>4. ToRead \in Nat \ {0} /\ ToRead <= parser.content_length /\ LastRead \in run.at .. run.end
  BY <1>1, <1>3, ToReadFacts
<1>5. PICK n \in 0 .. ULLONG_MAX - 1 : n = parser.content_length - ToRead
  BY <1>3, <1>4
<1>6. PICK q : q = [parser EXCEPT !.content_length = n]
  OBVIOUS
<1>7. Typed(q) /\ q.state = parser.state /\ q.errno = "OK" /\ q.content_length = n
  BY <1>2, <1>3, <1>5, <1>6 DEF Typed, FieldNames
<1>8. CASE n > 0
  <2>1. Set(q, Next1([MarkAt(run, "body") EXCEPT !.at = LastRead]))
    BY <1>5, <1>6, <1>7, <1>8 DEF BodyIdentity
  <2> QED BY <1>1, <1>4, <1>7, <2>1, BodyGoesOnText
<1>9. CASE ~(n > 0)
  <2>1. PICK t : t = [q EXCEPT !.state = "s_message_done"]
    OBVIOUS
  <2>2. Typed(t) /\ t.state = "s_message_done" /\ t.errno = "OK"
    BY <1>7, <2>1 DEF Typed, FieldNames
  <2>0. PICK last \in run.at .. run.end : last = LastRead
    BY <1>4
  <2>3. PICK p : p = [MarkAt(run, "body") EXCEPT !.at = last]
    OBVIOUS
  <2>4. /\ RunTyped(p) /\ p.pc = "switch" /\ p.at = last /\ p.start = 0
        /\ p.mark["body"] = Resumes("body", run) /\ p.mark["body"] \in 1 .. run.at
        /\ \A k \in DataKinds : k # "body" => p.mark[k] = 0
        /\ last \in 1 .. Size /\ run.at \in 1 .. Size /\ Size \in Nat
    BY <1>1, <2>3, BodyMark, ZenonT(40)
  <2>5. PICK a : a = Again(p)
    OBVIOUS
  <2>6. RunTyped(a) /\ a.at = last /\ a.start = 0 /\ a.mark = p.mark
    BY <2>4, <2>5, MoveRun
  <2>7. PICK r : r = MarkCleared(a, "body")
    OBVIOUS
  <2>8. "body" \in DataKinds
    BY DEF DataKinds
  <2>9. RunTyped(r) /\ r.at = last /\ r.start = 0 /\ PendingOf(r) = PendingOf(a) \ {"body"}
    BY <2>4, <2>6, <2>7, <2>8, ClearedRun
  <2>10. \A j \in DataKinds : r.mark[j] = 0
    BY <2>4, <2>6, <2>9 DEF PendingOf
  <2>11. PICK from \in Nat \ {0}, to \in Nat : from = p.mark["body"] /\ to = last
    BY <2>4
  <2>12. AllBefore(log, from) /\ (LastKind(log) = "body" => EndsBefore(log, from))
    <3>1. Handed(parser, run, log) /\ StringOf(parser.state) = "body" /\ parser.state # "s_message_done"
      BY <1>1, <1>2, TextHere, BodyString DEF SlowStates
    <3>2. LastKind(log) = "body" => EndsBefore(log, from)
      BY <1>2, <2>4, <2>8, <2>11, <3>1 DEF Handed
    <3>3. AllBefore(log, from)
      <4>1. CASE run.mark["body"] # 0
        BY <2>4, <2>8, <2>11, <3>1, <4>1 DEF Handed, Resumes
      <4>2. CASE run.mark["body"] = 0
        BY <2>4, <2>11, <3>1, <4>2 DEF Handed, Resumes, Beyond
      <4> QED BY <4>1, <4>2
    <3> QED BY <3>2, <3>3
  <2>13. Call(t, r, Piece("body", from, to), Idle(to))
    BY <1>5, <1>6, <1>7, <1>9, <2>0, <2>1, <2>3, <2>5, <2>7, <2>11 DEF BodyIdentity
  <2>14. Counting(t, r, log, pauses)
    <3>1. HeadOver(parser)
      BY <1>1, BodyString DEF HeadOver
    <3> QED BY <1>2, <2>2, <2>9, <3>1, TextHere, CountOver
  <2>15. to <= Size /\ from <= to + 1 /\ r.at \in Nat /\ r.at >= to /\ to >= to
    BY <2>4, <2>9, <2>11
  <2>16. StringOf(t.state) \notin DataKinds
    <3>1. "s_message_done" \notin UrlStates /\ "s_message_done" \notin BodyMarked
      BY UrlString, BodyString DEF SlowStates
    <3> QED BY <2>2, <3>1, NoString
  <2> QED BY <1>2, <2>2, <2>8, <2>10, <2>12, <2>13, <2>14, <2>15, <2>16, PieceHanded
<1> QED BY <1>8, <1>9

LEMMA BodyIdentityEofText == ASSUME ParserInv, TextInv, BodyIdentityEof PROVE TextInv'
<1>1. Here /\ parser.state \in BodyMarked
  BY InHere DEF BodyIdentityEof, Identities, BodyMarked
<1>2. run.end \in run.at .. run.end /\ parser.errno = "OK"
  BY <1>1, HereFacts, TextHere DEF Here
<1>3. Set(parser, Next1([MarkAt(run, "body") EXCEPT !.at = run.end]))
  BY DEF BodyIdentityEof
<1> QED BY <1>1, <1>2, <1>3, BodyGoesOnText

LEMMA MessageDoneText == ASSUME ParserInv, TextInv, MessageDone PROVE TextInv'
<1>1. Here /\ parser.state = "s_message_done" /\ HeadOver(parser)
  BY InHere DEF MessageDone, HeadOver, PastHead
<1>2. Typed(parser) /\ parser.errno = "OK" /\ RunTyped(run)
  BY <1>1, HereFacts, TextHere DEF Here
<1>3. LastKind(log) \in {"body", "chunk_complete"}
  BY <1>1, HereFacts, Was
<1>4. PendingOf(run) = {}
  BY <1>1, <1>3, MessageDoneIs, HereFacts
<1>5. EndMessage(parser, run)
  BY DEF MessageDone
<1> QED BY <1>1, <1>2, <1>4, <1>5, EndMessageText

LEMMA SizeString ==
    ASSUME NEW s \in {"s_chunk_size_start", "s_chunk_data_done"} \cup SizeStates
    PROVE  StringOf(s) \notin DataKinds /\ s \in PastHead /\ s \notin SlowStates
<1>1. /\ s \notin UrlStates /\ s \notin BodyMarked /\ s \notin {"s_header_field", "s_res_status"} /\ s \in PastHead
      /\ s \notin SlowStates
  BY DEF SizeStates, SlowStates, PastHead, ChunkStates, UrlStates, UrlServer, UrlTail, BodyMarked, Identities
<1> QED BY <1>1, NoString

LEMMA SizeGoesOnText ==
    ASSUME ParserInv, TextInv, Here, parser.state \in {"s_chunk_size_start"} \cup SizeStates,
           NEW q, q.state \in SizeStates, q.errno = parser.errno, Break(q)
    PROVE  TextInv'
<1>1. parser.state \notin SlowStates /\ HeadOver(parser)
  BY SizeString DEF HeadOver
<1>2. Continues(q.state) /\ Set(q, Next1(run))
  BY SizeString DEF Continues, Break
<1> QED BY <1>1, <1>2, GoText DEF SlowStates

LEMMA ChunkSizeStartText == ASSUME ParserInv, TextInv, ChunkSizeStart PROVE TextInv'
<1>1. Here /\ parser.state = "s_chunk_size_start"
  BY InHere DEF ChunkSizeStart
<1>2. Typed(parser)
  BY <1>1, HereFacts
<1>3. CASE IsHex(ch)
  <2>1. PICK d, q : d = HexDigit(ch) /\ q = [parser EXCEPT !.content_length = d, !.state = "s_chunk_size"]
    OBVIOUS
  <2>2. q.state \in SizeStates /\ q.errno = parser.errno
    BY <1>2, <2>1 DEF Typed, FieldNames, SizeStates
  <2>3. Break(q)
    BY <1>3, <2>1 DEF ChunkSizeStart
  <2> QED BY <1>1, <2>2, <2>3, SizeGoesOnText
<1>4. CASE ~IsHex(ch)
  BY <1>1, <1>4, RefuseText DEF ChunkSizeStart
<1> QED BY <1>3, <1>4

LEMMA ChunkSizeText == ASSUME ParserInv, TextInv, ChunkSize PROVE TextInv'
<1>1. Here /\ parser.state \in SizeStates /\ parser.state # "s_message_done"
  <2>1. In({"s_chunk_size"})
    BY DEF ChunkSize
  <2> QED BY <2>1, InHere DEF SizeStates
<1>2. Typed(parser)
  BY <1>1, HereFacts
<1>3. CASE Break([parser EXCEPT !.content_length = Widen(16, HexDigit(ch))])
  <2>1. PICK n, q : n = Widen(16, HexDigit(ch)) /\ q = [parser EXCEPT !.content_length = n]
    OBVIOUS
  <2>2. q.state = parser.state /\ q.errno = parser.errno
    BY <1>2, <2>1 DEF Typed, FieldNames
  <2>3. Break(q)
    BY <1>3, <2>1
  <2> QED BY <1>1, <2>2, <2>3, SizeGoesOnText
<1>4. CASE Fail("INVALID_CONTENT_LENGTH")
  BY <1>1, <1>4, FailText DEF Resumable
<1>5. CASE Refuse
  BY <1>1, <1>5, RefuseText
<1> QED BY <1>3, <1>4, <1>5 DEF ChunkSize

\* CALLBACK_NOTIFY when nread starts again.
LEMMA NotifyResetText ==
    ASSUME ParserInv, TextInv, Here, HeadOver(parser), parser.state \notin SlowStates, NEW q, NEW k \in Notices, Typed(q),
           q.errno = "OK", Notify(k, q, [run EXCEPT !.nread = 0])
    PROVE  TextInv'
<1>1. /\ RunTyped(run) /\ run.at \in 1 .. Size /\ Size \in Nat /\ run.start = 0 /\ InCall(run)
      /\ run.pc \notin {"idle", "closed"}
  BY HereFacts, TextHere DEF Here, InCall, SlowStates
<1>2. PICK p : p = [run EXCEPT !.nread = 0]
  OBVIOUS
<1>3. RunTyped(p) /\ p.at = run.at /\ p.end = run.end /\ p.start = 0 /\ p.mark = run.mark
  BY <1>1, <1>2, ResetRun
<1>4. PICK r : r = Next1(p)
  OBVIOUS
<1>5. r.at = run.at + 1 /\ r.end = run.end /\ r.start = 0 /\ r.mark = run.mark
  BY <1>1, <1>3, <1>4, MoveRun
<1>6. PICK at \in {run.at, run.at + 1} : at = run.at + 1
  OBVIOUS
<1>7. Call(q, r, <<<<k>>>>, Idle(at))
  BY <1>2, <1>4, <1>6 DEF Notify
<1>8. Counting(q, r, log \o <<<<k>>>>, pauses)
  <2>1. PICK ev : ev = <<<<k>>>>
    OBVIOUS
  <2>2. ev \in Seq(Events)
    <3>1. PICK e \in Events : e = <<k>>
      BY DEF Events
    <3> QED BY <2>1, <3>1
  <2>3. Announced(log) => Announced(log \o ev)
    BY <1>1, <2>2, TextHere, StillAnnounced
  <2> QED BY <1>1, <1>5, <2>1, <2>3, TextHere, CountOver
<1> QED BY <1>5, <1>6, <1>7, <1>8, NoticeText DEF SlowStates

LEMMA ChunkSizeAlmostDoneText == ASSUME ParserInv, TextInv, ChunkSizeAlmostDone PROVE TextInv'
<1>1. Here /\ parser.state = "s_chunk_size_almost_done" /\ parser.state \in SizeStates
  BY InHere DEF ChunkSizeAlmostDone, SizeStates
<1>2. Typed(parser) /\ parser.errno = "OK" /\ HeadOver(parser) /\ parser.state \notin SlowStates /\ "chunk_header" \in Notices
  BY <1>1, TextHere, SizeString DEF HeadOver, Here, Notices
<1>3. CASE Refuse
  BY <1>1, <1>3, RefuseText
<1>4. CASE parser.content_length = 0 /\ ch = LF
  <2>1. PICK q : q = [parser EXCEPT !.nread = 0, !.flags = @ \cup {"F_TRAILING"}, !.state = "s_header_field_start"]
    OBVIOUS
  <2>2. "F_TRAILING" \in Flags
    BY DEF Flags
  <2>3. Typed(q) /\ q.errno = "OK"
    BY <1>2, <2>1, <2>2 DEF Typed, FieldNames
  <2>4. Notify("chunk_header", q, [run EXCEPT !.nread = 0])
    BY <1>4, <2>1 DEF ChunkSizeAlmostDone, NreadReset
  <2> QED BY <1>1, <1>2, <2>3, <2>4, NotifyResetText
<1>5. CASE parser.content_length # 0 /\ ch = LF
  <2>1. PICK q : q = [parser EXCEPT !.nread = 0, !.state = "s_chunk_data"]
    OBVIOUS
  <2>2. Typed(q) /\ q.errno = "OK"
    BY <1>2, <2>1 DEF Typed, FieldNames
  <2>3. Notify("chunk_header", q, [run EXCEPT !.nread = 0])
    BY <1>5, <2>1 DEF ChunkSizeAlmostDone, NreadReset
  <2> QED BY <1>1, <1>2, <2>2, <2>3, NotifyResetText
<1> QED BY <1>3, <1>4, <1>5 DEF ChunkSizeAlmostDone

LEMMA ChunkDataText == ASSUME ParserInv, TextInv, ChunkData PROVE TextInv'
<1>1. Here /\ parser.state = "s_chunk_data" /\ parser.state \in BodyMarked
  BY InHere DEF ChunkData, BodyMarked
<1>2. Typed(parser) /\ parser.errno = "OK" /\ ParserOK(parser, LastKind(log))
  BY <1>1, HereFacts, TextHere DEF Here
<1>3. parser.content_length \in 1 .. ULLONG_MAX - 1 /\ ULLONG_MAX \in Nat
  BY <1>1, <1>2, ParserAssumption DEF ParserOK, Sound, Asserted
<1>4. LastRead \in run.at .. run.end
  BY <1>1, <1>3, ToReadFacts
<1>5. PICK n, s : /\ n = parser.content_length - ToRead
                  /\ s = IF parser.content_length = ToRead THEN "s_chunk_data_almost_done" ELSE parser.state
  OBVIOUS
<1>6. PICK q : q = [parser EXCEPT !.content_length = n, !.state = s]
  OBVIOUS
<1>7. q.state \in BodyMarked /\ q.errno = "OK"
  BY <1>1, <1>2, <1>5, <1>6 DEF Typed, FieldNames, BodyMarked
<1>8. Set(q, Next1([MarkAt(run, "body") EXCEPT !.at = LastRead]))
  BY <1>5, <1>6 DEF ChunkData
<1> QED BY <1>1, <1>4, <1>7, <1>8, BodyGoesOnText

LEMMA ChunkDataAlmostDoneText == ASSUME ParserInv, TextInv, ChunkDataAlmostDone PROVE TextInv'
<1>1. Here /\ parser.state = "s_chunk_data_almost_done" /\ parser.state \in BodyMarked
  BY InHere DEF ChunkDataAlmostDone, BodyMarked
<1>2. /\ Typed(parser) /\ parser.errno = "OK" /\ RunTyped(run) /\ run.at \in 1 .. Size /\ Size \in Nat
      /\ run.start = 0 /\ InCall(run) /\ run.pc \notin {"idle", "closed"} /\ parser.state # "s_message_done"
  BY <1>1, HereFacts, TextHere, BodyString DEF Here, InCall, SlowStates
<1>3. CASE Refuse
  BY <1>2, <1>1, <1>3, RefuseText
<1>4. CASE CallbackData("body", To("s_chunk_data_done"))
  <2>1. PICK q : q = To("s_chunk_data_done")
    OBVIOUS
  <2>2. Typed(q) /\ q.state = "s_chunk_data_done" /\ q.errno = "OK"
    BY <1>2, <2>1 DEF To, Typed, FieldNames
  <2>3. StringOf(q.state) \notin DataKinds /\ StringOf(parser.state) = "body" /\ HeadOver(parser) /\ "body" \in DataKinds
    BY <1>1, <2>2, SizeString, BodyString DEF HeadOver, DataKinds
  <2>4. \A j \in DataKinds : run.mark[j] # 0 => j = "body"
    <3>1. PendingOf(run) \ {"body"} = {}
      BY <1>1, HereFacts, BodyString
    <3> QED BY <3>1 DEF PendingOf
  <2>5. PICK n : n = Next1(run)
    OBVIOUS
  <2>6. RunTyped(n) /\ n.at = run.at + 1 /\ n.start = 0 /\ n.mark = run.mark
    BY <1>2, <2>5, MoveRun
  <2>7. PICK to \in Nat : to = run.at - 1
    BY <1>2
  <2>8. Data("body", q, n, to, run.at + 1)
    BY <1>4, <2>1, <2>5, <2>7 DEF CallbackData
  <2>9. run.mark["body"] \in Nat /\ run.mark["body"] <= to + 1
    BY <1>2, <2>3, <2>7, TextHere DEF Handed
  <2>10. Counting(q, n, log, pauses)
    BY <1>2, <2>2, <2>3, <2>6, TextHere, CountOver
  <2> QED BY <1>2, <2>2, <2>3, <2>4, <2>6, <2>7, <2>8, <2>9, <2>10, DataText
<1> QED BY <1>3, <1>4 DEF ChunkDataAlmostDone

LEMMA ChunkDataDoneText == ASSUME ParserInv, TextInv, ChunkDataDone PROVE TextInv'
<1>1. Here /\ parser.state = "s_chunk_data_done"
  BY InHere DEF ChunkDataDone
<1>2. Typed(parser) /\ parser.errno = "OK" /\ HeadOver(parser) /\ parser.state \notin SlowStates /\ "chunk_complete" \in Notices
  BY <1>1, TextHere, SizeString DEF HeadOver, Here, Notices
<1>3. CASE Refuse
  BY <1>1, <1>3, RefuseText
<1>4. CASE ch = LF
  <2>1. PICK q : q = [parser EXCEPT !.nread = 0, !.state = "s_chunk_size_start"]
    OBVIOUS
  <2>2. Typed(q) /\ q.errno = "OK"
    BY <1>2, <2>1 DEF Typed, FieldNames
  <2>3. Notify("chunk_complete", q, [run EXCEPT !.nread = 0])
    BY <1>4, <2>1 DEF ChunkDataDone, NreadReset
  <2> QED BY <1>1, <1>2, <2>2, <2>3, NotifyResetText
<1> QED BY <1>3, <1>4 DEF ChunkDataDone

LEMMA BodyText == ASSUME ParserInv, TextInv, Body PROVE TextInv'
  BY BodyIdentityText, BodyIdentityEofText, MessageDoneText, ChunkSizeStartText, ChunkSizeText,
     ChunkSizeAlmostDoneText, ChunkDataText, ChunkDataAlmostDoneText, ChunkDataDoneText DEF Body

-------------------------------------------------------------------------------
(* The loop and the calls keep it                                          *)

LEMMA MarkedString ==
    ASSUME NEW s, NEW k \in MarkedAtEntry(s)
    PROVE  /\ k \in DataKinds /\ k # "body" /\ (k = "header_value" \/ k = StringOf(s)) /\ s # "s_message_done"
           /\ MarkedAtEntry(s) \subseteq {k} /\ s \notin BodyMarked
<1>1. CASE s \in UrlStates
  BY <1>1, UrlString DEF SlowStates, DataKinds
<1>2. CASE s = "s_header_field"
  <2>1. "s_header_field" \notin UrlStates \cup BodyMarked
    BY DEF UrlStates, UrlServer, UrlTail, BodyMarked, Identities
  <2> QED BY <1>2, <2>1 DEF MarkedAtEntry, StringOf, DataKinds
<1>3. CASE s = "s_header_value"
  <2>1. "s_header_value" \notin UrlStates \cup BodyMarked
    BY DEF UrlStates, UrlServer, UrlTail, BodyMarked, Identities
  <2>2. MarkedAtEntry(s) = {"header_value"}
    BY <1>3, <2>1 DEF MarkedAtEntry
  <2> QED BY <1>3, <2>1, <2>2 DEF DataKinds
<1>4. CASE s = "s_res_status"
  <2>1. "s_res_status" \notin BodyMarked
    BY DEF BodyMarked, Identities
  <2> QED BY <1>4, <2>1, StatusString DEF DataKinds
<1> QED BY <1>1, <1>2, <1>3, <1>4 DEF MarkedAtEntry

LEMMA NextByteText == ASSUME ParserInv, TextInv, NextByte PROVE TextInv'
<1>1. run.pc = "top" /\ run.at <= run.end /\ run.pc \notin {"idle", "closed"} /\ InCall(run)
  BY DEF NextByte, InCall
<1>2. PICK n \in Nat : n = IF parser.state \in BodyStates THEN run.nread ELSE run.nread + 1
  BY RunFacts
<1>3. CASE n > MaxHeaderSize
  <2>1. Set([parser EXCEPT !.errno = "HEADER_OVERFLOW", !.nread = n], Idle(run.at))
    BY <1>2, <1>3 DEF NextByte
  <2>2. run.at \in Nat /\ run.at >= run.at
    BY <1>1, TextHere
  <2> QED BY <1>1, <2>1, <2>2, ErrorText DEF Resumable
<1>4. CASE ~(n > MaxHeaderSize)
  <2>1. PICK r : r = [run EXCEPT !.pc = "switch", !.nread = n]
    OBVIOUS
  <2>2. /\ r.pc = "switch" /\ r.at = run.at /\ r.end = run.end /\ r.nread = n /\ r.start = run.start /\ r.mark = run.mark
    BY <2>1, RunFacts DEF RunTyped
  <2>3. Set(parser, r)
    BY <1>2, <1>4, <2>1 DEF NextByte
  <2>4. run.start = 0
    BY <1>1, TextHere DEF Counting
  <2>5. Handed(parser, r, log)
    <3>1. \A k \in DataKinds : Resumes(k, r) = Resumes(k, run)
      BY <2>2 DEF Resumes
    <3>2. r.at \in Nat /\ r.at >= run.at /\ parser.errno \in Resumable
      BY <1>1, <2>2, TextHere DEF Resumable
    <3> QED BY <1>1, <2>2, <3>1, <3>2, TextHere, HandedOn
  <2>6. Counting(parser, r, log, pauses)
    <3>1. ASSUME pauses = 0, ~Announced(log)
          PROVE  ~HeadOver(parser) /\ Counted(parser, r)
      <4>1. ~HeadOver(parser) /\ Counted(parser, run)
        BY <1>1, <3>1, TextHere DEF Counting
      <4>2. parser.state \notin BodyStates
        <5>1. BodyStates \subseteq PastHead
          BY DEF BodyStates, PastHead, ChunkStates, Identities
        <5> QED BY <4>1, <5>1 DEF HeadOver
      <4>3. run.nread = run.at - 1 /\ n = run.nread + 1
        BY <1>1, <1>2, <4>1, <4>2 DEF Counted
      <4>4. n = run.at /\ n <= MaxHeaderSize
        BY <1>1, <1>4, <4>3, TextHere, ParserAssumption
      <4> QED BY <2>2, <2>4, <4>1, <4>4 DEF Counted
    <3>2. parser.errno = "OK"
      BY <1>1, TextHere
    <3> QED BY <2>2, <2>4, <3>1, <3>2 DEF Counting
  <2> QED BY <2>3, <2>5, <2>6, SetText
<1> QED BY <1>3, <1>4

LEMMA ScanEndsText == ASSUME ParserInv, TextInv, ScanEnds PROVE TextInv'
<1>1. /\ run.pc = "scanned" \/ (run.pc = "switch" /\ run.at > run.end)
      /\ run.pc \notin {"idle", "closed"}
  BY DEF ScanEnds
<1>2. PICK at : at = IF run.at > run.end THEN run.end ELSE run.at
  OBVIOUS
<1>3. /\ run.pc = "scanned" => at = run.at /\ parser.state = "s_header_almost_done"
      /\ run.pc = "switch" => at = run.end /\ parser.state \in {"s_header_field", "s_header_value"}
  BY <1>1, <1>2, RunFacts DEF RangeOK, MarksOK
<1>4. at \in Nat /\ at + 1 >= run.at /\ at + 1 \in Nat /\ at \in 1 .. Size /\ Size \in Nat /\ run.start \in 1 .. at
  BY <1>1, <1>2, RunFacts DEF RangeOK, MarksOK
<1>5. run.pc = "switch" => HeaderKind(parser.state) \in DataKinds /\ run.mark[HeaderKind(parser.state)] # 0
  <2>1. SUFFICES ASSUME run.pc = "switch"
                 PROVE HeaderKind(parser.state) \in DataKinds /\ run.mark[HeaderKind(parser.state)] # 0
    OBVIOUS
  <2>2. PendingOf(run) \ {"body"} = MarkedAtEntry(parser.state)
    BY <2>1, RunFacts DEF MarksOK
  <2>3. HeaderKind(parser.state) \in MarkedAtEntry(parser.state)
    <3>1. "s_header_field" \notin UrlStates /\ "s_header_value" \notin UrlStates
      BY UrlString DEF SlowStates
    <3> QED BY <1>3, <2>1, <3>1 DEF MarkedAtEntry, HeaderKind
  <2> QED BY <2>2, <2>3 DEF PendingOf
<1>6. ScanCount(at) \in Nat /\ \A r : r = Scanned(at) =>
            /\ RunTyped(r) /\ r.pc = run.pc /\ r.at = at /\ r.end = run.end /\ r.start = 0
            /\ r.mark = run.mark
  BY <1>4, RunFacts, ScannedFacts
<1>7. CASE ScanCount(at) > MaxHeaderSize
  <2>1. Overflow(at)
    BY <1>2, <1>7 DEF ScanEnds
  <2>2. at >= run.at \/ (\E k \in DataKinds : run.mark[k] # 0 /\ at = run.end)
    BY <1>1, <1>3, <1>4, <1>5
  <2>3. parser.state # "s_message_done"
    BY <1>1, <1>3
  <2> QED BY <1>1, <1>4, <2>1, <2>2, <2>3, OverflowText
<1>8. CASE ~(ScanCount(at) > MaxHeaderSize)
  <2>1. PICK p : p = Scanned(at)
    OBVIOUS
  <2>2. /\ RunTyped(p) /\ p.at = at /\ p.end = run.end /\ p.start = 0 /\ p.mark = run.mark
        /\ p.nread = ScanCount(at)
    BY <1>6, <2>1, RunFacts, ScannedCount
  <2>3. PICK r : r = Next1(p)
    OBVIOUS
  <2>4. /\ r.pc = "top" /\ r.at = at + 1 /\ r.end = run.end /\ r.start = 0 /\ r.mark = run.mark
        /\ r.nread = ScanCount(at)
    BY <1>4, <2>2, <2>3, MoveRun
  <2>5. Set(parser, r)
    BY <1>2, <1>8, <2>1, <2>3 DEF ScanEnds
  <2>6. parser.errno = "OK"
    BY <1>1, TextHere
  <2>7. Handed(parser, r, log)
    <3>1. ASSUME NEW k \in DataKinds, StringOf(parser.state) = k
          PROVE  Resumes(k, r) = Resumes(k, run)
      <4>1. parser.state \notin {"s_header_almost_done", "s_header_value"}
        BY <3>1, QuietIs DEF Quiet, ValueEndStates
      <4>2. parser.state = "s_header_field" /\ run.pc = "switch"
        BY <1>1, <1>3, <4>1
      <4>3. k = "header_field"
        <5>1. "s_header_field" \notin UrlStates \cup BodyMarked
          BY DEF UrlStates, UrlServer, UrlTail, BodyMarked, Identities
        <5> QED BY <3>1, <4>2, <5>1 DEF StringOf
      <4> QED BY <1>5, <2>4, <4>2, <4>3 DEF Resumes, HeaderKind
    <3>2. r.at \in Nat /\ r.at >= run.at /\ parser.errno \in Resumable
      BY <1>4, <2>4, <2>6 DEF Resumable
    <3> QED BY <1>1, <2>4, <3>1, <3>2, TextHere, HandedOn
  <2>8. Counting(parser, r, log, pauses)
    <3>1. ASSUME pauses = 0, ~Announced(log)
          PROVE  ~HeadOver(parser) /\ Counted(parser, r)
      <4>1. ScanCount(at) = at /\ ~HeadOver(parser)
        BY <1>1, <1>4, <3>1, ScanCounts
      <4>2. at <= MaxHeaderSize
        BY <1>4, <1>8, <4>1, ParserAssumption
      <4> QED BY <1>4, <2>4, <4>1, <4>2 DEF Counted
    <3> QED BY <2>4, <2>6, <3>1 DEF Counting
  <2> QED BY <2>5, <2>7, <2>8, SetText
<1> QED BY <1>7, <1>8

LEMMA EndOfDataText == ASSUME ParserInv, TextInv, EndOfData PROVE TextInv'
<1>1. /\ run.pc \in {"top", "return"} /\ run.at > run.end /\ run.pc \notin {"idle", "closed"} /\ InCall(run)
      /\ run.start = 0 /\ parser.errno = "OK" /\ Typed(parser) /\ Handed(parser, run, log)
  <2>1. run.pc \in {"top", "return"} /\ run.at > run.end
    BY DEF EndOfData
  <2> QED BY <2>1, TextHere DEF Counting, InCall
<1>2. run.at \in Nat /\ run.end \in Nat /\ run.at = run.end + 1 /\ run.end <= Size /\ Size \in Nat
  BY <1>1, RunFacts DEF RangeOK
<1>3. CASE Pending = {}
  <2>1. PICK q : q = [parser EXCEPT !.nread = run.nread]
    OBVIOUS
  <2>2. q.state = parser.state /\ q.flags = parser.flags /\ q.errno = "OK" /\ q.nread = run.nread
    BY <1>1, <2>1 DEF Typed, FieldNames
  <2>3. PICK r : r = Idle(run.at)
    OBVIOUS
  <2>4. r.pc = "idle" /\ r.at = run.at /\ r.start = 0 /\ \A k \in DataKinds : r.mark[k] = 0
    BY <2>3 DEF Idle, NoMarks
  <2>5. Set(q, r)
    BY <1>3, <2>1, <2>3 DEF EndOfData
  <2>6. Handed(q, r, log)
    <3>1. \A k \in DataKinds : Resumes(k, r) = Resumes(k, run)
      BY <1>3, <2>4 DEF Resumes, Pending
    <3>2. r.at >= run.at /\ parser.errno \in Resumable
      BY <1>1, <1>2, <2>4 DEF Resumable
    <3> QED BY <1>1, <1>2, <2>2, <2>4, <3>1, <3>2, TextHere, HandedOn
  <2>7. Counting(q, r, log, pauses)
    <3>1. ASSUME pauses = 0, ~Announced(log)
          PROVE  ~HeadOver(q) /\ Counted(q, r)
      <4>1. ~HeadOver(parser) /\ Counted(parser, run)
        BY <1>1, <3>1, TextHere DEF Counting
      <4>2. run.nread = run.at - 1 /\ run.nread <= MaxHeaderSize
        BY <1>1, <4>1 DEF Counted
      <4>3. ~HeadOver(q)
        BY <2>2, <4>1 DEF HeadOver
      <4> QED BY <2>2, <2>4, <4>2, <4>3 DEF Counted, InCall
    <3> QED BY <2>2, <2>4, <3>1 DEF Counting, InCall
  <2> QED BY <2>5, <2>6, <2>7, SetText
<1>4. CASE Pending # {}
  <2>1. PICK k \in Pending : Data(k, parser, [run EXCEPT !.pc = "return"], run.end, run.at)
    BY <1>4 DEF EndOfData
  <2>2. k \in DataKinds /\ run.mark[k] # 0 /\ k \in PendingOf(run) /\ Pending = PendingOf(run)
    BY <2>1 DEF Pending, PendingOf
  <2>3. run.pc = "top"
    BY <1>1, <2>2, RunFacts DEF MarksOK
  <2>4. /\ PendingOf(run) \ {"body"} = MarkedAtEntry(parser.state)
        /\ "body" \in PendingOf(run) => parser.state \in BodyMarked
    BY <2>3, RunFacts DEF MarksOK, BodyMarked
  <2>5. /\ k = "header_value" \/ k = StringOf(parser.state)
        /\ parser.state # "s_message_done"
        /\ \A j \in DataKinds : run.mark[j] # 0 => j = k
    <3>1. CASE k = "body"
      <4>1. StringOf(parser.state) = "body" /\ MarkedAtEntry(parser.state) = {} /\ parser.state # "s_message_done"
        BY <2>2, <2>4, <3>1, BodyString DEF SlowStates
      <4> QED BY <2>4, <3>1, <4>1 DEF PendingOf
    <3>2. CASE k # "body"
      <4>1. k \in MarkedAtEntry(parser.state)
        BY <2>2, <2>4, <3>2
      <4>2. /\ k = "header_value" \/ k = StringOf(parser.state)
            /\ parser.state # "s_message_done" /\ MarkedAtEntry(parser.state) \subseteq {k} /\ parser.state \notin BodyMarked
        BY <4>1, MarkedString
      <4>3. PendingOf(run) \subseteq {k}
        BY <2>4, <4>2
      <4> QED BY <4>2, <4>3 DEF PendingOf
    <3> QED BY <3>1, <3>2
  <2>6. PICK n : n = [run EXCEPT !.pc = "return"]
    OBVIOUS
  <2>7. /\ RunTyped(n) /\ n.pc = "return" /\ n.at = run.at /\ n.nread = run.nread /\ n.start = 0 /\ n.mark = run.mark
    BY <1>1, <2>6, RunFacts DEF RunTyped, Places
  <2>8. run.mark[k] \in Nat /\ run.mark[k] <= run.end
    BY <1>1, <2>2, TextHere DEF Handed
  <2>9. Counting(parser, n, log, pauses)
    <3>1. ASSUME pauses = 0, ~Announced(log)
          PROVE  ~HeadOver(parser) /\ Counted(parser, n)
      <4>1. ~HeadOver(parser) /\ Counted(parser, run)
        BY <1>1, <3>1, TextHere DEF Counting
      <4> QED BY <1>1, <2>7, <4>1 DEF Counted, InCall
    <3> QED BY <1>1, <2>7, <3>1 DEF Counting
  <2>10. Data(k, parser, n, run.end, run.at)
    BY <2>1, <2>6
  <2>11. /\ run.mark[k] <= run.end + 1 /\ n.at >= run.at /\ n.at >= run.end + 1 /\ run.at >= run.end + 1
         /\ run.mark[k] \in 1 .. run.end
    BY <1>2, <2>2, <2>7, <2>8
  <2> QED BY <1>1, <1>2, <2>2, <2>5, <2>7, <2>9, <2>10, <2>11, DataText
<1> QED BY <1>3, <1>4

LEMMA LoopText == ASSUME ParserInv, TextInv, Loop PROVE TextInv'
  BY NextByteText, ScanEndsText, EndOfDataText, MoveText, MoveRefusedText DEF Loop

\* Between two calls nothing is marked.
LEMMA NoCall ==
    ASSUME ParserInv, TextInv, run.pc \in {"idle", "closed"}
    PROVE  /\ Handed(parser, run, log) /\ Counting(parser, run, log, pauses) /\ run.start = 0 /\ log \in Seq(Events)
           /\ run.at \in 1 .. Size + 1 /\ Size \in Nat /\ run.at \in Nat /\ run.end \in Nat /\ pauses \in Nat
           /\ run.mark \in [DataKinds -> Nat] /\ Typed(parser)
           /\ \A k \in DataKinds : run.mark[k] = 0
<1>1. Handed(parser, run, log) /\ Counting(parser, run, log, pauses)
  BY DEF TextInv
<1>2. /\ RunTyped(run) /\ run.at \in 1 .. Size + 1 /\ Size \in Nat /\ run.at \in Nat /\ run.end \in Nat
      /\ PendingOf(run) = {} /\ log \in Seq(Events) /\ Typed(parser)
  BY RunFacts DEF MarksOK
<1>3. pauses \in Nat
  BY ParserAssumption DEF ParserInv
<1>4. run.mark \in [DataKinds -> Nat] /\ \A k \in DataKinds : run.mark[k] = 0
  BY <1>2 DEF RunTyped, PendingOf
<1>5. run.start = 0
  BY <1>1 DEF Counting
<1> QED BY <1>1, <1>2, <1>3, <1>4, <1>5

LEMMA ExecuteText ==
    ASSUME ParserInv, TextInv, NEW n \in Int, http_parser_execute(n)
    PROVE  TextInv'
<1>1. run.pc = "idle" /\ parser.errno = "OK" /\ n > 0
  BY DEF http_parser_execute, CanFeed
<1>2. PICK r : r = [pc |-> "top", at |-> run.at, end |-> run.at + n - 1, nread |-> parser.nread, start |-> 0,
                    mark |-> [k \in DataKinds |-> IF k \in MarkedAtEntry(parser.state) THEN run.at ELSE 0]]
  OBVIOUS
<1>3. /\ r.pc = "top" /\ r.at = run.at /\ r.nread = parser.nread /\ r.start = 0 /\ r.at <= r.end /\ r.at \in Nat
      /\ \A k \in DataKinds : r.mark[k] = IF k \in MarkedAtEntry(parser.state) THEN run.at ELSE 0
  BY <1>1, <1>2, NoCall
<1>4. Set(parser, r)
  BY <1>2 DEF http_parser_execute
<1>5. Handed(parser, run, log)
  BY <1>1, NoCall
<1>6. Handed(parser, r, log)
  <2>1. AllBefore(log, Beyond(parser.state, r))
    BY <1>3, <1>5 DEF Handed, Beyond
  <2>2. ASSUME NEW k \in DataKinds, r.mark[k] # 0
        PROVE  r.mark[k] <= r.at /\ r.mark[k] <= r.end /\ AllBefore(log, r.mark[k])
    <3>1. k \in MarkedAtEntry(parser.state) /\ r.mark[k] = run.at
      BY <1>3, <2>2
    <3>2. parser.state # "s_message_done"
      BY <3>1, MarkedString
    <3>3. AllBefore(log, run.at)
      BY <1>5, <3>2 DEF Handed, Beyond
    <3> QED BY <1>3, <3>1, <3>3
  <2>3. ASSUME NEW k \in DataKinds, StringOf(parser.state) = k, LastKind(log) = k
        PROVE  EndsBefore(log, Resumes(k, r))
    <3>1. Resumes(k, r) = run.at /\ Resumes(k, run) = run.at
      BY <1>1, <1>3, NoCall DEF Resumes
    <3> QED BY <1>1, <1>5, <2>3, <3>1 DEF Handed
  <2> QED BY <1>5, <2>1, <2>2, <2>3 DEF Handed
<1>7. Counting(parser, r, log, pauses)
  <2>1. ASSUME pauses = 0, ~Announced(log)
        PROVE  ~HeadOver(parser) /\ Counted(parser, r)
    <3>1. ~HeadOver(parser) /\ Counted(parser, run)
      BY <1>1, <2>1, NoCall DEF Counting
    <3> QED BY <1>1, <1>3, <3>1 DEF Counted
  <2> QED BY <1>1, <1>3, <2>1 DEF Counting
<1> QED BY <1>4, <1>6, <1>7, SetText

\* A connection that has ended: what was handed over stays, nothing is counted any more.
LEMMA ClosedText ==
    ASSUME ParserInv, TextInv, run.pc \in {"idle", "closed"}, NEW q, NEW r, NEW m \in Seq(Events),
           q.state = parser.state, r.pc = "closed", r.at = run.at, r.start = 0, \A k \in DataKinds : r.mark[k] = 0,
           Joined(m), \A b : AllBefore(log, b) => AllBefore(m, b),
           LastKind(m) \notin DataKinds \/ (m = log /\ parser.errno \in Resumable),
           parser' = q, run' = r, log' = m, q.errno = "PAUSED" => pauses' > 0
    PROVE  TextInv'
<1>1. Handed(parser, run, log) /\ run.at \in Nat
  BY NoCall
<1>2. AllBefore(m, Beyond(q.state, r))
  BY <1>1 DEF Handed, Beyond
<1>3. ASSUME NEW k \in DataKinds, StringOf(q.state) = k, LastKind(m) = k
      PROVE  EndsBefore(m, Resumes(k, r))
  <2>1. m = log /\ parser.errno \in Resumable
    BY <1>3
  <2>2. Resumes(k, r) = Resumes(k, run)
    BY NoCall DEF Resumes
  <2> QED BY <1>1, <1>3, <2>1, <2>2 DEF Handed, Resumable
<1>4. Handed(q, r, m)
  BY <1>2, <1>3 DEF Handed
<1>5. Counting(q, r, m, pauses')
  BY DEF Counting, InCall
<1> QED BY <1>4, <1>5 DEF TextInv

LEMMA EofText == ASSUME ParserInv, TextInv, http_parser_execute_eof PROVE TextInv'
<1>1. run.pc \in {"idle", "closed"} /\ parser.errno = "OK"
  BY DEF http_parser_execute_eof, CanFeed
<1>2. PICK r : r = [Idle(run.at) EXCEPT !.pc = "closed", !.nread = parser.nread]
  OBVIOUS
<1>3. r.pc = "closed" /\ r.at = run.at /\ r.start = 0 /\ \A k \in DataKinds : r.mark[k] = 0
  BY <1>2 DEF Idle, NoMarks
<1>4. Typed(parser) /\ log \in Seq(Events) /\ Joined(log) /\ pauses \in Nat
  BY <1>1, NoCall DEF Handed
<1>5. ASSUME NEW q, q.state = parser.state, q.errno # "PAUSED", Set(q, r)
      PROVE  TextInv'
  <2>1. parser' = q /\ run' = r /\ log' = log
    BY <1>5 DEF Set
  <2> QED BY <1>1, <1>3, <1>4, <1>5, <2>1, ClosedText DEF Resumable
<1>6. CASE Call(parser, r, <<<<"message_complete">>>>, r)
  <2>1. PICK e : e = <<"message_complete">>
    OBVIOUS
  <2>2. e \in Events /\ ~IsByte(e) /\ e[1] = "message_complete" /\ "message_complete" \notin DataKinds
    <3>1. e \in {<<x>> : x \in Notices}
      BY <2>1 DEF Notices
    <3> QED BY <2>1, <3>1 DEF Events, IsByte, DataKinds
  <2>3. PICK m : m = log \o <<e>>
    OBVIOUS
  <2>4. m \in Seq(Events) /\ Joined(m) /\ LastKind(m) \notin DataKinds /\ \A b : AllBefore(log, b) => AllBefore(m, b)
    BY <1>4, <2>2, <2>3, EventAppended
  <2>5. log' = m /\ run' = r
    BY <1>6, <2>1, <2>3 DEF Call
  <2>6. parser'.state = parser.state /\ (parser'.errno = "PAUSED" => pauses' > 0)
    <3>1. CASE parser' = parser
      BY <1>1, <3>1
    <3>2. CASE parser' = [parser EXCEPT !.errno = "PAUSED"] /\ pauses' = pauses + 1
      BY <1>4, <3>2 DEF Typed, FieldNames
    <3>3. CASE parser' = [parser EXCEPT !.errno = "CB", !.nread = r.nread]
      BY <1>4, <3>3 DEF Typed, FieldNames
    <3> QED BY <1>6, <3>1, <3>2, <3>3 DEF Call
  <2> QED BY <1>1, <1>3, <2>4, <2>5, <2>6, ClosedText
<1>7. CASE Set(parser, r)
  BY <1>1, <1>5, <1>7
<1>8. CASE Set([parser EXCEPT !.errno = "INVALID_EOF_STATE"], r)
  <2>1. PICK q : q = [parser EXCEPT !.errno = "INVALID_EOF_STATE"]
    OBVIOUS
  <2>2. q.state = parser.state /\ q.errno = "INVALID_EOF_STATE"
    BY <1>4, <2>1 DEF Typed, FieldNames
  <2> QED BY <1>5, <1>8, <2>1, <2>2
<1> QED
  <2>1. \/ Call(parser, r, <<<<"message_complete">>>>, r)
        \/ Set(parser, r)
        \/ Set([parser EXCEPT !.errno = "INVALID_EOF_STATE"], r)
    BY <1>2 DEF http_parser_execute_eof
  <2> QED BY <1>6, <1>7, <1>8, <2>1

LEMMA UnpauseText == ASSUME ParserInv, TextInv, http_parser_pause PROVE TextInv'
<1>1. PICK q : q = [parser EXCEPT !.errno = "OK"]
  OBVIOUS
<1>2. q.state = parser.state /\ q.errno = "OK"
  BY <1>1, RunFacts DEF Typed, FieldNames
<1>3. parser.errno = "PAUSED" /\ Set(q, run)
  BY <1>1 DEF http_parser_pause
<1>4. Handed(parser, run, log) /\ Counting(parser, run, log, pauses) /\ pauses > 0
  BY <1>3 DEF TextInv, Counting
<1>5. Handed(q, run, log)
  BY <1>2, <1>3, <1>4 DEF Handed
<1>6. Counting(q, run, log, pauses)
  <2>1. ~InCall(run) /\ pauses # 0 /\ run.start = 0
    <3>1. pauses \in Nat
      BY ParserAssumption DEF ParserInv
    <3> QED BY <1>3, <1>4, <3>1 DEF Counting, InCall
  <2> QED BY <1>2, <2>1 DEF Counting
<1> QED BY <1>3, <1>5, <1>6, SetText

LEMMA FeedText == ASSUME ParserInv, TextInv, Feed PROVE TextInv'
<1>1. \A n \in PieceLens \cup {Size - run.at + 1} : n \in Int
  <2>1. Size - run.at + 1 \in Int
    BY RunFacts
  <2>2. PieceLens \subseteq Int
    BY ParserAssumption
  <2> QED BY <2>1, <2>2
<1>2. CASE \E n \in PieceLens \cup {Size - run.at + 1} : http_parser_execute(n)
  BY <1>1, <1>2, ExecuteText
<1>3. CASE http_parser_execute_eof
  BY <1>3, EofText
<1> QED BY <1>2, <1>3 DEF Feed

LEMMA InitText == ASSUME Init PROVE TextInv
<1>1. stream \in Streams /\ run = Idle(1) /\ log = <<>> /\ pauses = 0 /\ MaxHeaderSize \in Nat
  BY ParserAssumption DEF Init
<1>2. parser.flags = {} /\ parser.nread = 0 /\ parser.errno = "OK" /\ parser.state = StartOf(stream.type)
  BY DEF Init, http_parser_init
<1>3. parser.state \in StartStates
  BY <1>1, <1>2, Stream DEF StartOf, StartStates
<1>4. run.pc = "idle" /\ run.at = 1 /\ run.start = 0 /\ \A k \in DataKinds : run.mark[k] = 0
  BY <1>1 DEF Idle, NoMarks
<1>5. Handed(parser, run, log)
  <2>1. Joined(log) /\ \A b : AllBefore(log, b)
    BY <1>1 DEF Joined, AllBefore
  <2>2. LastKind(log) \notin DataKinds
    BY <1>1 DEF LastKind, DataKinds
  <2> QED BY <1>4, <2>1, <2>2 DEF Handed
<1>6. Counting(parser, run, log, pauses)
  <2>1. ~HeadOver(parser)
    BY <1>2, <1>3, QuietIs DEF HeadOver, Quiet
  <2>2. Counted(parser, run)
    BY <1>1, <1>2, <1>4 DEF Counted, InCall
  <2> QED BY <1>2, <1>4, <2>1, <2>2 DEF Counting, InCall
<1> QED BY <1>5, <1>6 DEF TextInv

LEMMA TextStep == ASSUME ParserInv, TextInv, [Next]_vars PROVE TextInv'
<1>1. CASE UNCHANGED vars
  BY <1>1 DEF vars, TextInv
<1>2. CASE http_parser_pause
  BY <1>2, UnpauseText
<1>3. CASE Feed \/ Loop \/ FirstLine \/ Headers \/ Body
  BY <1>3, FeedText, LoopText, FirstLineText, HeadersText, BodyText
<1> QED BY <1>1, <1>2, <1>3 DEF Next

\* What was handed over, and the header bytes counted, agree with the state and
\* the locals of the call.
THEOREM TextInvariant == Spec => []TextInv
<1>1. Init => TextInv
  BY InitText
<1>2. ParserInv /\ TextInv /\ [Next]_vars => TextInv'
  BY TextStep
<1> QED BY <1>1, <1>2, ParserInvariant, PTL DEF Spec

\* Wherever a connection is cut and whichever callback pauses, the callbacks get
\* its bytes in order, none twice, and the pieces of a string without a gap: the
\* marks at which a call or a pause leaves a string are where the next one goes on.
THEOREM BytesInOrder == Spec => []HandedOverInOrder
<1>1. ParserInv /\ TextInv => HandedOverInOrder
  <2> SUFFICES ASSUME ParserInv, TextInv PROVE HandedOverInOrder
    OBVIOUS
  <2>1. log \in Seq(Events) /\ Joined(log)
    BY DEF ParserInv, TextInv, Handed
  <2>2. ASSUME NEW j \in DOMAIN log, NEW i \in 1 .. j - 1
        PROVE  i \in DOMAIN log /\ i < j
    BY <2>1, <2>2
  <2> QED BY <2>1, <2>2 DEF Joined, HandedOverInOrder
<1> QED BY <1>1, ParserInvariant, TextInvariant, PTL

-------------------------------------------------------------------------------
(* The limit on the first head                                             *)

\* A step that does not announce the head, and that pauses only with that error.
Plain == (Announced(log') => Announced(log)) /\ (pauses' = pauses \/ parser'.errno = "PAUSED")

LEMMA SetPlain ==
    ASSUME NEW q, NEW r, Set(q, r)
    PROVE  Plain
  BY DEF Set, Plain

\* Events that announce nothing.
Unannounced(ev) == \A i \in DOMAIN ev : ev[i][1] # "headers_complete"

LEMMA NotAnnounced ==
    ASSUME NEW T, NEW l \in Seq(T), NEW ev \in Seq(T), NEW m, m = l \o ev,
           Unannounced(ev), Announced(m)
    PROVE  Announced(l)
<1>1. PICK i \in DOMAIN m : m[i] = <<"headers_complete">>
  BY DEF Announced
<1>2. CASE i <= Len(l)
  <2>1. i \in DOMAIN l /\ l[i] = m[i]
    BY <1>1, <1>2
  <2> QED BY <1>1, <2>1 DEF Announced
<1>3. CASE ~(i <= Len(l))
  <2>1. PICK j \in DOMAIN ev : m[i] = ev[j]
    <3>1. i - Len(l) \in DOMAIN ev /\ m[i] = ev[i - Len(l)]
      BY <1>1, <1>3
    <3> QED BY <3>1
  <2>2. PICK e : e = ev[j]
    OBVIOUS
  <2>3. e = <<"headers_complete">> /\ e[1] # "headers_complete"
    BY <1>1, <2>1, <2>2 DEF Unannounced
  <2> QED BY <2>3
<1> QED BY <1>2, <1>3

LEMMA CallPlain ==
    ASSUME ParserInv, NEW q, "errno" \in DOMAIN q, NEW r, NEW T, NEW ev \in Seq(T), NEW back,
           Call(q, r, ev, back), \A i \in DOMAIN ev : ev[i][1] # "headers_complete"
    PROVE  Plain
<1>1. PICK U : U = Events \cup T
  OBVIOUS
<1>2. log \in Seq(U) /\ ev \in Seq(U) /\ log' = log \o ev
  BY <1>1, RunFacts DEF Call
<1>3. Announced(log') => Announced(log)
  <2>1. PICK m : m = log \o ev
    OBVIOUS
  <2>2. log \in Seq(U) /\ ev \in Seq(U) /\ m = log \o ev
    BY <1>2, <2>1
  <2>3. Unannounced(ev)
    BY DEF Unannounced
  <2>4. Announced(m) => Announced(log)
    BY ONLY <2>2, <2>3, NotAnnounced
  <2>5. log' = m
    BY <1>2, <2>1
  <2> QED BY <2>4, <2>5
<1>4. pauses' = pauses \/ parser'.errno = "PAUSED"
  <2>1. [q EXCEPT !.errno = "PAUSED"].errno = "PAUSED"
    OBVIOUS
  <2>2. pauses' = pauses \/ parser' = [q EXCEPT !.errno = "PAUSED"]
    BY DEF Call
  <2> QED BY <2>1, <2>2
<1> QED BY <1>3, <1>4 DEF Plain

LEMMA NoticePlain ==
    ASSUME ParserInv, NEW q, "errno" \in DOMAIN q, NEW k, k # "headers_complete", NEW r, NEW back,
           Call(q, r, <<<<k>>>>, back)
    PROVE  Plain
<1>1. PICK e : e = <<k>>
  OBVIOUS
<1>2. e[1] = k
  BY <1>1
<1>3. PICK ev : ev = <<e>>
  OBVIOUS
<1>4. ev \in Seq({e}) /\ \A i \in DOMAIN ev : ev[i] = e
  BY <1>3
<1>5. Call(q, r, ev, back)
  BY <1>1, <1>3
<1> QED BY <1>2, <1>4, <1>5, CallPlain

LEMMA PiecePlain ==
    ASSUME ParserInv, NEW q, "errno" \in DOMAIN q, NEW k \in DataKinds, NEW r, NEW from \in Int, NEW to \in Int, NEW back,
           Call(q, r, Piece(k, from, to), back)
    PROVE  Plain
<1>1. PICK ev : ev = Piece(k, from, to)
  OBVIOUS
<1>2. k # "headers_complete"
  BY DEF DataKinds
<1>3. CASE ev = [i \in 1 .. to - from + 1 |-> <<k, stream.syms[from + i - 1], from + i - 1>>] /\ to >= from
  <2>1. PICK n \in Nat : n = to - from + 1
    BY <1>3
  <2>2. ASSUME NEW i \in 1 .. n
        PROVE  ev[i][1] = k
    <3>1. PICK c, j : c = stream.syms[from + i - 1] /\ j = from + i - 1
      OBVIOUS
    <3>2. ev[i] = <<k, c, j>>
      BY <1>3, <2>1, <3>1
    <3>3. PICK e : e = <<k, c, j>>
      OBVIOUS
    <3>4. e[1] = k
      BY <3>3
    <3> QED BY <3>2, <3>3, <3>4
  <2>3. PICK T : T = {ev[i] : i \in 1 .. n}
    OBVIOUS
  <2>4. ev \in [1 .. n -> T]
    BY <1>3, <2>1, <2>3
  <2>5. ev \in Seq(T) /\ DOMAIN ev = 1 .. n
    BY <2>4
  <2> QED BY <1>1, <1>2, <2>2, <2>5, CallPlain
<1>4. CASE ev = <<>>
  <2>1. ev \in Seq({}) /\ \A i \in DOMAIN ev : ev[i][1] # "headers_complete"
    BY <1>4
  <2> QED BY <1>1, <2>1, CallPlain
<1>5. CASE ev = <<<<k, "", from>>>>
  <2>1. PICK e : e = <<k, "", from>>
    OBVIOUS
  <2>2. e[1] = k
    BY <2>1
  <2>3. ev = <<e>>
    BY <1>5, <2>1
  <2>4. ev \in Seq({e}) /\ \A i \in DOMAIN ev : ev[i] = e
    BY <2>3
  <2> QED BY <1>1, <1>2, <2>2, <2>4, CallPlain
<1> QED BY <1>1, <1>3, <1>4, <1>5 DEF Piece

LEMMA DataPlain ==
    ASSUME ParserInv, NEW q, "errno" \in DOMAIN q, NEW k \in DataKinds, NEW next, NEW to \in Int, NEW at, Data(k, q, next, to, at)
    PROVE  Plain
<1>1. run.mark[k] \in Int
  <2>1. RunTyped(run) /\ Size \in Nat
    BY RunFacts
  <2> QED BY <2>1 DEF RunTyped
<1>2. CASE Set(q, next)
  BY <1>2, SetPlain
<1>3. CASE Call(q, MarkCleared(next, k), Piece(k, run.mark[k], to), Idle(at))
  <2>1. PICK r, back : r = MarkCleared(next, k) /\ back = Idle(at)
    OBVIOUS
  <2> QED BY <1>1, <1>3, <2>1, PiecePlain
<1> QED BY <1>2, <1>3 DEF Data

\* The parser, in another state.
LEMMA FieldsPlain ==
    ASSUME ParserInv
    PROVE  "errno" \in DOMAIN parser /\ (\A s : "errno" \in DOMAIN To(s)) /\ run.at - 1 \in Int /\ run.end \in Int
<1>1. Typed(parser) /\ run.at \in 1 .. Size + 1 /\ run.end \in 0 .. Size /\ Size \in Nat
  BY RunFacts
<1> QED BY <1>1 DEF Typed, FieldNames, To

LEMMA CallbackDataPlain ==
    ASSUME ParserInv, NEW q, "errno" \in DOMAIN q, NEW k \in DataKinds, CallbackData(k, q)
    PROVE  Plain
<1>1. PICK n, at : n = Next1(run) /\ at = run.at + 1
  OBVIOUS
<1>2. Data(k, q, n, run.at - 1, at)
  BY <1>1 DEF CallbackData
<1> QED BY <1>2, FieldsPlain, DataPlain

LEMMA RefusePlain ==
    ASSUME Refuse \/ (\E e : Fail(e)) \/ (\E q : Break(q) \/ Reexecute(q) \/ ScanOn(q)) \/ (\E at : Overflow(at))
    PROVE  Plain
  BY SetPlain DEF Refuse, Fail, Break, Reexecute, ScanOn, Overflow

LEMMA LoopPlain == ASSUME ParserInv, Loop PROVE Plain
<1>1. CASE NextByte
  BY <1>1, SetPlain DEF NextByte
<1>2. CASE ScanEnds
  BY <1>2, SetPlain, RefusePlain DEF ScanEnds
<1>3. CASE EndOfData
  <2>1. CASE Pending = {}
    BY <1>3, <2>1, SetPlain DEF EndOfData
  <2>2. CASE Pending # {}
    <3>1. PICK k \in Pending : Data(k, parser, [run EXCEPT !.pc = "return"], run.end, run.at)
      BY <1>3, <2>2 DEF EndOfData
    <3>2. PICK n, at : n = [run EXCEPT !.pc = "return"] /\ at = run.at
      OBVIOUS
    <3>3. Data(k, parser, n, run.end, at) /\ k \in DataKinds
      BY <3>1, <3>2 DEF Pending
    <3> QED BY <3>3, FieldsPlain, DataPlain
  <2> QED BY <2>1, <2>2
<1>4. CASE Move
  BY <1>4, RefusePlain DEF Move
<1>5. CASE MoveRefused
  BY <1>5, RefusePlain DEF MoveRefused
<1> QED BY <1>1, <1>2, <1>3, <1>4, <1>5 DEF Loop

LEMMA NotifyPlain ==
    ASSUME ParserInv, NEW q, "errno" \in DOMAIN q, NEW k, k # "headers_complete", NEW r,
           Notify(k, q, r) \/ NotifyAgain(k, q)
    PROVE  Plain
<1>1. PICK n, back : Call(q, n, <<<<k>>>>, back)
  BY DEF Notify, NotifyAgain
<1> QED BY <1>1, NoticePlain

\* The actions of the first line.
LEMMA StartPlain == ASSUME ParserInv, StartReqOrRes \/ StartRes \/ StartReq PROVE Plain
<1>1. PICK p : p = Fresh
  OBVIOUS
<1>2. "errno" \in DOMAIN p
  BY <1>1, FieldsPlain DEF Fresh
<1>3. CASE StartReqOrRes
  <2>1. PICK q : q = [p EXCEPT !.state = "s_res_or_resp_H"]
    OBVIOUS
  <2>2. "errno" \in DOMAIN q
    BY <1>2, <2>1
  <2>3. Notify("message_begin", q, run) \/ (\E t : Reexecute(t))
    BY <1>1, <1>3, <2>1 DEF StartReqOrRes
  <2> QED BY <2>2, <2>3, NotifyPlain, RefusePlain
<1>4. CASE StartRes
  <2>1. PICK q : q = [p EXCEPT !.state = "s_res_H"]
    OBVIOUS
  <2>2. "errno" \in DOMAIN q
    BY <1>2, <2>1
  <2>3. Notify("message_begin", q, run) \/ Refuse
    BY <1>1, <1>4, <2>1 DEF StartRes
  <2> QED BY <2>2, <2>3, NotifyPlain, RefusePlain
<1>5. CASE StartReq
  <2>1. PICK q : q = [p EXCEPT !.method = MethodOf[ch], !.index = 1, !.state = "s_req_method"]
    OBVIOUS
  <2>2. "errno" \in DOMAIN q
    BY <1>2, <2>1
  <2>3. Notify("message_begin", q, run) \/ Refuse
    BY <1>1, <1>5, <2>1 DEF StartReq
  <2> QED BY <2>2, <2>3, NotifyPlain, RefusePlain
<1> QED BY <1>3, <1>4, <1>5

LEMMA UrlBytePlain == ASSUME ParserInv, UrlByte PROVE Plain
<1>1. PICK s : s = parse_url_char(parser.state, ch)
  OBVIOUS
<1>2. PICK t : t = To("s_req_http_start")
  OBVIOUS
<1>3. PICK u : u = [parser EXCEPT !.version = "0.9",
                        !.state = IF ch = CR THEN "s_req_line_almost_done" ELSE "s_header_field_start"]
  OBVIOUS
<1>4. "errno" \in DOMAIN t /\ "errno" \in DOMAIN u /\ "url" \in DataKinds
  BY <1>2, <1>3, FieldsPlain DEF DataKinds
<1>5. \/ CallbackData("url", t)
      \/ CallbackData("url", u)
      \/ Refuse
      \/ Break(To(s))
  BY <1>1, <1>2, <1>3 DEF UrlByte
<1> QED BY <1>4, <1>5, CallbackDataPlain, RefusePlain

LEMMA StatusPlain == ASSUME ParserInv, Status PROVE Plain
<1>1. PICK t, u : t = To("s_res_line_almost_done") /\ u = To("s_header_field_start")
  OBVIOUS
<1>2. "errno" \in DOMAIN t /\ "errno" \in DOMAIN u /\ "status" \in DataKinds
  BY <1>1, FieldsPlain DEF DataKinds
<1>3. CallbackData("status", t) \/ CallbackData("status", u) \/ Break(parser)
  BY <1>1 DEF Status
<1> QED BY <1>2, <1>3, CallbackDataPlain, RefusePlain

LEMMA FirstLinePlain == ASSUME ParserInv, FirstLine PROVE Plain
<1>1. CASE ResOrRespH
  BY <1>1, RefusePlain DEF ResOrRespH
<1>2. CASE ReqMethod
  BY <1>2, RefusePlain DEF ReqMethod
<1>3. CASE UrlFirst
  BY <1>3, SetPlain, RefusePlain DEF UrlFirst
<1>4. CASE ReqIce
  BY <1>4, RefusePlain DEF ReqIce
<1>5. CASE ReqVersion \/ ResVersion
  BY <1>5, RefusePlain DEF ReqVersion, ResVersion
<1>6. CASE FirstStatusCode \/ StatusCode
  BY <1>6, RefusePlain DEF FirstStatusCode, StatusCode
<1>7. CASE StatusStart
  BY <1>7, SetPlain DEF StatusStart
<1> QED BY <1>1, <1>2, <1>3, <1>4, <1>5, <1>6, <1>7, StartPlain, UrlBytePlain, StatusPlain DEF FirstLine

\* The actions of the headers, but for the one that announces the head.
LEMMA HeaderFieldPlain == ASSUME ParserInv, HeaderField PROVE Plain
<1>1. PICK t, n, at : /\ t = To("s_header_value_discard_ws") /\ n = Next1(Scanned(run.at)) /\ at = run.at + 1
  OBVIOUS
<1>2. "errno" \in DOMAIN t /\ "header_field" \in DataKinds
  BY <1>1, FieldsPlain DEF DataKinds
<1>3. \/ \E q : ScanOn(q)
      \/ Overflow(run.at)
      \/ Data("header_field", t, n, run.at - 1, at)
      \/ Refuse
  <2>1. CASE ch \in Token
    BY <2>1 DEF HeaderField
  <2>2. CASE ch \notin Token
    <3>1. ScanCount(run.at) \in Nat /\ MaxHeaderSize \in Nat
      <4>1. Here /\ parser.state = "s_header_field"
        BY InHere DEF HeaderField
      <4> QED BY <4>1, ScannedHere, ParserAssumption
    <3>2. CASE ScanCount(run.at) > MaxHeaderSize
      <4>1. ~(ScanCount(run.at) <= MaxHeaderSize)
        BY <3>1, <3>2
      <4> QED BY <2>2, <3>2, <4>1 DEF HeaderField
    <3>3. CASE ScanCount(run.at) <= MaxHeaderSize
      <4>1. ~(ScanCount(run.at) > MaxHeaderSize)
        BY <3>1, <3>3
      <4> QED BY <1>1, <2>2, <3>3, <4>1 DEF HeaderField
    <3> QED BY <3>1, <3>2, <3>3
  <2> QED BY <2>1, <2>2
<1> QED BY <1>2, <1>3, FieldsPlain, DataPlain, RefusePlain

LEMMA HeaderValuePlain == ASSUME ParserInv, HeaderValue PROVE Plain
<1>1. PICK t : t = To("s_header_almost_done")
  OBVIOUS
<1>2. PICK m, n : m = [InScan EXCEPT !.pc = "scanned"] /\ n = Again(Scanned(run.at))
  OBVIOUS
<1>3. PICK at : at = run.at + 1
  OBVIOUS
<1>4. "errno" \in DOMAIN t /\ "header_value" \in DataKinds
  BY <1>1, FieldsPlain DEF DataKinds
<1>5. \/ Data("header_value", t, m, run.at - 1, at)
      \/ Overflow(run.at)
      \/ Data("header_value", t, n, run.at - 1, run.at)
      \/ Fail("INVALID_HEADER_TOKEN")
      \/ ContentLengthByte
      \/ \E q : ScanOn(q)
  BY <1>1, <1>2, <1>3 DEF HeaderValue
<1>6. ContentLengthByte => Plain
  BY RefusePlain DEF ContentLengthByte
<1> QED BY <1>4, <1>5, <1>6, FieldsPlain, DataPlain, RefusePlain

LEMMA HeaderValueDiscardLwsPlain == ASSUME ParserInv, HeaderValueDiscardLws PROVE Plain
<1>1. PICK f : f = ValueFlags(parser.header_state)
  OBVIOUS
<1>2. PICK q : q = [parser EXCEPT !.state = "s_header_field_start", !.flags = @ \cup f]
  OBVIOUS
<1>3. PICK r, back : r = Again(run) /\ back = Idle(run.at)
  OBVIOUS
<1>4. "errno" \in DOMAIN q /\ "header_value" \in DataKinds
  BY <1>2, FieldsPlain DEF DataKinds
<1>5. Fail("INVALID_CONTENT_LENGTH") \/ Call(q, r, Piece("header_value", run.at, run.at - 1), back)
  BY <1>1, <1>2, <1>3 DEF HeaderValueDiscardLws
<1>6. run.at \in Int /\ run.at - 1 \in Int
  <2>1. run.at \in 1 .. Size + 1 /\ Size \in Nat
    BY RunFacts
  <2> QED BY <2>1
<1> QED BY <1>4, <1>5, <1>6, PiecePlain, RefusePlain

LEMMA EndMessagePlain ==
    ASSUME ParserInv, NEW p, "errno" \in DOMAIN p, NEW r, EndMessage(p, r)
    PROVE  Plain
<1>1. PICK s : s = IF ~http_should_keep_alive(p) THEN "s_dead"
                   ELSE IF p.type = "REQUEST" THEN "s_start_req" ELSE "s_start_res"
  OBVIOUS
<1>2. PICK t : t = [p EXCEPT !.state = s]
  OBVIOUS
<1>3. t = NewMessage(p) /\ "errno" \in DOMAIN t
  BY <1>1, <1>2 DEF NewMessage
<1>4. PICK q : q = [t EXCEPT !.nread = IF p.upgrade THEN r.nread ELSE @]
  OBVIOUS
<1>5. "errno" \in DOMAIN q
  BY <1>3, <1>4
<1>6. PICK n, back : n = (IF p.upgrade THEN Idle(run.at + 1) ELSE Next1(r)) /\ back = Idle(run.at + 1)
  OBVIOUS
<1>7. Call(q, n, <<<<"message_complete">>>>, back)
  BY <1>3, <1>4, <1>6 DEF EndMessage
<1> QED BY <1>5, <1>7, NoticePlain

LEMMA HeadersDonePlain == ASSUME ParserInv, HeadersDone PROVE Plain
<1>1. PICK q, r : q = [parser EXCEPT !.nread = 0] /\ r = [run EXCEPT !.nread = 0]
  OBVIOUS
<1>2. "errno" \in DOMAIN q
  BY <1>1, FieldsPlain
<1>3. EndMessage(q, r) \/ (\E p, n : Set(p, n))
  BY <1>1 DEF HeadersDone
<1> QED BY <1>2, <1>3, EndMessagePlain, SetPlain

LEMMA BodyIdentityPlain == ASSUME ParserInv, BodyIdentity PROVE Plain
<1>1. Here /\ parser.state = "s_body_identity"
  BY InHere DEF BodyIdentity
<1>2. parser.content_length \in 1 .. ULLONG_MAX - 1 /\ ULLONG_MAX \in Nat
  BY <1>1, HereFacts, ParserAssumption DEF ParserOK, Sound, Asserted
<1>3. PICK last \in run.at .. run.end : last = LastRead
  BY <1>1, <1>2, ToReadFacts
<1>4. PICK p : p = [MarkAt(run, "body") EXCEPT !.at = last]
  OBVIOUS
<1>5. p.mark["body"] \in Int /\ last \in Int
  <2>1. run.at \in 1 .. Size /\ run.end \in 1 .. Size /\ Size \in Nat
    BY <1>1, HereFacts
  <2>2. p.mark["body"] \in 1 .. Size
    BY <1>1, <1>4, BodyRun
  <2>3. p.mark["body"] \in Int
    BY <2>1, <2>2
  <2>4. last \in Int
    BY <2>1
  <2> QED BY <2>3, <2>4
<1>6. PICK q : q = [parser EXCEPT !.content_length = @ - ToRead]
  OBVIOUS
<1>7. PICK t : t = [q EXCEPT !.state = "s_message_done"]
  OBVIOUS
<1>8. "errno" \in DOMAIN t /\ "body" \in DataKinds
  BY <1>6, <1>7, FieldsPlain DEF DataKinds
<1>9. PICK n, back : n = MarkCleared(Again(p), "body") /\ back = Idle(last)
  OBVIOUS
<1>10. Set(q, Next1(p)) \/ Call(t, n, Piece("body", p.mark["body"], last), back)
  BY <1>3, <1>4, <1>6, <1>7, <1>9 DEF BodyIdentity
<1> QED BY <1>5, <1>8, <1>10, PiecePlain, SetPlain

LEMMA BodyPlain == ASSUME ParserInv, Body PROVE Plain
<1>1. CASE BodyIdentityEof \/ ChunkData
  BY <1>1, SetPlain DEF BodyIdentityEof, ChunkData
<1>2. CASE MessageDone
  BY <1>2, FieldsPlain, EndMessagePlain DEF MessageDone
<1>3. CASE ChunkSizeStart \/ ChunkSize
  BY <1>3, RefusePlain DEF ChunkSizeStart, ChunkSize
<1>4. CASE ChunkSizeAlmostDone
  <2>1. PICK q, u, r :
          /\ q = [parser EXCEPT !.nread = 0, !.flags = @ \cup {"F_TRAILING"}, !.state = "s_header_field_start"]
          /\ u = [parser EXCEPT !.nread = 0, !.state = "s_chunk_data"]
          /\ r = [run EXCEPT !.nread = NreadReset(@)]
    OBVIOUS
  <2>2. "errno" \in DOMAIN q /\ "errno" \in DOMAIN u
    BY <2>1, FieldsPlain
  <2>3. Refuse \/ Notify("chunk_header", q, r) \/ Notify("chunk_header", u, r)
    BY <1>4, <2>1 DEF ChunkSizeAlmostDone
  <2> QED BY <2>2, <2>3, NotifyPlain, RefusePlain
<1>5. CASE ChunkDataAlmostDone
  <2>1. PICK t : t = To("s_chunk_data_done")
    OBVIOUS
  <2>2. "errno" \in DOMAIN t /\ "body" \in DataKinds
    BY <2>1, FieldsPlain DEF DataKinds
  <2>3. Refuse \/ CallbackData("body", t)
    BY <1>5, <2>1 DEF ChunkDataAlmostDone
  <2> QED BY <2>2, <2>3, CallbackDataPlain, RefusePlain
<1>6. CASE ChunkDataDone
  <2>1. PICK q, r : /\ q = [parser EXCEPT !.nread = 0, !.state = "s_chunk_size_start"]
                    /\ r = [run EXCEPT !.nread = NreadReset(@)]
    OBVIOUS
  <2>2. "errno" \in DOMAIN q
    BY <2>1, FieldsPlain
  <2>3. Refuse \/ Notify("chunk_complete", q, r)
    BY <1>6, <2>1 DEF ChunkDataDone
  <2> QED BY <2>2, <2>3, NotifyPlain, RefusePlain
<1> QED BY <1>1, <1>2, <1>3, <1>4, <1>5, <1>6, BodyIdentityPlain DEF Body

LEMMA FeedPlain == ASSUME ParserInv, Feed \/ http_parser_pause PROVE Plain
<1>1. CASE \E n : http_parser_execute(n)
  BY <1>1, SetPlain DEF http_parser_execute
<1>2. CASE http_parser_pause
  BY <1>2, SetPlain DEF http_parser_pause
<1>3. CASE http_parser_execute_eof
  <2>1. PICK r : r = [Idle(run.at) EXCEPT !.pc = "closed", !.nread = parser.nread]
    OBVIOUS
  <2>2. Call(parser, r, <<<<"message_complete">>>>, r) \/ (\E q : Set(q, r))
    BY <1>3, <2>1 DEF http_parser_execute_eof
  <2> QED BY <2>2, FieldsPlain, NoticePlain, SetPlain
<1> QED BY <1>1, <1>2, <1>3 DEF Feed

\* The head is announced at its last byte, which is counted; the call then goes
\* on, or ends with the error of the callback.
LEMMA AnnouncedWithinLimit ==
    ASSUME ParserInv, TextInv, HeadersAlmostDone, pauses = 0, ~Announced(log)
    PROVE  run.at <= MaxHeaderSize /\ (Plain \/ ~(run'.pc = "idle" /\ parser'.errno = "OK"))
<1>1. Here /\ parser.state = "s_headers_almost_done" /\ run.pc = "switch"
  BY InHere DEF HeadersAlmostDone, Here
<1>2. RunTyped(run) /\ Size \in Nat
  BY RunFacts
<1>3. run.at <= MaxHeaderSize
  <2>1. run.start = 0 /\ parser.errno = "OK" /\ Counting(parser, run, log, pauses)
    BY <1>1, TextHere
  <2>2. Counted(parser, run)
    BY <1>1, <2>1 DEF Counting
  <2> QED BY <1>1, <2>1, <2>2 DEF Counted, InCall
<1>4. PICK f, u : f = (IF stream.skip > 0 THEN {"F_SKIPBODY"} ELSE {}) /\ u = (UpgradeOf(parser) \/ stream.skip = 2)
  OBVIOUS
<1>5. PICK q : q = [parser EXCEPT !.state = "s_headers_done", !.nread = run.nread, !.upgrade = u, !.flags = @ \cup f]
  OBVIOUS
<1>6. PICK t : t = To("s_message_done")
  OBVIOUS
<1>7. "errno" \in DOMAIN q /\ "errno" \in DOMAIN t
  BY <1>5, <1>6, FieldsPlain
<1>8. CASE Refuse \/ Fail("UNEXPECTED_CONTENT_LENGTH")
  BY <1>3, <1>8, RefusePlain
<1>9. CASE NotifyAgain("chunk_complete", t)
  BY <1>3, <1>7, <1>9, NotifyPlain
<1>10. CASE NotifyAgain("headers_complete", q)
  <2>1. PICK r, back : r = Again(run) /\ back = Idle(run.at)
    OBVIOUS
  <2>2. r.pc = "switch"
    BY <1>2, <2>1 DEF Again, RunTyped
  <2>3. Call(q, r, <<<<"headers_complete">>>>, back)
    BY <1>10, <2>1 DEF NotifyAgain
  <2>4. \/ run' = r
        \/ parser' = [q EXCEPT !.errno = "CB", !.nread = r.nread]
        \/ parser' = [q EXCEPT !.errno = "PAUSED"]
    BY <2>3 DEF Call
  <2>5. [q EXCEPT !.errno = "CB", !.nread = r.nread].errno = "CB" /\ [q EXCEPT !.errno = "PAUSED"].errno = "PAUSED"
    BY <1>7
  <2> QED BY <1>3, <2>2, <2>4, <2>5
<1>11. Refuse \/ Fail("UNEXPECTED_CONTENT_LENGTH") \/ NotifyAgain("chunk_complete", t) \/ NotifyAgain("headers_complete", q)
  BY <1>4, <1>5, <1>6 DEF HeadersAlmostDone
<1> QED BY <1>8, <1>9, <1>10, <1>11

LEMMA HeadersPlain == ASSUME ParserInv, Headers, ~HeadersAlmostDone PROVE Plain
<1>1. CASE HeaderFieldStart
  BY <1>1, SetPlain, RefusePlain DEF HeaderFieldStart
<1>2. CASE HeaderValueStart
  BY <1>2, SetPlain, RefusePlain DEF HeaderValueStart
<1>3. CASE HeaderValueLws
  BY <1>3, RefusePlain DEF HeaderValueLws
<1> QED BY <1>1, <1>2, <1>3, HeaderFieldPlain, HeaderValuePlain, HeaderValueDiscardLwsPlain, HeadersDonePlain DEF Headers

LEMMA LimitStep ==
    ASSUME ParserInv, TextInv, [Next]_vars, pauses = 0, ~Announced(log)
    PROVE  /\ Announced(log') => run.at <= MaxHeaderSize
           /\ run'.pc = "idle" /\ parser'.errno = "OK" => run'.at - 1 <= MaxHeaderSize
<1>1. CASE Plain
  <2>1. ~Announced(log')
    BY <1>1 DEF Plain
  <2>2. ASSUME run'.pc = "idle", parser'.errno = "OK"
        PROVE  run'.at - 1 <= MaxHeaderSize
    <3>1. pauses' = 0
      BY <1>1, <2>2 DEF Plain
    <3>2. Counting(parser', run', log', pauses')
      BY TextStep DEF TextInv
    <3>3. Counted(parser', run')
      BY <2>1, <2>2, <3>1, <3>2 DEF Counting
    <3> QED BY <2>2, <3>3 DEF Counted
  <2> QED BY <2>1, <2>2
<1>2. CASE HeadersAlmostDone
  BY <1>1, <1>2, AnnouncedWithinLimit
<1>3. CASE UNCHANGED vars
  BY <1>1, <1>3 DEF Plain, vars
<1>4. CASE Next /\ ~HeadersAlmostDone
  BY <1>1, <1>4, FeedPlain, LoopPlain, FirstLinePlain, HeadersPlain, BodyPlain DEF Next
<1> QED BY <1>2, <1>3, <1>4

\* Whatever bytes come: as long as no callback has paused, headers_complete is
\* called for the first head of a connection, and a call of http_parser_execute
\* returns to ask for more of that head, only while the bytes read are within
\* max_header_size.
THEOREM FirstHeadWithinLimit == Spec => HeadWithinLimit
<1>1. ParserInv /\ TextInv /\ [Next]_vars =>
          [pauses = 0 /\ ~Announced(log) =>
              /\ Announced(log') => run.at <= MaxHeaderSize
              /\ run'.pc = "idle" /\ parser'.errno = "OK" => run'.at - 1 <= MaxHeaderSize]_vars
  BY LimitStep
<1> QED BY <1>1, ParserInvariant, TextInvariant, PTL DEF Spec, HeadWithinLimit

-------------------------------------------------------------------------------
(* No call loops                                                           *)

Onwards(q, r) == InCall(r) => r.end = run.end /\ Advances(r, Ahead(q, r))
Goes == Onwards(parser', run')

LEMMA TurnsRange == ASSUME NEW s PROVE Turns(s) \in 1 .. 4
  BY DEF Turns

LEMMA SetGoes == ASSUME NEW q, NEW r, Set(q, r), Onwards(q, r) PROVE Goes
  BY DEF Set, Goes

LEMMA IdleGoes == ASSUME NEW q, NEW at PROVE Onwards(q, Idle(at)) /\ Idle(at).pc = "idle"
  BY DEF Onwards, InCall, Idle

LEMMA CallGoes ==
    ASSUME NEW q, NEW r, NEW ev, NEW back, Call(q, r, ev, back), Onwards(q, r), ~InCall(back)
    PROVE  Goes
<1>1. (parser' = q /\ run' = r) \/ run' = back
  BY DEF Call
<1> QED BY <1>1 DEF Goes, Onwards

LEMMA AheadHere ==
    ASSUME ParserInv, Here
    PROVE  /\ Ahead(parser, run) = Turns(parser.state) /\ RunTyped(run) /\ Typed(parser) /\ Size \in Nat
           /\ run.at \in 1 .. Size /\ run.end \in 1 .. Size /\ run.at <= run.end /\ run.pc = "switch"
<1>1. /\ RunTyped(run) /\ Typed(parser) /\ Size \in Nat /\ run.at \in 1 .. Size /\ run.end \in 1 .. Size
      /\ run.at <= run.end /\ run.pc = "switch"
  BY HereFacts DEF Here
<1>2. ~(run.at > run.end)
  BY <1>1
<1> QED BY <1>1, <1>2 DEF Ahead

\* p->... : the next byte.
LEMMA NextGoes ==
    ASSUME ParserInv, Here, NEW q, NEW p, RunTyped(p), p.at \in 1 .. Size, p.at >= run.at, p.end = run.end,
           NEW r, r = Next1(p)
    PROVE  Onwards(q, r)
<1>1. Size \in Nat /\ run.at \in 1 .. Size
  BY AheadHere
<1>2. r.at = p.at + 1 /\ r.end = run.end
  BY <1>1, MoveRun
<1>3. r.at > run.at
  BY <1>1, <1>2
<1> QED BY <1>2, <1>3 DEF Onwards, Advances

\* goto reexecute: the same byte, in a state with fewer turns to come.
LEMMA AgainGoes ==
    ASSUME ParserInv, Here, NEW q, NEW p, RunTyped(p), p.at = run.at, p.end = run.end,
           NEW r, r = Again(p), Turns(q.state) < Turns(parser.state)
    PROVE  Onwards(q, r)
<1>1. Ahead(parser, run) = Turns(parser.state) /\ run.at <= run.end /\ run.end \in Nat /\ run.at \in 1 .. Size /\ Size \in Nat
  BY AheadHere
<1>2. r.pc = "switch" /\ r.at = run.at /\ r.end = run.end
  BY <1>1, MoveRun
<1>3. ~(r.at > r.end)
  BY <1>1, <1>2
<1>4. Ahead(q, r) = Turns(q.state)
  BY <1>2, <1>3 DEF Ahead
<1> QED BY <1>1, <1>2, <1>4 DEF Onwards, Advances

LEMMA BreakGoes == ASSUME ParserInv, Here, \E q : Break(q) PROVE Goes
<1>1. PICK q, r : Set(q, r) /\ r = Next1(run)
  BY DEF Break
<1>2. Size \in Nat /\ RunTyped(run) /\ run.at \in 1 .. Size
  BY AheadHere
<1>3. Onwards(q, r)
  BY <1>1, <1>2, NextGoes
<1> QED BY <1>1, <1>3, SetGoes

LEMMA FailGoes == ASSUME Refuse \/ (\E e : Fail(e)) \/ (\E at : Overflow(at)) PROVE Goes
<1>1. \E q, at : Set(q, Idle(at))
  BY DEF Refuse, Fail, Overflow
<1> QED BY <1>1, IdleGoes, SetGoes

LEMMA ScanOnGoes == ASSUME ParserInv, Here, \E q : ScanOn(q) PROVE Goes
<1>1. PICK q, p, r : Set(q, r) /\ p = InScan /\ r = [p EXCEPT !.at = @ + 1]
  BY DEF ScanOn
<1>2. RunTyped(run) /\ Size \in Nat /\ run.at \in 1 .. Size /\ run.start <= run.at
  BY HereFacts
<1>3. RunTyped(p) /\ p.at = run.at /\ p.end = run.end
  BY <1>1, <1>2, InScanFacts
<1>4. r.at = run.at + 1 /\ r.end = run.end
  BY <1>1, <1>3 DEF RunTyped
<1>5. Onwards(q, r)
  BY <1>2, <1>4 DEF Onwards, Advances
<1> QED BY <1>1, <1>5, SetGoes

LEMMA ReexecuteGoes ==
    ASSUME ParserInv, Here, NEW q, Reexecute(q), Turns(q.state) < Turns(parser.state)
    PROVE  Goes
<1>1. PICK r : Set(q, r) /\ r = Again(run)
  BY DEF Reexecute
<1>2. Onwards(q, r)
  BY <1>1, AheadHere, AgainGoes
<1> QED BY <1>1, <1>2, SetGoes

LEMMA NotifyGoes ==
    ASSUME ParserInv, Here, NEW p, RunTyped(p), p.at = run.at, p.end = run.end, \E k, q : Notify(k, q, p)
    PROVE  Goes
<1>1. PICK k, q, r, back : r = Next1(p) /\ back = Idle(run.at + 1) /\ Call(q, r, <<<<k>>>>, back)
  BY DEF Notify
<1>2. p.at \in 1 .. Size /\ p.at >= run.at
  BY AheadHere
<1>3. Onwards(q, r)
  BY <1>1, <1>2, NextGoes
<1>4. ~InCall(back)
  BY <1>1 DEF InCall, Idle
<1> QED BY <1>1, <1>3, <1>4, CallGoes

LEMMA NotifyAgainGoes ==
    ASSUME ParserInv, Here, NEW k, NEW q, NotifyAgain(k, q), Turns(q.state) < Turns(parser.state)
    PROVE  Goes
<1>1. PICK r, back : r = Again(run) /\ back = Idle(run.at) /\ Call(q, r, <<<<k>>>>, back)
  BY DEF NotifyAgain
<1>2. Onwards(q, r)
  BY <1>1, AheadHere, AgainGoes
<1>3. ~InCall(back)
  BY <1>1 DEF InCall, Idle
<1> QED BY <1>1, <1>2, <1>3, CallGoes

\* Clearing a mark changes nothing else.
LEMMA ClearedGoes ==
    ASSUME NEW q, NEW p, RunTyped(p), NEW k \in DataKinds, NEW r, r = MarkCleared(p, k), Onwards(q, p)
    PROVE  Onwards(q, r)
<1>1. r.pc = p.pc /\ r.at = p.at /\ r.end = p.end
  BY DEF MarkCleared, RunTyped
<1>2. InCall(r) = InCall(p) /\ Ahead(q, r) = Ahead(q, p)
  BY <1>1 DEF InCall, Ahead
<1> QED BY <1>1, <1>2 DEF Onwards, Advances

LEMMA DataGoes ==
    ASSUME NEW k \in DataKinds, NEW q, NEW p, RunTyped(p), NEW to, NEW at, Data(k, q, p, to, at), Onwards(q, p)
    PROVE  Goes
<1>1. CASE Set(q, p)
  BY <1>1, SetGoes
<1>2. CASE Call(q, MarkCleared(p, k), Piece(k, run.mark[k], to), Idle(at))
  <2>1. PICK r, ev, back : r = MarkCleared(p, k) /\ ev = Piece(k, run.mark[k], to) /\ back = Idle(at)
    OBVIOUS
  <2>2. Onwards(q, r)
    BY <2>1, ClearedGoes
  <2>3. ~InCall(back)
    BY <2>1 DEF InCall, Idle
  <2> QED BY <1>2, <2>1, <2>2, <2>3, CallGoes
<1> QED BY <1>1, <1>2 DEF Data

LEMMA CallbackDataGoes ==
    ASSUME ParserInv, Here, NEW k \in DataKinds, \E q : CallbackData(k, q)
    PROVE  Goes
<1>1. PICK q, r, to, at : r = Next1(run) /\ Data(k, q, r, to, at)
  BY DEF CallbackData
<1>2. RunTyped(run) /\ Size \in Nat /\ run.at \in 1 .. Size
  BY AheadHere
<1>3. RunTyped(r) /\ Onwards(q, r)
  BY <1>1, <1>2, MoveRun, NextGoes
<1> QED BY <1>1, <1>3, DataGoes

\* The parser, in another state.
LEMMA ToState == ASSUME ParserInv, NEW s, NEW q, q = To(s) PROVE q.state = s
<1>1. Typed(parser)
  BY RunFacts
<1> QED BY <1>1 DEF To, Typed, FieldNames

\* The loop and its ends.
LEMMA LoopGoes == ASSUME ParserInv, InCall(run), Loop PROVE Goes
<1>0. /\ RunTyped(run) /\ Size \in Nat /\ run.at \in 1 .. Size + 1 /\ run.end \in 0 .. Size /\ run.at <= run.end + 1
      /\ MarksOK(parser.state, run) /\ run.start \in 0 .. run.at
  BY RunFacts DEF RangeOK, InCall
<1>1. CASE NextByte
  <2>1. PICK n \in Nat : n = IF parser.state \in BodyStates THEN run.nread ELSE run.nread + 1
    BY RunFacts
  <2>2. PICK r : r = [run EXCEPT !.pc = "switch", !.nread = n]
    OBVIOUS
  <2>3. Set([parser EXCEPT !.errno = "HEADER_OVERFLOW", !.nread = n], Idle(run.at)) \/ Set(parser, r)
    BY <1>1, <2>1, <2>2 DEF NextByte
  <2>4. Onwards(parser, r)
    <3>1. r.pc = "switch" /\ r.at = run.at /\ r.end = run.end /\ run.pc = "top" /\ ~(run.at > run.end)
      BY <1>0, <1>1, <2>2 DEF RunTyped, NextByte
    <3>2. Ahead(parser, run) = 5 /\ Ahead(parser, r) = Turns(parser.state)
      BY <3>1 DEF Ahead
    <3> QED BY <1>0, <3>1, <3>2, TurnsRange DEF Onwards, Advances
  <2> QED BY <2>3, <2>4, SetGoes, IdleGoes
<1>2. CASE ScanEnds
  <2>1. PICK at : at = IF run.at > run.end THEN run.end ELSE run.at
    OBVIOUS
  <2>2. PICK p, r : p = Scanned(at) /\ r = Next1(p)
    OBVIOUS
  <2>3. Overflow(at) \/ Set(parser, r)
    BY <1>2, <2>1, <2>2 DEF ScanEnds
  <2>4. at \in 1 .. Size /\ (run.start \in 1 .. at \/ (run.start = 0 /\ run.at = at))
    <3>1. CASE run.at > run.end
      <4>1. run.pc = "switch"
        BY <1>0, <1>2, <3>1, RunFacts DEF ScanEnds, RangeOK
      <4>2. run.start \in 1 .. run.end
        BY <1>0, <3>1, <4>1 DEF MarksOK
      <4> QED BY <1>0, <2>1, <3>1, <4>2
    <3>2. CASE ~(run.at > run.end)
      BY <1>0, <2>1, <3>2
    <3> QED BY <3>1, <3>2
  <2>5. RunTyped(p) /\ p.at = at /\ p.end = run.end
    BY <1>0, <2>2, <2>4, ScannedFacts
  <2>6. r.pc = "top" /\ r.at = at + 1 /\ r.end = run.end
    BY <1>0, <2>2, <2>4, <2>5, MoveRun
  <2>7. Onwards(parser, r)
    <3>1. CASE run.at > run.end
      <4>1. run.pc = "switch" /\ r.at = run.at /\ r.at > r.end
        BY <1>0, <1>2, <2>1, <2>6, <3>1, RunFacts DEF ScanEnds, RangeOK
      <4>2. Ahead(parser, run) = 2 /\ Ahead(parser, r) = 1
        BY <2>6, <3>1, <4>1 DEF Ahead
      <4> QED BY <2>6, <4>1, <4>2 DEF Onwards, Advances
    <3>2. CASE ~(run.at > run.end)
      <4>1. r.at > run.at
        BY <1>0, <2>1, <2>6, <3>2
      <4> QED BY <2>6, <4>1 DEF Onwards, Advances
    <3> QED BY <3>1, <3>2
  <2> QED BY <2>3, <2>7, FailGoes, SetGoes
<1>3. CASE EndOfData
  <2>1. CASE Set([parser EXCEPT !.nread = run.nread], Idle(run.at))
    BY <2>1, SetGoes, IdleGoes
  <2>2. CASE Pending # {} /\ \E k \in Pending : Data(k, parser, [run EXCEPT !.pc = "return"], run.end, run.at)
    <3>1. PICK k, p : k \in DataKinds /\ p = [run EXCEPT !.pc = "return"] /\ Data(k, parser, p, run.end, run.at)
      BY <2>2 DEF Pending
    <3>2. run.pc = "top" /\ run.at > run.end
      BY <1>0, <1>3, <2>2 DEF EndOfData, MarksOK, Pending, PendingOf
    <3>3. RunTyped(p) /\ p.pc = "return" /\ p.at = run.at /\ p.end = run.end
      BY <1>0, <3>1 DEF RunTyped, Places
    <3>4. Ahead(parser, run) = 1 /\ Ahead(parser, p) = 0
      BY <3>2, <3>3 DEF Ahead
    <3>5. Onwards(parser, p)
      BY <3>3, <3>4 DEF Onwards, Advances
    <3>6. PICK to, at : to = run.end /\ at = run.at
      OBVIOUS
    <3> QED BY <3>1, <3>3, <3>5, <3>6, DataGoes
  <2> QED BY <1>3, <2>1, <2>2 DEF EndOfData
<1>4. CASE Move
  BY <1>4, InHere, BreakGoes DEF Move
<1>5. CASE MoveRefused
  BY <1>5, FailGoes DEF MoveRefused
<1> QED BY <1>1, <1>2, <1>3, <1>4, <1>5 DEF Loop

LEMMA StartGoes == ASSUME ParserInv, StartReqOrRes \/ StartRes \/ StartReq PROVE Goes
<1>1. CASE StartReqOrRes
  <2>1. Here /\ parser.state = "s_start_req_or_res"
    BY <1>1, InHere DEF StartReqOrRes
  <2>2. PICK f, q : f = Fresh /\ q = [f EXCEPT !.type = "REQUEST", !.state = "s_start_req"]
    OBVIOUS
  <2>3. (\E k, u : Notify(k, u, run)) \/ Reexecute(q)
    BY <1>1, <2>2 DEF StartReqOrRes
  <2>4. q.state = "s_start_req"
    <3>1. "state" \in DOMAIN f
      BY <2>1, <2>2, AheadHere DEF Typed, FieldNames, Fresh
    <3> QED BY <2>2, <3>1
  <2>5. Turns(q.state) < Turns(parser.state)
    BY <2>1, <2>4 DEF Turns
  <2> QED BY <2>1, <2>3, <2>5, AheadHere, NotifyGoes, ReexecuteGoes
<1>2. CASE StartRes
  <2>1. Here
    BY <1>2, InHere DEF StartRes
  <2>2. (\E k, u : Notify(k, u, run)) \/ Refuse
    BY <1>2 DEF StartRes
  <2> QED BY <2>1, <2>2, AheadHere, NotifyGoes, FailGoes
<1>3. CASE StartReq
  <2>1. Here
    BY <1>3, InHere DEF StartReq
  <2>2. (\E k, u : Notify(k, u, run)) \/ Refuse
    BY <1>3 DEF StartReq
  <2> QED BY <2>1, <2>2, AheadHere, NotifyGoes, FailGoes
<1> QED BY <1>1, <1>2, <1>3

\* MARK and break
LEMMA MarkGoes ==
    ASSUME ParserInv, Here, NEW k \in DataKinds, \E q : Set(q, Next1(MarkAt(run, k)))
    PROVE  Goes
<1>1. PICK q, p, r : p = MarkAt(run, k) /\ r = Next1(p) /\ Set(q, r)
  OBVIOUS
<1>2. Size \in Nat /\ RunTyped(run) /\ run.at \in 1 .. Size
  BY AheadHere
<1>3. RunTyped(p) /\ p.at = run.at /\ p.end = run.end
  BY <1>1, <1>2, MarkRun
<1>4. Onwards(q, r)
  BY <1>1, <1>2, <1>3, NextGoes
<1> QED BY <1>1, <1>4, SetGoes

LEMMA StatusStartGoes == ASSUME ParserInv, StatusStart PROVE Goes
<1>1. Here /\ parser.state = "s_res_status_start" /\ "status" \in DataKinds
  BY InHere DEF StatusStart, DataKinds
<1>2. PICK q, p, r : q = To("s_res_status") /\ p = MarkAt(run, "status") /\ r = Again(p)
  OBVIOUS
<1>3. Set(q, r) \/ Set(q, Next1(MarkAt(run, "status")))
  BY <1>2 DEF StatusStart
<1>4. Onwards(q, r)
  <2>1. Size \in Nat /\ RunTyped(run) /\ run.at \in 1 .. Size
    BY <1>1, AheadHere
  <2>2. RunTyped(p) /\ p.at = run.at /\ p.end = run.end
    BY <1>1, <1>2, <2>1, MarkRun
  <2>3. q.state = "s_res_status"
    BY <1>2, ToState
  <2>4. Turns(q.state) < Turns(parser.state)
    BY <1>1, <2>3 DEF Turns
  <2> QED BY <1>1, <1>2, <2>2, <2>4, AgainGoes
<1> QED BY <1>1, <1>3, <1>4, SetGoes, MarkGoes

LEMMA FirstLineGoes == ASSUME ParserInv, FirstLine PROVE Goes
<1>1. CASE ResOrRespH
  BY <1>1, InHere, BreakGoes, FailGoes DEF ResOrRespH
<1>2. CASE ReqMethod
  BY <1>2, InHere, BreakGoes, FailGoes DEF ReqMethod
<1>3. CASE UrlFirst
  BY <1>3, InHere, MarkGoes, FailGoes DEF UrlFirst, DataKinds
<1>4. CASE UrlByte
  BY <1>4, InHere, CallbackDataGoes, BreakGoes, FailGoes DEF UrlByte, DataKinds
<1>5. CASE ReqIce
  BY <1>5, InHere, BreakGoes, FailGoes DEF ReqIce
<1>6. CASE ReqVersion
  BY <1>6, InHere, BreakGoes, FailGoes DEF ReqVersion
<1>7. CASE ResVersion
  BY <1>7, InHere, BreakGoes, FailGoes DEF ResVersion
<1>8. CASE FirstStatusCode
  BY <1>8, InHere, BreakGoes, FailGoes DEF FirstStatusCode
<1>9. CASE StatusCode
  <2>1. Here /\ parser.state = "s_res_status_code"
    <3>1. In({"s_res_status_code"})
      BY <1>9 DEF StatusCode
    <3> QED BY <3>1, InHere
  <2>2. PICK q : q = To("s_res_status_start")
    OBVIOUS
  <2>3. Reexecute(q) \/ (\E t : Break(t)) \/ Refuse
    BY <1>9, <2>2 DEF StatusCode
  <2>4. Turns(q.state) < Turns(parser.state)
    <3>1. q.state = "s_res_status_start"
      BY <2>2, ToState
    <3> QED BY <2>1, <3>1 DEF Turns
  <2> QED BY <2>1, <2>3, <2>4, ReexecuteGoes, BreakGoes, FailGoes
<1>10. CASE Status
  BY <1>10, InHere, CallbackDataGoes, BreakGoes DEF Status, DataKinds
<1> QED BY <1>1, <1>2, <1>3, <1>4, <1>5, <1>6, <1>7, <1>8, <1>9, <1>10, StartGoes, StatusStartGoes DEF FirstLine

\* The string ends: the call goes on with q at p.
LEMMA HeaderFieldStartGoes == ASSUME ParserInv, HeaderFieldStart PROVE Goes
<1>1. Here /\ parser.state = "s_header_field_start" /\ "header_field" \in DataKinds
  BY InHere DEF HeaderFieldStart, DataKinds
<1>2. PICK q : q = EndOfHeaders(parser)
  OBVIOUS
<1>3. \/ Reexecute(q)
      \/ \E p : Set(p, Next1(MarkAt(run, "header_field")))
      \/ Refuse
  BY <1>2 DEF HeaderFieldStart
<1>4. Turns(q.state) < Turns(parser.state)
  <2>1. q.state = "s_headers_almost_done"
    BY <1>2, RunFacts DEF EndOfHeaders, Typed, FieldNames
  <2> QED BY <1>1, <2>1 DEF Turns
<1> QED BY <1>1, <1>3, <1>4, ReexecuteGoes, MarkGoes, FailGoes

LEMMA HeaderFieldGoes == ASSUME ParserInv, HeaderField PROVE Goes
<1>1. Here /\ parser.state = "s_header_field" /\ "header_field" \in DataKinds
  BY InHere DEF HeaderField, DataKinds
<1>2. PICK q, p, n : q = To("s_header_value_discard_ws") /\ p = Scanned(run.at) /\ n = Next1(p)
  OBVIOUS
<1>3. PICK to, at : to = run.at - 1 /\ at = run.at + 1
  OBVIOUS
<1>4. (\E t : ScanOn(t)) \/ Overflow(run.at) \/ Data("header_field", q, n, to, at) \/ Refuse
  <2>1. CASE ch \in Token
    BY <2>1 DEF HeaderField
  <2>2. CASE ch \notin Token
    <3>1. ScanCount(run.at) \in Nat /\ MaxHeaderSize \in Nat
      BY <1>1, ScannedHere, ParserAssumption
    <3>2. CASE ScanCount(run.at) > MaxHeaderSize
      <4>1. ~(ScanCount(run.at) <= MaxHeaderSize)
        BY <3>1, <3>2
      <4> QED BY <2>2, <3>2, <4>1 DEF HeaderField
    <3>3. CASE ScanCount(run.at) <= MaxHeaderSize
      <4>1. ~(ScanCount(run.at) > MaxHeaderSize)
        BY <3>1, <3>3
      <4> QED BY <1>2, <1>3, <2>2, <3>3, <4>1 DEF HeaderField
    <3> QED BY <3>1, <3>2, <3>3
  <2> QED BY <2>1, <2>2
<1>5. RunTyped(n) /\ Onwards(q, n)
  <2>1. RunTyped(p) /\ p.at = run.at /\ p.end = run.end
    BY <1>1, <1>2, ScannedHere
  <2>2. Size \in Nat /\ run.at \in 1 .. Size
    BY <1>1, AheadHere
  <2> QED BY <1>1, <1>2, <2>1, <2>2, MoveRun, NextGoes
<1> QED BY <1>1, <1>4, <1>5, ScanOnGoes, FailGoes, DataGoes

LEMMA HeaderValueGoes == ASSUME ParserInv, HeaderValue PROVE Goes
<1>1. Here /\ parser.state = "s_header_value" /\ "header_value" \in DataKinds
  BY InHere DEF HeaderValue, DataKinds
<1>2. PICK t, p, n, m : /\ t = To("s_header_almost_done") /\ p = Scanned(run.at) /\ n = Again(p)
                        /\ m = [InScan EXCEPT !.pc = "scanned"]
  OBVIOUS
<1>3. PICK to, at : to = run.at - 1 /\ at = run.at + 1
  OBVIOUS
<1>4. \/ Data("header_value", t, m, to, at)
      \/ Overflow(run.at)
      \/ Data("header_value", t, n, to, run.at)
      \/ Fail("INVALID_HEADER_TOKEN")
      \/ ContentLengthByte
      \/ \E q : ScanOn(q)
  BY <1>2, <1>3 DEF HeaderValue
<1>5. ContentLengthByte => Fail("INVALID_CONTENT_LENGTH") \/ (\E q : ScanOn(q))
  BY DEF ContentLengthByte
<1>6. Size \in Nat /\ RunTyped(run) /\ run.at \in 1 .. Size /\ run.at <= run.end /\ run.end \in 1 .. Size /\ run.start <= run.at
  BY <1>1, AheadHere, HereFacts
<1>7. t.state = "s_header_almost_done"
  BY <1>2, ToState
<1>8. RunTyped(n) /\ Onwards(t, n)
  <2>1. RunTyped(p) /\ p.at = run.at /\ p.end = run.end
    BY <1>1, <1>2, ScannedHere
  <2>2. Turns(t.state) < Turns(parser.state)
    BY <1>1, <1>7 DEF Turns
  <2> QED BY <1>1, <1>2, <1>6, <2>1, <2>2, MoveRun, AgainGoes
<1>9. RunTyped(m) /\ Onwards(t, m)
  <2>1. PICK i : i = InScan
    OBVIOUS
  <2>2. RunTyped(i) /\ i.at = run.at /\ i.end = run.end
    BY <1>6, <2>1, InScanFacts
  <2>3. RunTyped(m) /\ m.pc = "scanned" /\ m.at = run.at /\ m.end = run.end
    BY <1>2, <2>1, <2>2 DEF RunTyped, Places
  <2>4. ~(m.at > m.end)
    BY <1>6, <2>3
  <2>5. Ahead(t, m) = 0 /\ Ahead(parser, run) = Turns(parser.state)
    BY <1>1, <2>3, <2>4, AheadHere DEF Ahead
  <2>6. Ahead(t, m) < Ahead(parser, run)
    BY <2>5, TurnsRange
  <2> QED BY <2>3, <2>6 DEF Onwards, Advances
<1> QED BY <1>1, <1>4, <1>5, <1>8, <1>9, ScanOnGoes, FailGoes, DataGoes

LEMMA HeaderValueLwsGoes == ASSUME ParserInv, HeaderValueLws PROVE Goes
<1>1. Here /\ parser.state = "s_header_value_lws"
  <2>1. In({"s_header_value_lws"})
    BY DEF HeaderValueLws
  <2> QED BY <2>1, InHere
<1>2. PICK h, f : h = (IF parser.header_state = "h_content_length_num" THEN "h_content_length_ws" ELSE parser.header_state)
                  /\ f = ValueFlags(parser.header_state)
  OBVIOUS
<1>3. PICK q : q = [parser EXCEPT !.state = "s_header_value_start", !.header_state = h]
  OBVIOUS
<1>4. PICK t : t = [parser EXCEPT !.state = "s_header_field_start", !.flags = @ \cup f]
  OBVIOUS
<1>5. Reexecute(q) \/ Reexecute(t)
  BY <1>2, <1>3, <1>4 DEF HeaderValueLws
<1>6. q.state = "s_header_value_start" /\ t.state = "s_header_field_start"
  BY <1>3, <1>4, RunFacts DEF Typed, FieldNames
<1>7. Turns(q.state) < Turns(parser.state) /\ Turns(t.state) < Turns(parser.state)
  BY <1>1, <1>6 DEF Turns
<1> QED BY <1>1, <1>5, <1>7, ReexecuteGoes

LEMMA HeaderValueDiscardLwsGoes == ASSUME ParserInv, HeaderValueDiscardLws PROVE Goes
<1>1. Here /\ parser.state = "s_header_value_discard_lws"
  <2>1. In({"s_header_value_discard_lws"})
    BY DEF HeaderValueDiscardLws
  <2> QED BY <2>1, InHere
<1>2. PICK f, ev, r, back : /\ f = ValueFlags(parser.header_state) /\ ev = Piece("header_value", run.at, run.at - 1)
                            /\ r = Again(run) /\ back = Idle(run.at)
  OBVIOUS
<1>3. PICK t : t = [parser EXCEPT !.state = "s_header_field_start", !.flags = @ \cup f]
  OBVIOUS
<1>4. Fail("INVALID_CONTENT_LENGTH") \/ Call(t, r, ev, back)
  BY <1>2, <1>3 DEF HeaderValueDiscardLws
<1>5. Onwards(t, r)
  <2>1. t.state = "s_header_field_start"
    BY <1>3, RunFacts DEF Typed, FieldNames
  <2>2. Turns(t.state) < Turns(parser.state)
    BY <1>1, <2>1 DEF Turns
  <2> QED BY <1>1, <1>2, <2>2, AheadHere, AgainGoes
<1>6. ~InCall(back)
  BY <1>2 DEF InCall, Idle
<1> QED BY <1>4, <1>5, <1>6, FailGoes, CallGoes

LEMMA HeadersAlmostDoneGoes == ASSUME ParserInv, HeadersAlmostDone PROVE Goes
<1>1. Here /\ parser.state = "s_headers_almost_done"
  BY InHere DEF HeadersAlmostDone
<1>2. PICK f, u : f = (IF stream.skip > 0 THEN {"F_SKIPBODY"} ELSE {}) /\ u = (UpgradeOf(parser) \/ stream.skip = 2)
  OBVIOUS
<1>3. PICK q : q = [parser EXCEPT !.state = "s_headers_done", !.nread = run.nread, !.upgrade = u, !.flags = @ \cup f]
  OBVIOUS
<1>4. PICK t : t = To("s_message_done")
  OBVIOUS
<1>5. \/ Refuse \/ Fail("UNEXPECTED_CONTENT_LENGTH")
      \/ NotifyAgain("chunk_complete", t) \/ NotifyAgain("headers_complete", q)
  BY <1>2, <1>3, <1>4 DEF HeadersAlmostDone
<1>6. q.state = "s_headers_done" /\ t.state = "s_message_done"
  BY <1>3, <1>4, ToState, RunFacts DEF Typed, FieldNames
<1>7. Turns(q.state) < Turns(parser.state) /\ Turns(t.state) < Turns(parser.state)
  BY <1>1, <1>6 DEF Turns
<1> QED BY <1>1, <1>5, <1>7, FailGoes, NotifyAgainGoes

LEMMA HeaderValueStartGoes == ASSUME ParserInv, HeaderValueStart PROVE Goes
<1>1. Here /\ "header_value" \in DataKinds
  <2>1. In({"s_header_value_start"}) \/ In({"s_header_value_discard_ws"})
    BY DEF HeaderValueStart
  <2> QED BY <2>1, InHere DEF DataKinds
<1>2. (\E e : Fail(e)) \/ (\E q : Set(q, Next1(MarkAt(run, "header_value"))))
  BY DEF HeaderValueStart
<1> QED BY <1>1, <1>2, FailGoes, MarkGoes

\* The message has ended: the next byte, or the end of the call.
LEMMA EndMessageGoes ==
    ASSUME ParserInv, Here, NEW p, NEW r, RunTyped(r), r.at = run.at, r.end = run.end, EndMessage(p, r)
    PROVE  Goes
<1>1. PICK n, back : n = (IF p.upgrade THEN Idle(run.at + 1) ELSE Next1(r)) /\ back = Idle(run.at + 1)
  OBVIOUS
<1>2. PICK q, ev : Call(q, n, ev, back)
  BY <1>1 DEF EndMessage
<1>3. Onwards(q, n)
  <2>1. r.at \in 1 .. Size /\ r.at >= run.at
    BY AheadHere
  <2>2. CASE n = Next1(r)
    BY <2>1, <2>2, NextGoes
  <2>3. CASE n = Idle(run.at + 1)
    BY <2>3, IdleGoes
  <2> QED BY <1>1, <2>2, <2>3
<1>4. ~InCall(back)
  BY <1>1 DEF InCall, Idle
<1> QED BY <1>2, <1>3, <1>4, CallGoes

LEMMA HeadersDoneGoes == ASSUME ParserInv, HeadersDone PROVE Goes
<1>1. Here
  BY InHere DEF HeadersDone
<1>2. PICK q, r : q = [parser EXCEPT !.nread = 0] /\ r = [run EXCEPT !.nread = 0]
  OBVIOUS
<1>3. \/ EndMessage(q, r)
      \/ \E p : Set(p, Next1(r))
      \/ \E p : Set(p, Idle(run.at))
  BY <1>2 DEF HeadersDone
<1>4. RunTyped(r) /\ r.at = run.at /\ r.end = run.end /\ r.at \in 1 .. Size /\ r.at >= run.at
  <2>1. RunTyped(run) /\ run.at \in 1 .. Size /\ Size \in Nat
    BY <1>1, AheadHere
  <2> QED BY <1>2, <2>1 DEF RunTyped, Places
<1>5. PICK n, i : n = Next1(r) /\ i = Idle(run.at)
  OBVIOUS
<1>6. \A p : Onwards(p, n) /\ Onwards(p, i)
  BY <1>1, <1>4, <1>5, NextGoes, IdleGoes
<1> QED BY <1>1, <1>3, <1>4, <1>5, <1>6, EndMessageGoes, SetGoes

LEMMA HeadersGoes == ASSUME ParserInv, Headers PROVE Goes
BY HeaderFieldStartGoes, HeaderFieldGoes, HeaderValueStartGoes, HeaderValueGoes, HeaderValueLwsGoes,
   HeaderValueDiscardLwsGoes, HeadersAlmostDoneGoes, HeadersDoneGoes DEF Headers

\* The body is read at once as far as the piece or the body goes.
LEMMA BodyReadGoes ==
    ASSUME ParserInv, Here, NEW q, NEW last \in run.at .. run.end,
           NEW p, p = [MarkAt(run, "body") EXCEPT !.at = last], NEW r, r = Next1(p)
    PROVE  Onwards(q, r)
<1>1. RunTyped(p) /\ p.at = last /\ p.end = run.end /\ last \in 1 .. Size
  BY BodyRun
<1>2. p.at \in 1 .. Size /\ p.at >= run.at
  BY <1>1, AheadHere
<1> QED BY <1>1, <1>2, NextGoes

LEMMA BodyIdentityGoes == ASSUME ParserInv, BodyIdentity PROVE Goes
<1>1. Here /\ parser.state = "s_body_identity" /\ "body" \in DataKinds
  <2>1. In({"s_body_identity"})
    BY DEF BodyIdentity
  <2> QED BY <2>1, InHere DEF DataKinds
<1>2. parser.content_length \in 1 .. ULLONG_MAX - 1 /\ ULLONG_MAX \in Nat
  BY <1>1, HereFacts, ParserAssumption DEF ParserOK, Sound, Asserted
<1>3. PICK last \in run.at .. run.end : last = LastRead
  BY <1>1, <1>2, ToReadFacts
<1>4. PICK p : p = [MarkAt(run, "body") EXCEPT !.at = last]
  OBVIOUS
<1>5. RunTyped(p) /\ p.at = last /\ p.end = run.end /\ last \in 1 .. Size
  BY <1>1, <1>4, BodyRun
<1>6. PICK q : q = [parser EXCEPT !.content_length = @ - ToRead]
  OBVIOUS
<1>7. PICK t : t = [q EXCEPT !.state = "s_message_done"]
  OBVIOUS
<1>8. PICK a, n, ev, back : /\ a = Again(p) /\ n = MarkCleared(a, "body")
                            /\ ev = Piece("body", p.mark["body"], last) /\ back = Idle(last)
  OBVIOUS
<1>9. PICK m : m = Next1(p)
  OBVIOUS
<1>10. Set(q, m) \/ Call(t, n, ev, back)
  BY <1>3, <1>4, <1>6, <1>7, <1>8, <1>9 DEF BodyIdentity
<1>11. Onwards(q, m)
  BY <1>1, <1>4, <1>9, BodyReadGoes
<1>12. Onwards(t, n)
  <2>1. /\ Size \in Nat /\ run.at \in 1 .. Size /\ run.end \in 1 .. Size
        /\ Ahead(parser, run) = Turns(parser.state)
    BY <1>1, AheadHere
  <2>2. RunTyped(a) /\ a.pc = "switch" /\ a.at = last /\ a.end = run.end
    BY <1>5, <1>8, <2>1, MoveRun
  <2>3. t.state = "s_message_done"
    BY <1>6, <1>7, RunFacts DEF Typed, FieldNames
  <2>4. ~(a.at > a.end) /\ (a.at > run.at \/ a.at = run.at)
    BY <2>1, <2>2
  <2>5. Ahead(t, a) = 1 /\ Ahead(parser, run) = 2
    BY <1>1, <2>1, <2>2, <2>3, <2>4 DEF Ahead, Turns
  <2>6. Onwards(t, a)
    BY <2>2, <2>4, <2>5 DEF Onwards, Advances
  <2> QED BY <1>1, <1>8, <2>2, <2>6, ClearedGoes
<1>13. ~InCall(back)
  BY <1>8 DEF InCall, Idle
<1> QED BY <1>10, <1>11, <1>12, <1>13, SetGoes, CallGoes

LEMMA BodyIdentityEofGoes == ASSUME ParserInv, BodyIdentityEof PROVE Goes
<1>1. Here
  BY InHere DEF BodyIdentityEof
<1>2. PICK p, r : p = [MarkAt(run, "body") EXCEPT !.at = run.end] /\ r = Next1(p)
  OBVIOUS
<1>3. Set(parser, r)
  BY <1>2 DEF BodyIdentityEof
<1>4. PICK last \in run.at .. run.end : last = run.end
  BY <1>1, AheadHere
<1>5. Onwards(parser, r)
  BY <1>1, <1>2, <1>4, BodyReadGoes
<1> QED BY <1>3, <1>5, SetGoes

LEMMA ChunkDataGoes == ASSUME ParserInv, ChunkData PROVE Goes
<1>1. Here /\ parser.state = "s_chunk_data"
  <2>1. In({"s_chunk_data"})
    BY DEF ChunkData
  <2> QED BY <2>1, InHere
<1>2. parser.content_length \in 1 .. ULLONG_MAX - 1 /\ ULLONG_MAX \in Nat
  BY <1>1, HereFacts, ParserAssumption DEF ParserOK, Sound, Asserted
<1>3. PICK last \in run.at .. run.end : last = LastRead
  BY <1>1, <1>2, ToReadFacts
<1>4. PICK p, r : p = [MarkAt(run, "body") EXCEPT !.at = last] /\ r = Next1(p)
  OBVIOUS
<1>5. \E q : Set(q, r)
  BY <1>3, <1>4 DEF ChunkData
<1> QED BY <1>1, <1>4, <1>5, BodyReadGoes, SetGoes

\* A run whose count of header bytes starts again.
LEMMA NotifyResetGoes ==
    ASSUME ParserInv, Here, \E k, q : Notify(k, q, [run EXCEPT !.nread = NreadReset(@)])
    PROVE  Goes
<1>1. PICK r : r = [run EXCEPT !.nread = NreadReset(@)] /\ \E k, q : Notify(k, q, r)
  OBVIOUS
<1>2. RunTyped(run)
  BY AheadHere
<1>3. RunTyped(r) /\ r.at = run.at /\ r.end = run.end
  BY <1>1, <1>2 DEF RunTyped, Places, NreadReset
<1> QED BY <1>1, <1>3, NotifyGoes

LEMMA BodyGoes == ASSUME ParserInv, Body PROVE Goes
<1>1. CASE MessageDone
  BY <1>1, InHere, AheadHere, EndMessageGoes DEF MessageDone
<1>2. CASE ChunkSizeStart
  BY <1>2, InHere, BreakGoes, FailGoes DEF ChunkSizeStart
<1>3. CASE ChunkSize
  BY <1>3, InHere, BreakGoes, FailGoes DEF ChunkSize
<1>4. CASE ChunkSizeAlmostDone
  <2>1. Here
    BY <1>4, InHere DEF ChunkSizeAlmostDone
  <2>2. Refuse \/ (\E k, q : Notify(k, q, [run EXCEPT !.nread = NreadReset(@)]))
    BY <1>4 DEF ChunkSizeAlmostDone
  <2> QED BY <2>1, <2>2, FailGoes, NotifyResetGoes
<1>5. CASE ChunkDataAlmostDone
  BY <1>5, InHere, CallbackDataGoes, FailGoes DEF ChunkDataAlmostDone, DataKinds
<1>6. CASE ChunkDataDone
  <2>1. Here
    BY <1>6, InHere DEF ChunkDataDone
  <2>2. Refuse \/ (\E k, q : Notify(k, q, [run EXCEPT !.nread = NreadReset(@)]))
    BY <1>6 DEF ChunkDataDone
  <2> QED BY <2>1, <2>2, FailGoes, NotifyResetGoes
<1> QED BY <1>1, <1>2, <1>3, <1>4, <1>5, <1>6, BodyIdentityGoes, BodyIdentityEofGoes, ChunkDataGoes DEF Body

LEMMA ProgressStep == ASSUME ParserInv, TextInv, Next, InCall(run) PROVE Goes
<1>1. run.pc \notin {"idle", "closed"} /\ parser.errno = "OK"
  BY TextHere DEF InCall
<1>2. ~Feed /\ ~http_parser_pause
  BY <1>1 DEF Feed, CanFeed, http_parser_execute, http_parser_execute_eof, http_parser_pause
<1> QED BY <1>2, LoopGoes, FirstLineGoes, HeadersGoes, BodyGoes DEF Next

\* Whatever bytes it is given, wherever it is cut and whatever the callbacks do,
\* a call of http_parser_execute never goes back to an earlier byte, and goes to
\* a byte at most five times before it leaves it (the loop, and the gotos to
\* reexecute), so that it ends after a number of steps bounded by what it is fed.
\* ProgressStep says it of every step of Next, so that none changes nothing.
THEOREM CallsEnd == Spec => CallsProgress
<1>1. ParserInv /\ TextInv /\ [Next]_vars =>
          [InCall(run) /\ InCall(run') => run'.end = run.end /\ Advances(run', Ahead(parser', run'))]_vars
  BY ProgressStep DEF Goes, Onwards
<1> QED BY <1>1, ParserInvariant, TextInvariant, PTL DEF Spec, CallsProgress
===============================================================================
