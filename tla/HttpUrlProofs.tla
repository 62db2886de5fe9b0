----------------------------- MODULE HttpUrlProofs -----------------------------
(***************************************************************************)
(* Theorems about the URLs of HttpUrl and HttpParser: for every string,    *)
(* where the parts lie that http_parser_parse_url reports; for all         *)
(* connections, cuttings, pauses and limits, that the URL handed over by   *)
(* http_parser_execute is one that http_parser_parse_url can cut.          *)
(***************************************************************************)
EXTENDS HttpParserDelivery, SetInduction

-------------------------------------------------------------------------------
(* Fields and their order                                                  *)

Names == {"SCHEMA", "USERINFO", "HOST", "PORT", "PATH", "QUERY", "FRAGMENT"}
Rank == [SCHEMA |-> 1, USERINFO |-> 2, HOST |-> 3, PORT |-> 4, PATH |-> 5, QUERY |-> 6, FRAGMENT |-> 7]
Field  == [off : Int, len : Int]
Fields == UNION {[D -> Field] : D \in SUBSET Names}
Sorted(f) == \A j, k \in DOMAIN f : Rank[j] < Rank[k] => LastByte(f[j]) < f[k].off

LEMMA RankNat == ASSUME NEW k \in Names PROVE Rank[k] \in 1 .. 7
  BY DEF Names, Rank

LEMMA RankApart == ASSUME NEW j \in Names, NEW k \in Names, Rank[j] = Rank[k] PROVE j = k
  BY DEF Names, Rank

LEMMA FieldsFacts ==
    ASSUME NEW f \in Fields
    PROVE  /\ DOMAIN f \subseteq Names /\ f = [k \in DOMAIN f |-> f[k]]
           /\ \A k \in DOMAIN f : f[k] \in Field /\ f[k].off \in Int /\ f[k].len \in Int /\ LastByte(f[k]) \in Int
<1>1. PICK D \in SUBSET Names : f \in [D -> Field]
  BY DEF Fields
<1>2. DOMAIN f = D /\ f = [k \in DOMAIN f |-> f[k]] /\ \A k \in D : f[k] \in Field
  BY <1>1
<1>3. \A k \in D : f[k].off \in Int /\ f[k].len \in Int
  BY <1>2 DEF Field
<1> QED BY <1>1, <1>2, <1>3 DEF LastByte

\* UrlParts lists the names by rank.
LEMMA SortedParts == ASSUME NEW f, Sorted(f) PROVE PartsInOrder(f)
<1> SUFFICES ASSUME NEW i \in DOMAIN UrlParts, NEW j \in DOMAIN UrlParts, i < j,
                    {UrlParts[i], UrlParts[j]} \subseteq DOMAIN f
             PROVE  LastByte(f[UrlParts[i]]) < f[UrlParts[j]].off
  BY DEF PartsInOrder
<1>1. DOMAIN UrlParts = 1 .. 7
  BY DEF UrlParts
<1>2. /\ UrlParts[1] = "SCHEMA" /\ UrlParts[2] = "USERINFO" /\ UrlParts[3] = "HOST" /\ UrlParts[4] = "PORT"
      /\ UrlParts[5] = "PATH" /\ UrlParts[6] = "QUERY" /\ UrlParts[7] = "FRAGMENT"
  BY DEF UrlParts
<1>3. \A n \in 1 .. 7 : Rank[UrlParts[n]] = n
  <2>1. ASSUME NEW n \in 1 .. 7 PROVE Rank[UrlParts[n]] = n
    <3>1. n = 1 \/ n = 2 \/ n = 3 \/ n = 4 \/ n = 5 \/ n = 6 \/ n = 7
      OBVIOUS
    <3> QED BY <1>2, <3>1 DEF Rank
  <2> QED BY <2>1
<1>4. Rank[UrlParts[i]] < Rank[UrlParts[j]]
  BY <1>1, <1>3
<1> QED BY <1>4 DEF Sorted

\* What a byte does to the fields.
Starts(f, g, k, i) ==
    /\ DOMAIN g = DOMAIN f \cup {k} /\ g[k].off = i /\ g[k].len = 1
    /\ \A j \in DOMAIN f \ {k} : g[j] = f[j]
Extends(f, g, k) ==
    /\ DOMAIN g = DOMAIN f /\ k \in DOMAIN f /\ g[k].off = f[k].off /\ g[k].len = f[k].len + 1
    /\ \A j \in DOMAIN f \ {k} : g[j] = f[j]

LEMMA WrappedIs == \A n \in Int : Wrapped(n) \in Int /\ (n \in 0 .. UINT16_MAX => Wrapped(n) = n)
<1>1. ASSUME NEW n \in Int PROVE n % (UINT16_MAX + 1) \in Int
  BY UrlAssumption
<1>2. ASSUME NEW n \in 0 .. UINT16_MAX PROVE n % (UINT16_MAX + 1) = n
  BY UrlAssumption
<1> QED BY <1>1, <1>2 DEF Wrapped

LEMMA GrowFacts ==
    ASSUME NEW f \in Fields, NEW k \in Names, NEW i \in Int, NEW goesOn \in BOOLEAN, NEW g, g = Grow(f, k, i, goesOn)
    PROVE  /\ g \in Fields
           /\ ~goesOn /\ i \in 1 .. UINT16_MAX => Starts(f, g, k, i)
           /\ goesOn /\ k \in DOMAIN f /\ f[k].len \in 0 .. UINT16_MAX - 1 => Extends(f, g, k)
<1>0. UINT16_MAX \in Nat
  BY UrlAssumption
<1>1. PICK D \in SUBSET Names : f \in [D -> Field]
  BY DEF Fields
<1>2. DOMAIN f = D /\ \A j \in D : f[j] \in Field
  BY <1>1
<1>3. CASE goesOn /\ k \in D
  <2>0. PICK w \in Int : w = Wrapped(f[k].len + 1) /\ (f[k].len \in 0 .. UINT16_MAX - 1 => w = f[k].len + 1)
    BY <1>0, <1>2, <1>3, WrappedIs DEF Field
  <2>1. PICK e : e = [f[k] EXCEPT !.len = w]
    OBVIOUS
  <2>2. e \in Field /\ e.off = f[k].off /\ e.len = w
    <3>1. f[k] \in Field
      BY <1>2, <1>3
    <3> QED BY <2>1, <3>1 DEF Field
  <2>3. g = [f EXCEPT ![k] = e]
    BY <1>3, <2>0, <2>1 DEF Grow
  <2>4. g \in [D -> Field] /\ g[k] = e /\ \A j \in D \ {k} : g[j] = f[j]
    BY <1>1, <1>3, <2>2, <2>3
  <2>5. g \in Fields
    BY <2>4 DEF Fields
  <2> QED BY <1>2, <1>3, <2>0, <2>2, <2>4, <2>5 DEF Extends
<1>4. CASE goesOn /\ k \notin D
  <2>1. g = [f EXCEPT ![k].len = Wrapped(@ + 1)]
    BY <1>4 DEF Grow
  <2>2. g = f
    BY <1>1, <1>4, <2>1
  <2> QED BY <1>2, <1>4, <2>2
<1>5. CASE ~goesOn
  <2>0. PICK w \in Int : w = Wrapped(i - 1) + 1 /\ (i \in 1 .. UINT16_MAX => w = i)
    BY <1>0, WrappedIs
  <2>1. PICK e : e = [off |-> w, len |-> 1]
    OBVIOUS
  <2>2. e \in Field /\ e.off = w /\ e.len = 1
    BY <2>1 DEF Field
  <2>3. PICK h : h = [x \in {k} |-> e]
    OBVIOUS
  <2>4. DOMAIN h = {k} /\ h[k] = e
    BY <2>3
  <2>5. g = [j \in DOMAIN h \cup DOMAIN f |-> IF j \in DOMAIN h THEN h[j] ELSE f[j]]
    BY <1>5, <2>0, <2>1, <2>3 DEF Grow, Merge, FieldData
  <2>6. DOMAIN g = D \cup {k} /\ g[k] = e /\ \A j \in D \ {k} : g[j] = f[j]
    BY <1>2, <2>4, <2>5
  <2>7. g \in [D \cup {k} -> Field]
    BY <1>2, <2>2, <2>4, <2>5
  <2>8. D \cup {k} \in SUBSET Names
    OBVIOUS
  <2>9. g \in Fields
    BY <2>7, <2>8 DEF Fields
  <2> QED BY <1>2, <1>5, <2>0, <2>2, <2>6, <2>9 DEF Starts
<1> QED BY <1>2, <1>3, <1>4, <1>5

\* A part that starts or goes on after the others keeps their order.
LEMMA GrowSorted ==
    ASSUME NEW f \in Fields, NEW g \in Fields, NEW n \in Nat, NEW k \in Names, Sorted(f), InUrl(f, n),
           \/ Starts(f, g, k, n + 1) /\ \A j \in DOMAIN f \ {k} : Rank[j] < Rank[k]
           \/ Extends(f, g, k) /\ \A j \in DOMAIN f : Rank[j] <= Rank[k]
    PROVE  Sorted(g) /\ InUrl(g, n + 1)
<1>1. /\ DOMAIN g \subseteq DOMAIN f \cup {k} /\ k \in DOMAIN g
      /\ \A j \in DOMAIN g \ {k} : j \in DOMAIN f /\ g[j] = f[j]
      /\ \A j \in DOMAIN f \ {k} : j \in DOMAIN g
  BY DEF Starts, Extends
<1>2. \A j \in DOMAIN g \ {k} : Rank[j] < Rank[k]
  <2>1. ASSUME NEW j \in DOMAIN g \ {k} PROVE Rank[j] < Rank[k]
    <3>1. j \in DOMAIN f /\ j \in Names
      BY <1>1, FieldsFacts
    <3>2. Rank[j] # Rank[k] /\ Rank[j] \in Nat /\ Rank[k] \in Nat
      BY <3>1, RankApart, RankNat
    <3> QED BY <1>1, <3>1, <3>2
  <2> QED BY <2>1
<1>3. /\ \A j \in DOMAIN f : f[j].off \in Int /\ f[j].len \in Int /\ LastByte(f[j]) = f[j].off + f[j].len - 1
      /\ \A j \in DOMAIN g : g[j].off \in Int /\ g[j].len \in Int /\ LastByte(g[j]) = g[j].off + g[j].len - 1
  BY FieldsFacts DEF LastByte
<1>4. /\ g[k].off > 0 /\ g[k].len > 0 /\ LastByte(g[k]) <= n + 1
      /\ g[k].off = n + 1 \/ (k \in DOMAIN f /\ g[k].off = f[k].off)
  <2>1. CASE Starts(f, g, k, n + 1)
    BY <1>1, <1>3, <2>1 DEF Starts
  <2>2. CASE Extends(f, g, k)
    BY <1>1, <1>3, <2>2 DEF Extends, InUrl
  <2> QED BY <2>1, <2>2
<1>5. InUrl(g, n + 1)
  <2>1. ASSUME NEW j \in DOMAIN g \ {k}
        PROVE  g[j].off > 0 /\ g[j].len > 0 /\ LastByte(g[j]) <= n + 1
    BY <1>1, <1>3, <2>1 DEF InUrl
  <2> QED BY <1>4, <2>1 DEF InUrl
<1>6. ASSUME NEW i \in DOMAIN g, NEW j \in DOMAIN g, Rank[i] < Rank[j]
      PROVE  LastByte(g[i]) < g[j].off
  <2>1. Rank[i] \in Nat /\ Rank[j] \in Nat /\ Rank[k] \in Nat
    BY FieldsFacts, RankNat
  <2>2. i # k
    BY <1>2, <1>6, <2>1
  <2>3. i \in DOMAIN f /\ g[i] = f[i] /\ LastByte(f[i]) <= n
    BY <1>1, <2>2 DEF InUrl
  <2>4. CASE j = k
    <3>1. CASE g[k].off = n + 1
      BY <1>3, <2>3, <2>4, <3>1
    <3>2. CASE k \in DOMAIN f /\ g[k].off = f[k].off
      BY <1>6, <2>3, <2>4, <3>2 DEF Sorted
    <3> QED BY <1>4, <3>1, <3>2
  <2>5. CASE j # k
    BY <1>1, <1>6, <2>3, <2>5 DEF Sorted
  <2> QED BY <2>4, <2>5
<1> QED BY <1>5, <1>6 DEF Sorted

-------------------------------------------------------------------------------
(* The URL, byte by byte                                                   *)

\* The part of a URL that a state has reached.
Reach(s) ==
    CASE s = "s_req_spaces_before_url" -> 0
      [] s \in {"s_req_schema", "s_req_schema_slash", "s_req_schema_slash_slash"} -> 1
      [] s = "s_req_server_start" -> 2
      [] s \in {"s_req_server", "s_req_server_with_at"} -> 3
      [] s \in {"s_req_path", "s_req_query_string_start"} -> 5
      [] s \in {"s_req_query_string", "s_req_fragment_start"} -> 6
      [] OTHER -> 7
Scanning == UrlStates \cup {"s_req_spaces_before_url"}

\* From state s to state t: a part goes on, or a later one begins.
Ascends(s, t) ==
    /\ Reach(s) <= Reach(t)
    /\ t \in DOMAIN UrlFieldOf =>
          \/ Reach(s) < Reach(t)
          \/ s \in DOMAIN UrlFieldOf /\ UrlFieldOf[s] = UrlFieldOf[t]
Rises(r) == \A s \in r[1] : Ascends(s, r[3])

LEMMA UrlFieldNames ==
    /\ DOMAIN UrlFieldOf = {"s_req_schema", "s_req_server_with_at", "s_req_server", "s_req_path",
                            "s_req_query_string", "s_req_fragment"}
    /\ UrlFieldOf["s_req_schema"] = "SCHEMA" /\ UrlFieldOf["s_req_server_with_at"] = "HOST"
    /\ UrlFieldOf["s_req_server"] = "HOST" /\ UrlFieldOf["s_req_path"] = "PATH"
    /\ UrlFieldOf["s_req_query_string"] = "QUERY" /\ UrlFieldOf["s_req_fragment"] = "FRAGMENT"
    /\ \A s \in DOMAIN UrlFieldOf : UrlFieldOf[s] \in {"SCHEMA", "HOST", "PATH", "QUERY", "FRAGMENT"}
                                      /\ Rank[UrlFieldOf[s]] = Reach(s)
BY DEF UrlFieldOf, Rank, Reach

LEMMA RuleRises ==
    \A f, c, t : (\A s \in f : Ascends(s, t)) => Rises(<<f, c, t>>)
BY DEF Rises

LEMMA LookupRule ==
    ASSUME NEW rules, NEW s, NEW c, NEW d
    PROVE  Lookup(rules, s, c, d) = d \/ \E r \in rules : s \in r[1] /\ c \in r[2] /\ Lookup(rules, s, c, d) = r[3]
<1>1. PICK hits : hits = {r \in rules : s \in r[1] /\ c \in r[2]}
  OBVIOUS
<1>2. CASE hits = {}
  BY <1>1, <1>2 DEF Lookup
<1>3. CASE hits # {}
  <2>1. PICK r : r = CHOOSE x \in hits : TRUE
    OBVIOUS
  <2>2. r \in hits
    BY <1>3, <2>1
  <2>3. Lookup(rules, s, c, d) = r[3]
    BY <1>1, <1>3, <2>1 DEF Lookup
  <2> QED BY <1>1, <2>2, <2>3
<1> QED BY <1>2, <1>3

LEMMA ServerRulesRise == ASSUME NEW r \in UrlServerRules PROVE Rises(r)
<1>1. /\ Ascends("s_req_spaces_before_url", "s_req_path") /\ Ascends("s_req_spaces_before_url", "s_req_schema")
      /\ Ascends("s_req_schema", "s_req_schema") /\ Ascends("s_req_schema", "s_req_schema_slash")
      /\ Ascends("s_req_schema_slash", "s_req_schema_slash_slash")
      /\ Ascends("s_req_schema_slash_slash", "s_req_server_start")
  BY UrlFieldNames DEF Ascends, Reach
<1>2. \A s \in UrlServer : /\ Ascends(s, "s_req_path") /\ Ascends(s, "s_req_query_string_start")
                           /\ Ascends(s, "s_req_server")
  BY UrlFieldNames DEF Ascends, Reach, UrlServer
<1>3. \A s \in UrlServer \ {"s_req_server_with_at"} : Ascends(s, "s_req_server_with_at")
  BY UrlFieldNames DEF Ascends, Reach, UrlServer
<1>4. \A c : /\ Rises(<<{"s_req_spaces_before_url"}, c, "s_req_path">>)
             /\ Rises(<<{"s_req_spaces_before_url", "s_req_schema"}, c, "s_req_schema">>)
             /\ Rises(<<{"s_req_schema"}, c, "s_req_schema_slash">>)
             /\ Rises(<<{"s_req_schema_slash"}, c, "s_req_schema_slash_slash">>)
             /\ Rises(<<{"s_req_schema_slash_slash"}, c, "s_req_server_start">>)
  BY <1>1, RuleRises
<1>5. \A c : /\ Rises(<<UrlServer, c, "s_req_path">>)
             /\ Rises(<<UrlServer, c, "s_req_query_string_start">>)
             /\ Rises(<<UrlServer, c, "s_req_server">>)
             /\ Rises(<<UrlServer \ {"s_req_server_with_at"}, c, "s_req_server_with_at">>)
  BY <1>2, <1>3, RuleRises
<1> QED BY <1>4, <1>5, ZenonT(30) DEF UrlServerRules

LEMMA TailRulesRise == ASSUME NEW r \in UrlTailRules PROVE Rises(r)
<1>1. /\ Ascends("s_req_path", "s_req_path") /\ Ascends("s_req_path", "s_req_query_string_start")
      /\ Ascends("s_req_query_string_start", "s_req_query_string") /\ Ascends("s_req_query_string", "s_req_query_string")
      /\ Ascends("s_req_path", "s_req_fragment_start") /\ Ascends("s_req_query_string_start", "s_req_fragment_start")
      /\ Ascends("s_req_query_string", "s_req_fragment_start")
      /\ Ascends("s_req_fragment_start", "s_req_fragment_start")
      /\ Ascends("s_req_fragment_start", "s_req_fragment") /\ Ascends("s_req_fragment", "s_req_fragment")
  BY UrlFieldNames DEF Ascends, Reach
<1>2. \A c : /\ Rises(<<{"s_req_path"}, c, "s_req_path">>)
             /\ Rises(<<{"s_req_path"}, c, "s_req_query_string_start">>)
             /\ Rises(<<{"s_req_query_string_start", "s_req_query_string"}, c, "s_req_query_string">>)
             /\ Rises(<<{"s_req_path", "s_req_query_string_start", "s_req_query_string"}, c, "s_req_fragment_start">>)
             /\ Rises(<<{"s_req_fragment_start"}, c, "s_req_fragment_start">>)
             /\ Rises(<<{"s_req_fragment_start"}, c, "s_req_fragment">>)
             /\ Rises(<<{"s_req_fragment"}, c, "s_req_fragment">>)
  BY <1>1, RuleRises
<1> QED BY <1>2, ZenonT(30) DEF UrlTailRules

\* A URL is read from its first part to its last.
LEMMA UrlAscends ==
    ASSUME NEW s, NEW c, NEW t, t = parse_url_char(s, c), t # "s_dead"
    PROVE  Ascends(s, t) /\ t \in UrlStates
<1>1. PICK r \in UrlServerRules \cup UrlTailRules : s \in r[1] /\ t = r[3]
  BY LookupRule DEF parse_url_char
<1>2. Ascends(s, t)
  BY <1>1, ServerRulesRise, TailRulesRise DEF Rises
<1> QED BY <1>2, ParseUrlChar

\* What UrlScan goes through.
UrlVals == [s : Scanning \cup {"s_dead"}, old : Names \cup {"MAX"}, found_at : BOOLEAN, fields : Fields]
Scans(f, buf, connect) ==
    /\ f \in [0 .. Len(buf) -> UrlVals] /\ f[0] = UrlStart(connect)
    /\ \A i \in 1 .. Len(buf) : f[i] = UrlStep(f[i - 1], i, buf[i])

LEMMA EmptyFields == <<>> \in Fields /\ DOMAIN <<>> = {}
<1>1. <<>> \in [{} -> Field] /\ {} \in SUBSET Names
  OBVIOUS
<1> QED BY <1>1 DEF Fields

LEMMA UrlStartType == ASSUME NEW connect \in BOOLEAN PROVE UrlStart(connect) \in UrlVals
<1>1. PICK s : s = IF connect THEN "s_req_server_start" ELSE "s_req_spaces_before_url"
  OBVIOUS
<1>2. s \in Scanning
  BY <1>1 DEF Scanning, UrlStates, UrlServer
<1>3. UrlStart(connect) = [s |-> s, old |-> "MAX", found_at |-> FALSE, fields |-> <<>>]
  BY <1>1 DEF UrlStart
<1> QED BY <1>2, <1>3, EmptyFields DEF UrlVals

\* A step that reaches no part, and one that does.
LEMMA UrlStepIs ==
    ASSUME NEW u \in UrlVals, NEW i \in Int, NEW c, NEW v, v = UrlStep(u, i, c), NEW s, s = parse_url_char(u.s, c)
    PROVE  /\ v \in UrlVals /\ v.s = s
           /\ s \notin DOMAIN UrlFieldOf => v.old = u.old /\ v.found_at = u.found_at /\ v.fields = u.fields
           /\ s \in DOMAIN UrlFieldOf => v.old = UrlFieldOf[s] /\ v.fields = Grow(u.fields, UrlFieldOf[s], i, UrlFieldOf[s] = u.old)
<1>1. s \in Scanning \cup {"s_dead"}
  BY ParseUrlChar DEF Scanning
<1>2. u.old \in Names \cup {"MAX"} /\ u.found_at \in BOOLEAN /\ u.fields \in Fields
  BY DEF UrlVals
<1>3. CASE s \notin DOMAIN UrlFieldOf
  <2>1. v = [u EXCEPT !.s = s]
    BY <1>3 DEF UrlStep
  <2> QED BY <1>1, <1>3, <2>1 DEF UrlVals
<1>4. CASE s \in DOMAIN UrlFieldOf
  <2>1. PICK g : g = Grow(u.fields, UrlFieldOf[s], i, UrlFieldOf[s] = u.old)
    OBVIOUS
  <2>2. UrlFieldOf[s] \in Names
    BY <1>4, UrlFieldNames DEF Names
  <2>3. PICK goesOn \in BOOLEAN : goesOn = (UrlFieldOf[s] = u.old)
    OBVIOUS
  <2>4. g \in Fields
    BY <1>2, <2>1, <2>2, <2>3, GrowFacts
  <2>5. PICK a \in BOOLEAN : a = (u.found_at \/ s = "s_req_server_with_at")
    OBVIOUS
  <2>6. v = [s |-> s, old |-> UrlFieldOf[s], found_at |-> a, fields |-> g]
    BY <1>4, <2>1, <2>5 DEF UrlStep
  <2> QED BY <1>1, <1>4, <2>1, <2>2, <2>4, <2>6 DEF UrlVals
<1> QED BY <1>3, <1>4

LEMMA ScanExists ==
    ASSUME NEW buf, Len(buf) \in Nat, NEW connect \in BOOLEAN
    PROVE  \E f : Scans(f, buf, connect)
<1>1. PICK n \in Nat : n = Len(buf)
  OBVIOUS
<1>2. PICK base, step : /\ base = UrlStart(connect)
                        /\ step = [i \in 1 .. n |-> [u \in UrlVals |-> UrlStep(u, i, buf[i])]]
  OBVIOUS
<1>3. base \in UrlVals /\ IsStep(step, n, UrlVals)
  <2>1. ASSUME NEW i \in 1 .. n, NEW u \in UrlVals PROVE step[i][u] \in UrlVals
    <3>1. step[i][u] = UrlStep(u, i, buf[i]) /\ i \in Int
      BY <1>2
    <3> QED BY <3>1, UrlStepIs
  <2> QED BY <1>2, <2>1, UrlStartType DEF IsStep
<1>4. PICK f : IsRecursive(f, n, UrlVals, base, step)
  BY <1>3, RecursionExists
<1>5. f \in [0 .. n -> UrlVals] /\ f[0] = base /\ \A i \in 1 .. n : f[i] = step[i][f[i - 1]]
  BY <1>4 DEF IsRecursive
<1>6. ASSUME NEW i \in 1 .. n PROVE f[i] = UrlStep(f[i - 1], i, buf[i])
  <2>1. i - 1 \in 0 .. n /\ f[i - 1] \in UrlVals
    BY <1>5
  <2> QED BY <1>2, <1>5, <2>1
<1> QED BY <1>1, <1>2, <1>5, <1>6 DEF Scans

\* Strings that begin alike are scanned alike.
LEMMA ScansAlike ==
    ASSUME NEW buf, Len(buf) \in Nat, NEW more, Len(more) \in Nat, Len(buf) <= Len(more),
           \A i \in 1 .. Len(buf) : buf[i] = more[i], NEW connect, NEW f, NEW g, Scans(f, buf, connect), Scans(g, more, connect)
    PROVE  f[Len(buf)] = g[Len(buf)]
<1>1. PICK n \in Nat : n = Len(buf)
  OBVIOUS
<1>2. PICK T : T = {i \in 0 .. n : f[i] = g[i]}
  OBVIOUS
<1>3. 0 \in T
  BY <1>2 DEF Scans
<1>4. ASSUME NEW i \in 0 .. n - 1, i \in T PROVE i + 1 \in T
  <2>1. i + 1 \in 1 .. Len(buf) /\ i + 1 \in 1 .. Len(more) /\ (i + 1) - 1 = i /\ f[i] = g[i]
    BY <1>1, <1>2, <1>4
  <2>2. f[i + 1] = UrlStep(f[(i + 1) - 1], i + 1, buf[i + 1]) /\ g[i + 1] = UrlStep(g[(i + 1) - 1], i + 1, more[i + 1])
    BY <2>1 DEF Scans
  <2>3. f[i + 1] = g[i + 1]
    BY <2>1, <2>2
  <2> QED BY <1>1, <1>2, <2>1, <2>3
<1>5. n \in T
  <2>1. \A i \in 0 .. n - 1 : i \in T => i + 1 \in T
    BY <1>4
  <2>2. \A i \in 0 .. n : i \in T
    BY <1>3, <2>1, InductionUpTo
  <2> QED BY <2>2
<1> QED BY <1>1, <1>2, <1>5

LEMMA ScanIs ==
    ASSUME NEW buf, Len(buf) \in Nat, NEW connect \in BOOLEAN, NEW f, Scans(f, buf, connect)
    PROVE  UrlScan(buf, connect) = f[Len(buf)]
<1> DEFINE All == CHOOSE url : url = [i \in 0 .. Len(buf) |->
                     IF i = 0 THEN UrlStart(connect) ELSE UrlStep(url[i - 1], i, buf[i])]
<1>1. f = [i \in 0 .. Len(buf) |-> IF i = 0 THEN UrlStart(connect) ELSE UrlStep(f[i - 1], i, buf[i])]
  <2>1. f = [i \in 0 .. Len(buf) |-> f[i]]
    BY DEF Scans
  <2>2. ASSUME NEW i \in 0 .. Len(buf)
        PROVE  f[i] = IF i = 0 THEN UrlStart(connect) ELSE UrlStep(f[i - 1], i, buf[i])
    <3>1. CASE i = 0
      BY <3>1 DEF Scans
    <3>2. CASE i # 0
      <4>1. i \in 1 .. Len(buf)
        BY <3>2
      <4> QED BY <3>2, <4>1 DEF Scans
    <3> QED BY <3>1, <3>2
  <2> QED BY <2>1, <2>2
<1>2. All = [i \in 0 .. Len(buf) |-> IF i = 0 THEN UrlStart(connect) ELSE UrlStep(All[i - 1], i, buf[i])]
  BY <1>1
<1>3. UrlScan(buf, connect) = All[Len(buf)]
  BY DEF UrlScan
<1> HIDE DEF All
<1>4. PICK n \in Nat : n = Len(buf)
  OBVIOUS
<1>5. PICK T : T = {i \in 0 .. n : f[i] = All[i]}
  OBVIOUS
<1>6. 0 \in T
  <2>1. All[0] = UrlStart(connect)
    BY <1>2
  <2> QED BY <1>5, <2>1 DEF Scans
<1>7. ASSUME NEW i \in 0 .. n - 1, i \in T PROVE i + 1 \in T
  <2>1. i + 1 \in 1 .. Len(buf) /\ i + 1 \in 0 .. Len(buf) /\ (i + 1) - 1 = i /\ i + 1 # 0 /\ f[i] = All[i]
    BY <1>4, <1>5, <1>7
  <2>2. f[i + 1] = UrlStep(f[(i + 1) - 1], i + 1, buf[i + 1])
    BY <2>1 DEF Scans
  <2>3. All[i + 1] = UrlStep(All[(i + 1) - 1], i + 1, buf[i + 1])
    BY <1>2, <2>1
  <2>4. f[i + 1] = All[i + 1]
    BY <2>1, <2>2, <2>3
  <2> QED BY <1>4, <1>5, <2>1, <2>4
<1>8. n \in T
  <2>1. \A i \in 0 .. n - 1 : i \in T => i + 1 \in T
    BY <1>7
  <2>2. \A i \in 0 .. n : i \in T
    BY <1>6, <2>1, InductionUpTo
  <2> QED BY <2>2
<1> QED BY <1>3, <1>4, <1>5, <1>8

LEMMA ScanEmpty ==
    ASSUME NEW buf, Len(buf) = 0, NEW connect \in BOOLEAN
    PROVE  UrlScan(buf, connect) = UrlStart(connect)
<1>1. PICK f : Scans(f, buf, connect)
  BY ScanExists
<1> QED BY <1>1, ScanIs DEF Scans

\* One byte more.
LEMMA ScanMore ==
    ASSUME NEW buf, Len(buf) \in Nat, NEW more, Len(more) = Len(buf) + 1, \A i \in 1 .. Len(buf) : buf[i] = more[i],
           NEW connect \in BOOLEAN
    PROVE  /\ UrlScan(buf, connect) \in UrlVals
           /\ UrlScan(more, connect) = UrlStep(UrlScan(buf, connect), Len(buf) + 1, more[Len(buf) + 1])
           /\ UrlScan(more, connect).s = parse_url_char(UrlScan(buf, connect).s, more[Len(buf) + 1])
<1>1. PICK n \in Nat : n = Len(buf) /\ Len(more) = n + 1
  OBVIOUS
<1>2. PICK f, g : Scans(f, buf, connect) /\ Scans(g, more, connect)
  BY <1>1, ScanExists
<1>3. UrlScan(buf, connect) = f[n] /\ UrlScan(more, connect) = g[n + 1] /\ f[n] = g[n]
  BY <1>1, <1>2, ScanIs, ScansAlike
<1>4. g[n + 1] = UrlStep(g[n], n + 1, more[n + 1]) /\ f[n] \in UrlVals
  <2>1. n + 1 \in 1 .. Len(more) /\ (n + 1) - 1 = n /\ n \in 0 .. Len(buf)
    BY <1>1
  <2>2. g[n + 1] = UrlStep(g[(n + 1) - 1], n + 1, more[n + 1])
    BY <1>2, <2>1 DEF Scans
  <2>3. f[n] \in UrlVals
    BY <1>2, <2>1 DEF Scans
  <2> QED BY <2>1, <2>2, <2>3
<1>5. PICK u \in UrlVals : u = f[n]
  BY <1>4
<1>6. UrlStep(u, n + 1, more[n + 1]).s = parse_url_char(u.s, more[n + 1])
  <2>1. PICK i, c, s, v : i \in Int /\ i = n + 1 /\ c = more[n + 1] /\ s = parse_url_char(u.s, c) /\ v = UrlStep(u, i, c)
    OBVIOUS
  <2>2. v.s = s
    BY <2>1, UrlStepIs
  <2> QED BY <2>1, <2>2
<1> QED BY <1>1, <1>3, <1>4, <1>5, <1>6

\* After i bytes: the parts lie within them, in order, and none is beyond the
\* one that the state has reached, which is the one that a byte may lengthen.
UrlParted(u) ==
    /\ DOMAIN u.fields \subseteq {"SCHEMA", "HOST", "PATH", "QUERY", "FRAGMENT"}
    /\ \A k \in DOMAIN u.fields : Rank[k] <= Reach(u.s)
    /\ u.old # "MAX" => u.old \in DOMAIN u.fields /\ \A k \in DOMAIN u.fields : Rank[k] <= Rank[u.old]
    /\ u.s \in DOMAIN UrlFieldOf => u.old = UrlFieldOf[u.s]
UrlAt(u, i) == InUrl(u.fields, i) /\ Sorted(u.fields) /\ (u.s # "s_dead" => UrlParted(u))

LEMMA InLonger == ASSUME NEW f \in Fields, NEW n \in Nat, InUrl(f, n) PROVE InUrl(f, n + 1)
  BY FieldsFacts DEF InUrl

LEMMA ReachNat == ASSUME NEW s PROVE Reach(s) \in 0 .. 7
  BY DEF Reach

LEMMA DeadStays == ASSUME NEW c PROVE parse_url_char("s_dead", c) = "s_dead"
<1>1. \A r \in UrlServerRules : "s_dead" \notin r[1]
  BY DEF UrlServerRules, UrlServer
<1>2. \A r \in UrlTailRules : "s_dead" \notin r[1]
  BY DEF UrlTailRules
<1> QED BY <1>1, <1>2, LookupRule DEF parse_url_char

\* A byte that belongs to a part.
LEMMA PartStep ==
    ASSUME NEW u \in UrlVals, NEW i \in Nat, i < UINT16_MAX, u.s # "s_dead", UrlAt(u, i), NEW s \in DOMAIN UrlFieldOf, Ascends(u.s, s),
           NEW v \in UrlVals, v.s = s, v.old = UrlFieldOf[s],
           v.fields = Grow(u.fields, UrlFieldOf[s], i + 1, UrlFieldOf[s] = u.old)
    PROVE  UrlAt(v, i + 1)
<1>1. PICK k : k = UrlFieldOf[s]
  OBVIOUS
<1>2. k \in {"SCHEMA", "HOST", "PATH", "QUERY", "FRAGMENT"} /\ k \in Names /\ k # "MAX" /\ Rank[k] = Reach(s)
  BY <1>1, UrlFieldNames DEF Names
<1>3. PICK f, g : f = u.fields /\ g = v.fields
  OBVIOUS
<1>4. f \in Fields /\ g \in Fields
  BY <1>3 DEF UrlVals
<1>5. UrlParted(u) /\ InUrl(f, i) /\ Sorted(f) /\ DOMAIN f \subseteq Names
  BY <1>3, <1>4, FieldsFacts DEF UrlAt
<1>6. PICK goesOn \in BOOLEAN : goesOn = (k = u.old)
  OBVIOUS
<1>7. /\ goesOn /\ k \in DOMAIN f => Extends(f, g, k)
      /\ ~goesOn => Starts(f, g, k, i + 1)
  <2>1. PICK j \in Int : j = i + 1
    OBVIOUS
  <2>2. g = Grow(f, k, j, goesOn)
    BY <1>1, <1>3, <1>6, <2>1
  <2>3. j \in 1 .. UINT16_MAX /\ (k \in DOMAIN f => f[k].len \in 0 .. UINT16_MAX - 1)
    BY <1>4, <1>5, <2>1, FieldsFacts, UrlAssumption DEF InUrl, LastByte
  <2>4. /\ goesOn /\ k \in DOMAIN f => Extends(f, g, k)
        /\ ~goesOn => Starts(f, g, k, j)
    BY <1>2, <1>4, <2>2, <2>3, GrowFacts
  <2> QED BY <2>1, <2>4
<1>8. CASE goesOn
  <2>1. k \in DOMAIN f /\ \A j \in DOMAIN f : Rank[j] <= Rank[k]
    BY <1>2, <1>3, <1>5, <1>6, <1>8 DEF UrlParted
  <2>2. Extends(f, g, k)
    BY <1>7, <1>8, <2>1
  <2>3. Sorted(g) /\ InUrl(g, i + 1)
    BY <1>2, <1>4, <1>5, <2>1, <2>2, GrowSorted
  <2>4. DOMAIN g = DOMAIN f
    BY <2>2 DEF Extends
  <2>5. UrlParted(v)
    BY <1>1, <1>2, <1>3, <1>5, <2>1, <2>4 DEF UrlParted
  <2> QED BY <1>3, <2>3, <2>5 DEF UrlAt
<1>9. CASE ~goesOn
  <2>1. Starts(f, g, k, i + 1)
    BY <1>7, <1>9
  <2>2. ASSUME NEW j \in DOMAIN f \ {k} PROVE Rank[j] < Rank[k]
    <3>1. Rank[j] \in Nat /\ Rank[k] \in Nat /\ Reach(u.s) \in Nat /\ Rank[j] <= Reach(u.s)
      BY <1>2, <1>3, <1>5, RankNat, ReachNat DEF UrlParted
    <3>2. CASE Reach(u.s) < Reach(s)
      BY <1>2, <3>1, <3>2
    <3>3. CASE u.s \in DOMAIN UrlFieldOf /\ UrlFieldOf[u.s] = UrlFieldOf[s]
      <4>1. u.old = k
        BY <1>1, <1>5, <3>3 DEF UrlParted
      <4> QED BY <1>6, <1>9, <4>1
    <3> QED BY <3>2, <3>3 DEF Ascends
  <2>3. Sorted(g) /\ InUrl(g, i + 1)
    BY <1>2, <1>4, <1>5, <2>1, <2>2, GrowSorted
  <2>4. DOMAIN g = DOMAIN f \cup {k}
    BY <2>1 DEF Starts
  <2>5. \A j \in DOMAIN g : Rank[j] <= Rank[k]
    <3>1. ASSUME NEW j \in DOMAIN g PROVE Rank[j] <= Rank[k]
      <4>1. CASE j = k
        BY <1>2, <4>1, RankNat
      <4>2. CASE j # k
        <5>1. j \in DOMAIN f \ {k} /\ j \in Names
          BY <1>5, <2>4, <4>2
        <5>2. Rank[j] < Rank[k]
          BY <2>2, <5>1
        <5>3. Rank[j] \in 1 .. 7 /\ Rank[k] \in 1 .. 7
          BY <1>2, <5>1, RankNat
        <5> QED BY <5>2, <5>3
      <4> QED BY <4>1, <4>2
    <3> QED BY <3>1
  <2>6. UrlParted(v)
    BY <1>1, <1>2, <1>3, <1>5, <2>4, <2>5 DEF UrlParted
  <2> QED BY <1>3, <2>3, <2>6 DEF UrlAt
<1> QED BY <1>8, <1>9

LEMMA UrlAtStep ==
    ASSUME NEW u \in UrlVals, NEW i \in Nat, i < UINT16_MAX, UrlAt(u, i), NEW c, NEW v, v = UrlStep(u, i + 1, c)
    PROVE  UrlAt(v, i + 1)
<1>1. PICK j, s : j \in Int /\ j = i + 1 /\ s = parse_url_char(u.s, c)
  OBVIOUS
<1>2. /\ v \in UrlVals /\ v.s = s
      /\ s \notin DOMAIN UrlFieldOf => v.old = u.old /\ v.fields = u.fields
      /\ s \in DOMAIN UrlFieldOf => v.old = UrlFieldOf[s] /\ v.fields = Grow(u.fields, UrlFieldOf[s], j, UrlFieldOf[s] = u.old)
  <2>1. v = UrlStep(u, j, c)
    BY <1>1
  <2> QED BY <1>1, <2>1, UrlStepIs
<1>3. CASE s = "s_dead"
  <2>1. v.fields = u.fields
    BY <1>2, <1>3, UrlFieldNames
  <2>2. u.fields \in Fields
    BY DEF UrlVals
  <2> QED BY <1>2, <1>3, <2>1, <2>2, InLonger DEF UrlAt
<1>4. CASE s # "s_dead"
  <2>1. u.s # "s_dead" /\ Ascends(u.s, s)
    BY <1>1, <1>4, DeadStays, UrlAscends
  <2>2. CASE s \in DOMAIN UrlFieldOf
    BY <1>1, <1>2, <2>1, <2>2, PartStep
  <2>3. CASE s \notin DOMAIN UrlFieldOf
    <3>1. v.old = u.old /\ v.fields = u.fields /\ u.fields \in Fields
      BY <1>2, <2>3 DEF UrlVals
    <3>2. InUrl(v.fields, i + 1) /\ Sorted(v.fields)
      BY <3>1, InLonger DEF UrlAt
    <3>3. \A k \in DOMAIN v.fields : Rank[k] <= Reach(s)
      <4>1. ASSUME NEW k \in DOMAIN u.fields PROVE Rank[k] <= Reach(s)
        <5>1. Rank[k] <= Reach(u.s) /\ Reach(u.s) <= Reach(s) /\ k \in Names
          BY <2>1, <3>1, FieldsFacts DEF UrlAt, UrlParted, Ascends
        <5> QED BY <5>1, RankNat, ReachNat
      <4> QED BY <3>1, <4>1
    <3>4. UrlParted(v)
      BY <1>2, <2>1, <2>3, <3>1, <3>3 DEF UrlAt, UrlParted
    <3> QED BY <3>2, <3>4 DEF UrlAt
  <2> QED BY <2>2, <2>3
<1> QED BY <1>3, <1>4

LEMMA UrlScanned ==
    ASSUME NEW buf, Len(buf) \in 0 .. UINT16_MAX, NEW connect \in BOOLEAN, NEW u, u = UrlScan(buf, connect)
    PROVE  u \in UrlVals /\ UrlAt(u, Len(buf))
<1>0. UINT16_MAX \in Nat
  BY UrlAssumption
<1>1. PICK f : Scans(f, buf, connect)
  BY ScanExists
<1>2. PICK n \in Nat : n = Len(buf)
  OBVIOUS
<1>3. PICK T : T = {i \in 0 .. n : UrlAt(f[i], i)}
  OBVIOUS
<1>4. 0 \in T
  <2>1. f[0].fields = <<>> /\ f[0].old = "MAX" /\ f[0].s \notin DOMAIN UrlFieldOf
    BY <1>1, UrlFieldNames DEF Scans, UrlStart
  <2>2. DOMAIN f[0].fields = {}
    BY <2>1, EmptyFields
  <2>3. InUrl(f[0].fields, 0) /\ Sorted(f[0].fields) /\ UrlParted(f[0])
    BY <2>1, <2>2 DEF InUrl, Sorted, UrlParted
  <2> QED BY <1>3, <2>3 DEF UrlAt
<1>5. ASSUME NEW i \in 0 .. n - 1, i \in T PROVE i + 1 \in T
  <2>1. /\ i + 1 \in 1 .. Len(buf) /\ (i + 1) - 1 = i /\ i + 1 \in 0 .. n /\ i \in Nat /\ i \in 0 .. Len(buf)
        /\ i < UINT16_MAX
    BY <1>0, <1>2, <1>5
  <2>2. f[i] \in UrlVals /\ f[i + 1] = UrlStep(f[(i + 1) - 1], i + 1, buf[i + 1])
    BY <1>1, <2>1 DEF Scans
  <2>3. UrlAt(f[i], i)
    BY <1>3, <1>5
  <2>4. PICK u0, c, v0 : u0 \in UrlVals /\ u0 = f[i] /\ c = buf[i + 1] /\ v0 = f[i + 1]
    BY <2>2
  <2>5. v0 = UrlStep(u0, i + 1, c)
    BY <2>1, <2>2, <2>4
  <2>6. UrlAt(v0, i + 1)
    BY <2>1, <2>3, <2>4, <2>5, UrlAtStep
  <2> QED BY <1>3, <2>1, <2>4, <2>6
<1>6. \A i \in 0 .. n - 1 : i \in T => i + 1 \in T
  BY <1>5
<1>7. \A i \in 0 .. n : i \in T
  BY <1>4, <1>6, InductionUpTo
<1>8. f[n] \in UrlVals
  BY <1>1, <1>2 DEF Scans
<1> QED BY <1>1, <1>2, <1>3, <1>7, <1>8, ScanIs

-------------------------------------------------------------------------------
(* The host, byte by byte                                                  *)

HostStates == {"s_http_userinfo_start", "s_http_userinfo", "s_http_host_start", "s_http_host_v6_start", "s_http_host",
               "s_http_host_v6", "s_http_host_v6_end", "s_http_host_v6_zone_start", "s_http_host_v6_zone",
               "s_http_host_port_start", "s_http_host_port"}
BeforeHost == {"s_http_userinfo_start", "s_http_userinfo", "s_http_host_start", "s_http_host_v6_start"}
InHost     == {"s_http_host", "s_http_host_v6", "s_http_host_v6_zone_start", "s_http_host_v6_zone"}
ZoneStates == {"s_http_host_v6_zone_start", "s_http_host_v6_zone"}
AfterHost  == {"s_http_host_v6_end", "s_http_host_port_start", "s_http_host_port"}

\* What may come after state s of the host part.
HostNext(s, t) ==
    /\ t \in HostStates /\ t # "s_http_userinfo_start"
    /\ t \in {"s_http_userinfo", "s_http_host_start", "s_http_host_v6_start"} => s \in BeforeHost
    /\ t = "s_http_userinfo" => s \in {"s_http_userinfo_start", "s_http_userinfo"}
    /\ t = "s_http_host" => s \in {"s_http_host_start", "s_http_host"}
    /\ t = "s_http_host_v6" => s \in {"s_http_host_v6_start", "s_http_host_v6"}
    /\ t \in ZoneStates => s \in InHost
    /\ t \in {"s_http_host_v6_end", "s_http_host_port_start"} => s \in InHost \cup {"s_http_host_v6_end"}
    /\ t = "s_http_host_port" => s \in {"s_http_host_port_start", "s_http_host_port"}
HostRises(r) == \A s \in r[1] : HostNext(s, r[3])

LEMMA HostRuleRises == \A f, c, t : (\A s \in f : HostNext(s, t)) => HostRises(<<f, c, t>>)
  BY DEF HostRises

LEMMA HostRulesRise == ASSUME NEW r \in HostRules PROVE HostRises(r)
<1>1. /\ HostNext("s_http_userinfo", "s_http_host_start") /\ HostNext("s_http_userinfo_start", "s_http_host_start")
      /\ HostNext("s_http_userinfo", "s_http_userinfo") /\ HostNext("s_http_userinfo_start", "s_http_userinfo")
      /\ HostNext("s_http_host_start", "s_http_host_v6_start")
      /\ HostNext("s_http_host_start", "s_http_host") /\ HostNext("s_http_host", "s_http_host")
      /\ HostNext("s_http_host", "s_http_host_port_start") /\ HostNext("s_http_host_v6_end", "s_http_host_port_start")
  BY DEF HostNext, HostStates, BeforeHost, InHost, ZoneStates
<1>2. /\ HostNext("s_http_host_v6", "s_http_host_v6_end") /\ HostNext("s_http_host_v6_zone", "s_http_host_v6_end")
      /\ HostNext("s_http_host_v6", "s_http_host_v6") /\ HostNext("s_http_host_v6_start", "s_http_host_v6")
      /\ HostNext("s_http_host_v6", "s_http_host_v6_zone_start")
      /\ HostNext("s_http_host_v6_zone", "s_http_host_v6_zone")
      /\ HostNext("s_http_host_v6_zone_start", "s_http_host_v6_zone")
      /\ HostNext("s_http_host_port", "s_http_host_port") /\ HostNext("s_http_host_port_start", "s_http_host_port")
  BY DEF HostNext, HostStates, BeforeHost, InHost, ZoneStates
<1>3. \A c : /\ HostRises(<<{"s_http_userinfo", "s_http_userinfo_start"}, c, "s_http_host_start">>)
             /\ HostRises(<<{"s_http_userinfo", "s_http_userinfo_start"}, c, "s_http_userinfo">>)
             /\ HostRises(<<{"s_http_host_start"}, c, "s_http_host_v6_start">>)
             /\ HostRises(<<{"s_http_host_start", "s_http_host"}, c, "s_http_host">>)
             /\ HostRises(<<{"s_http_host", "s_http_host_v6_end"}, c, "s_http_host_port_start">>)
  BY <1>1, HostRuleRises
<1>4. \A c : /\ HostRises(<<{"s_http_host_v6", "s_http_host_v6_zone"}, c, "s_http_host_v6_end">>)
             /\ HostRises(<<{"s_http_host_v6", "s_http_host_v6_start"}, c, "s_http_host_v6">>)
             /\ HostRises(<<{"s_http_host_v6"}, c, "s_http_host_v6_zone_start">>)
             /\ HostRises(<<{"s_http_host_v6_zone", "s_http_host_v6_zone_start"}, c, "s_http_host_v6_zone">>)
             /\ HostRises(<<{"s_http_host_port", "s_http_host_port_start"}, c, "s_http_host_port">>)
  BY <1>2, HostRuleRises
<1> QED BY <1>3, <1>4, ZenonT(30) DEF HostRules

LEMMA HostAscends ==
    ASSUME NEW s, NEW c, NEW t, t = http_parse_host_char(s, c)
    PROVE  t = "s_http_host_dead" \/ (HostNext(s, t) /\ t \in HostStates)
<1>1. t = "s_http_host_dead" \/ \E r \in HostRules : s \in r[1] /\ t = r[3]
  BY LookupRule DEF http_parse_host_char
<1>2. ASSUME NEW r \in HostRules, s \in r[1], t = r[3] PROVE HostNext(s, t) /\ t \in HostStates
  BY <1>2, HostRulesRise DEF HostRises, HostNext
<1> QED BY <1>1, <1>2

LEMMA HostDeadStays == ASSUME NEW c PROVE http_parse_host_char("s_http_host_dead", c) = "s_http_host_dead"
<1>1. \A r \in HostRules : "s_http_host_dead" \notin r[1]
  BY DEF HostRules
<1> QED BY <1>1, LookupRule DEF http_parse_host_char

\* What http_parse_host goes through.
HostVals == [s : HostStates \cup {"s_http_host_dead"}, fields : Fields]
Cuts(f, buf, from, len, first) ==
    /\ f \in [0 .. len -> HostVals] /\ f[0] = first
    /\ \A j \in 1 .. len : f[j] = HostStep(f[j - 1], from + j - 1, buf[from + j - 1])

LEMMA HostFieldNames ==
    /\ DOMAIN HostFieldOf = InHost \cup {"s_http_host_port", "s_http_userinfo"}
    /\ \A s \in InHost : HostFieldOf[s] = "HOST"
    /\ HostFieldOf["s_http_host_port"] = "PORT" /\ HostFieldOf["s_http_userinfo"] = "USERINFO"
    /\ \A s \in DOMAIN HostFieldOf : HostFieldOf[s] \in Names
BY DEF HostFieldOf, InHost, Names

LEMMA HostStepIs ==
    ASSUME NEW h \in HostVals, NEW i \in Int, NEW c, NEW v, v = HostStep(h, i, c), NEW s, s = http_parse_host_char(h.s, c)
    PROVE  /\ v \in HostVals /\ v.s = s
           /\ s \notin DOMAIN HostFieldOf => v.fields = h.fields
           /\ s \in DOMAIN HostFieldOf => v.fields = Grow(h.fields, HostFieldOf[s], i, s = h.s \/ s \in ZoneStates)
<1>1. s \in HostStates \cup {"s_http_host_dead"}
  BY HostAscends
<1>2. h.fields \in Fields
  BY DEF HostVals
<1>3. CASE s \notin DOMAIN HostFieldOf
  <2>1. v = [s |-> s, fields |-> h.fields]
    BY <1>3 DEF HostStep
  <2> QED BY <1>1, <1>2, <1>3, <2>1 DEF HostVals
<1>4. CASE s \in DOMAIN HostFieldOf
  <2>1. PICK goesOn \in BOOLEAN : goesOn = (s = h.s \/ s \in ZoneStates)
    OBVIOUS
  <2>2. PICK g : g = Grow(h.fields, HostFieldOf[s], i, goesOn)
    OBVIOUS
  <2>3. HostFieldOf[s] \in Names
    BY <1>4, HostFieldNames
  <2>4. g \in Fields
    BY <1>2, <2>2, <2>3, GrowFacts
  <2>5. v = [s |-> s, fields |-> g]
    BY <1>4, <2>1, <2>2 DEF HostStep, ZoneStates
  <2> QED BY <1>1, <1>4, <2>1, <2>2, <2>4, <2>5 DEF HostVals
<1> QED BY <1>3, <1>4

\* A part within bytes a to i.
Spans(field, a, i) == field.off >= a /\ field.len > 0 /\ LastByte(field) <= i

\* Byte i of the host part has been read, which starts at byte a: the parts cut
\* out of it so far lie within, in order; the fields f around it stay.
HostParted(s, g, f, a, i) ==
    /\ DOMAIN f \subseteq DOMAIN g /\ DOMAIN g \subseteq DOMAIN f \cup {"USERINFO", "PORT"}
    /\ \A k \in DOMAIN f \ {"HOST"} : g[k] = f[k]
    /\ "USERINFO" \in DOMAIN g => Spans(g["USERINFO"], a, i)
    /\ s = "s_http_userinfo" => "USERINFO" \in DOMAIN g
    /\ s = "s_http_userinfo_start" => "USERINFO" \notin DOMAIN g
    /\ s \in InHost \cup AfterHost =>
          Spans(g["HOST"], a, i) /\ ("USERINFO" \in DOMAIN g => LastByte(g["USERINFO"]) < g["HOST"].off)
    /\ "PORT" \in DOMAIN g <=> s = "s_http_host_port"
    /\ s = "s_http_host_port" => Spans(g["PORT"], a, i) /\ LastByte(g["HOST"]) < g["PORT"].off
HostAt(h, f, a, i) == h.s \in HostStates => HostParted(h.s, h.fields, f, a, i)

\* The fields that UrlScan leaves to http_parse_host.
Uncut(f) == f \in Fields /\ "HOST" \in DOMAIN f /\ {"USERINFO", "PORT"} \cap DOMAIN f = {}

LEMMA SpansLonger ==
    ASSUME NEW e \in Field, NEW a \in Int, NEW i \in Int, Spans(e, a, i)
    PROVE  Spans(e, a, i + 1)
<1>1. e.off \in Int /\ e.len \in Int
  BY DEF Field
<1> QED BY <1>1 DEF Spans, LastByte

LEMMA SpansOne ==
    ASSUME NEW e \in Field, NEW a \in Int, NEW i \in Int, i >= a, e.off = i, e.len = 1
    PROVE  Spans(e, a, i)
BY DEF Spans, LastByte

LEMMA SpansMore ==
    ASSUME NEW e \in Field, NEW d \in Field, NEW a \in Int, NEW i \in Int, Spans(d, a, i), e.off = d.off, e.len = d.len + 1
    PROVE  Spans(e, a, i + 1)
<1>1. d.off \in Int /\ d.len \in Int
  BY DEF Field
<1> QED BY <1>1 DEF Spans, LastByte

\* A byte of the user information, of the host, of the port.
LEMMA UserInfoStep ==
    ASSUME NEW f, Uncut(f), NEW g \in Fields, NEW e \in Fields, NEW a \in Int, NEW i \in Int, i + 1 >= a,
           NEW s \in {"s_http_userinfo_start", "s_http_userinfo"}, HostParted(s, g, f, a, i),
           IF s = "s_http_userinfo" THEN Extends(g, e, "USERINFO") ELSE Starts(g, e, "USERINFO", i + 1)
    PROVE  HostParted("s_http_userinfo", e, f, a, i + 1)
<1>1. /\ DOMAIN e = DOMAIN g \cup {"USERINFO"} /\ \A k \in DOMAIN g \ {"USERINFO"} : e[k] = g[k]
      /\ "PORT" \notin DOMAIN e
  <2>1. CASE s = "s_http_userinfo"
    BY <2>1 DEF Extends, HostParted
  <2>2. CASE s # "s_http_userinfo"
    BY <2>2 DEF Starts, HostParted
  <2> QED BY <2>1, <2>2
<1>2. e["USERINFO"] \in Field /\ ("USERINFO" \in DOMAIN g => g["USERINFO"] \in Field)
  BY <1>1, FieldsFacts
<1>3. PICK d : d = e["USERINFO"]
  OBVIOUS
<1>4. Spans(d, a, i + 1)
  <2>1. CASE s = "s_http_userinfo"
    <3>1. PICK b : b = g["USERINFO"]
      OBVIOUS
    <3>2. d \in Field /\ b \in Field /\ Spans(b, a, i) /\ d.off = b.off /\ d.len = b.len + 1
      BY <1>2, <1>3, <2>1, <3>1 DEF HostParted, Extends
    <3> QED BY <3>2, SpansMore
  <2>2. CASE s # "s_http_userinfo"
    <3>1. PICK j \in Int : j = i + 1
      OBVIOUS
    <3>2. d \in Field /\ d.off = j /\ d.len = 1
      BY <1>2, <1>3, <2>2, <3>1 DEF Starts
    <3>3. Spans(d, a, j)
      BY <3>1, <3>2, SpansOne
    <3> QED BY <3>1, <3>3
  <2> QED BY <2>1, <2>2
<1>5. /\ DOMAIN f \subseteq DOMAIN e /\ DOMAIN e \subseteq DOMAIN f \cup {"USERINFO", "PORT"}
      /\ \A k \in DOMAIN f \ {"HOST"} : e[k] = f[k]
  BY <1>1 DEF HostParted, Uncut
<1>6. "s_http_userinfo" \notin InHost \cup AfterHost
  BY DEF InHost, AfterHost
<1> QED BY <1>1, <1>3, <1>4, <1>5, <1>6 DEF HostParted

LEMMA HostByteStep ==
    ASSUME NEW f, Uncut(f), NEW g \in Fields, NEW e \in Fields, NEW a \in Int, NEW i \in Int, i + 1 >= a,
           NEW s \in HostStates, s \in BeforeHost \cup InHost, HostParted(s, g, f, a, i), NEW t \in InHost,
           IF s \in InHost THEN Extends(g, e, "HOST") ELSE Starts(g, e, "HOST", i + 1)
    PROVE  HostParted(t, e, f, a, i + 1)
<1>1. /\ "HOST" \in DOMAIN g /\ DOMAIN e = DOMAIN g /\ \A k \in DOMAIN g \ {"HOST"} : e[k] = g[k]
      /\ "PORT" \notin DOMAIN e
  <2>1. "HOST" \in DOMAIN g /\ "PORT" \notin DOMAIN g
    BY DEF HostParted, Uncut, BeforeHost, InHost
  <2>2. CASE s \in InHost
    BY <2>1, <2>2 DEF Extends
  <2>3. CASE s \notin InHost
    BY <2>1, <2>3 DEF Starts
  <2> QED BY <2>2, <2>3
<1>2. \A k \in DOMAIN e : e[k] \in Field /\ g[k] \in Field
  BY <1>1, FieldsFacts
<1>3. PICK d, b, u, w : d = e["HOST"] /\ b = g["HOST"] /\ u = e["USERINFO"] /\ w = g["USERINFO"]
  OBVIOUS
<1>4. d \in Field /\ b \in Field /\ ("USERINFO" \in DOMAIN e => u = w /\ w \in Field /\ Spans(w, a, i))
  BY <1>1, <1>2, <1>3 DEF HostParted
<1>5. Spans(d, a, i + 1) /\ ("USERINFO" \in DOMAIN e => LastByte(u) < d.off)
  <2>1. CASE s \in InHost
    <3>1. Spans(b, a, i) /\ d.off = b.off /\ d.len = b.len + 1 /\ ("USERINFO" \in DOMAIN e => LastByte(w) < b.off)
      BY <1>1, <1>3, <2>1 DEF HostParted, Extends
    <3>2. Spans(d, a, i + 1)
      BY <1>4, <3>1, SpansMore
    <3> QED BY <1>4, <3>1, <3>2
  <2>2. CASE s \notin InHost
    <3>1. PICK j \in Int : j = i + 1
      OBVIOUS
    <3>2. d \in Field /\ d.off = j /\ d.len = 1
      BY <1>3, <1>4, <2>2, <3>1 DEF Starts
    <3>3. Spans(d, a, j)
      BY <3>1, <3>2, SpansOne
    <3>4. ASSUME "USERINFO" \in DOMAIN e PROVE LastByte(u) < d.off
      <4>1. u \in Field /\ LastByte(u) <= i
        BY <1>4, <3>4 DEF Spans
      <4>2. u.off \in Int /\ u.len \in Int
        BY <4>1 DEF Field
      <4> QED BY <3>1, <3>2, <4>1, <4>2 DEF LastByte
    <3> QED BY <3>1, <3>3, <3>4
  <2> QED BY <2>1, <2>2
<1>6. "USERINFO" \in DOMAIN e => Spans(u, a, i + 1)
  BY <1>4, SpansLonger
<1>7. /\ DOMAIN f \subseteq DOMAIN e /\ DOMAIN e \subseteq DOMAIN f \cup {"USERINFO", "PORT"}
      /\ \A k \in DOMAIN f \ {"HOST"} : e[k] = f[k]
  BY <1>1 DEF HostParted, Uncut
<1>8. t # "s_http_userinfo" /\ t # "s_http_userinfo_start" /\ t # "s_http_host_port"
  BY DEF InHost
<1> QED BY <1>1, <1>3, <1>5, <1>6, <1>7, <1>8 DEF HostParted

LEMMA PortStep ==
    ASSUME NEW f, Uncut(f), NEW g \in Fields, NEW e \in Fields, NEW a \in Int, NEW i \in Int, i + 1 >= a,
           NEW s \in {"s_http_host_port_start", "s_http_host_port"}, HostParted(s, g, f, a, i),
           IF s = "s_http_host_port" THEN Extends(g, e, "PORT") ELSE Starts(g, e, "PORT", i + 1)
    PROVE  HostParted("s_http_host_port", e, f, a, i + 1)
<1>1. DOMAIN e = DOMAIN g \cup {"PORT"} /\ \A k \in DOMAIN g \ {"PORT"} : e[k] = g[k]
  <2>1. CASE s = "s_http_host_port"
    BY <2>1 DEF Extends
  <2>2. CASE s # "s_http_host_port"
    BY <2>2 DEF Starts
  <2> QED BY <2>1, <2>2
<1>2. \A k \in DOMAIN g : g[k] \in Field /\ k \in DOMAIN e /\ e[k] \in Field
  BY <1>1, FieldsFacts
<1>3. PICK p, q, h, u : p = e["PORT"] /\ q = g["PORT"] /\ h = g["HOST"] /\ u = g["USERINFO"]
  OBVIOUS
<1>4. p \in Field
  BY <1>1, <1>3, FieldsFacts
<1>5. /\ "HOST" \in DOMAIN g /\ e["HOST"] = h /\ h \in Field /\ Spans(h, a, i)
      /\ "USERINFO" \in DOMAIN g => e["USERINFO"] = u /\ u \in Field /\ Spans(u, a, i) /\ LastByte(u) < h.off
  BY <1>1, <1>2, <1>3 DEF HostParted, Uncut, InHost, AfterHost
<1>6. Spans(p, a, i + 1) /\ LastByte(h) < p.off
  <2>1. CASE s = "s_http_host_port"
    <3>1. Spans(q, a, i) /\ LastByte(h) < q.off /\ "PORT" \in DOMAIN g /\ p.off = q.off /\ p.len = q.len + 1
      BY <1>3, <2>1 DEF HostParted, Extends
    <3>2. q \in Field
      BY <1>2, <1>3, <3>1
    <3>3. Spans(p, a, i + 1)
      BY <1>4, <3>1, <3>2, SpansMore
    <3> QED BY <3>1, <3>3
  <2>2. CASE s # "s_http_host_port"
    <3>1. PICK j \in Int : j = i + 1
      OBVIOUS
    <3>2. p.off = j /\ p.len = 1
      BY <1>3, <2>2, <3>1 DEF Starts
    <3>3. Spans(p, a, j)
      BY <1>4, <3>1, <3>2, SpansOne
    <3>4. LastByte(h) < p.off
      <4>1. h.off \in Int /\ h.len \in Int /\ LastByte(h) <= i
        BY <1>5 DEF Field, Spans
      <4> QED BY <3>1, <3>2, <4>1 DEF LastByte
    <3> QED BY <3>1, <3>3, <3>4
  <2> QED BY <2>1, <2>2
<1>7. Spans(h, a, i + 1) /\ ("USERINFO" \in DOMAIN g => Spans(u, a, i + 1))
  BY <1>5, SpansLonger
<1>8. /\ DOMAIN f \subseteq DOMAIN e /\ DOMAIN e \subseteq DOMAIN f \cup {"USERINFO", "PORT"}
      /\ \A k \in DOMAIN f \ {"HOST"} : e[k] = f[k]
  BY <1>1 DEF HostParted, Uncut
<1> QED BY <1>1, <1>3, <1>5, <1>6, <1>7, <1>8 DEF HostParted

\* A byte that belongs to no part.
LEMMA HostIdleStep ==
    ASSUME NEW f, Uncut(f), NEW g \in Fields, NEW a \in Int, NEW i \in Int, NEW s \in HostStates, HostParted(s, g, f, a, i),
           NEW t \in HostStates, HostNext(s, t), t \notin DOMAIN HostFieldOf
    PROVE  HostParted(t, g, f, a, i + 1)
<1>1. t \in {"s_http_host_start", "s_http_host_v6_start", "s_http_host_v6_end", "s_http_host_port_start"}
  BY HostFieldNames DEF HostStates, HostNext, InHost
<1>2. "PORT" \notin DOMAIN g
  BY <1>1 DEF HostParted, HostNext, InHost, BeforeHost
<1>3. \A k \in DOMAIN g : g[k] \in Field
  BY FieldsFacts
<1>4. PICK h, u : h = g["HOST"] /\ u = g["USERINFO"]
  OBVIOUS
<1>5. "USERINFO" \in DOMAIN g => Spans(u, a, i + 1)
  BY <1>3, <1>4, SpansLonger DEF HostParted
<1>6. t \in InHost \cup AfterHost => Spans(h, a, i + 1) /\ ("USERINFO" \in DOMAIN g => LastByte(u) < h.off)
  <2>1. ASSUME t \in InHost \cup AfterHost PROVE s \in InHost \cup AfterHost
    BY <1>1, <2>1 DEF HostNext, InHost, AfterHost
  <2>2. "HOST" \in DOMAIN g /\ h \in Field
    BY <1>3, <1>4 DEF HostParted, Uncut
  <2> QED BY <1>4, <2>1, <2>2, SpansLonger DEF HostParted
<1> QED BY <1>1, <1>2, <1>4, <1>5, <1>6 DEF HostParted

LEMMA HostAtStep ==
    ASSUME NEW f, Uncut(f), NEW h \in HostVals, NEW a \in Int, a > 0, NEW i \in Int, i + 1 >= a, i < UINT16_MAX,
           HostAt(h, f, a, i), NEW c,
           NEW v, v = HostStep(h, i + 1, c)
    PROVE  HostAt(v, f, a, i + 1)
<1>1. PICK j, s, t : j \in Int /\ j = i + 1 /\ s = h.s /\ t = http_parse_host_char(s, c)
  OBVIOUS
<1>2. PICK g, e : g = h.fields /\ e = v.fields
  OBVIOUS
<1>3. /\ v \in HostVals /\ v.s = t
      /\ t \notin DOMAIN HostFieldOf => e = g
      /\ t \in DOMAIN HostFieldOf => e = Grow(g, HostFieldOf[t], j, t = s \/ t \in ZoneStates)
  BY <1>1, <1>2, HostStepIs
<1>4. g \in Fields /\ e \in Fields
  BY <1>2, <1>3 DEF HostVals
<1> SUFFICES ASSUME t \in HostStates PROVE HostParted(t, e, f, a, i + 1)
  BY <1>2, <1>3 DEF HostAt
<1>5. s \in HostStates /\ HostNext(s, t)
  <2>1. t # "s_http_host_dead"
    BY DEF HostStates
  <2> QED BY <1>1, <2>1, HostAscends, HostDeadStays DEF HostVals
<1>6. HostParted(s, g, f, a, i)
  BY <1>1, <1>2, <1>5 DEF HostAt
<1>7. CASE t \notin DOMAIN HostFieldOf
  BY <1>3, <1>4, <1>5, <1>6, <1>7, HostIdleStep
<1>8. CASE t \in DOMAIN HostFieldOf
  <2>0. PICK goesOn \in BOOLEAN : goesOn = (t = s \/ t \in ZoneStates)
    OBVIOUS
  <2>1. PICK k : k = HostFieldOf[t]
    OBVIOUS
  <2>2. k \in Names
    BY <1>8, <2>1, HostFieldNames
  <2>3. e = Grow(g, k, j, goesOn)
    BY <1>3, <1>8, <2>0, <2>1
  <2>4. /\ ~goesOn => Starts(g, e, k, j)
        /\ goesOn /\ k \in DOMAIN g => Extends(g, e, k)
    <3>1. j \in 1 .. UINT16_MAX
      BY <1>1, UrlAssumption
    <3>2. ASSUME goesOn, k \in DOMAIN g PROVE Spans(g[k], a, i)
      BY <1>5, <1>6, <1>8, <2>0, <2>1, <3>2, HostFieldNames DEF HostParted, HostNext, InHost, ZoneStates
    <3>3. goesOn /\ k \in DOMAIN g => g[k].len \in 0 .. UINT16_MAX - 1
      BY <1>4, <3>2, FieldsFacts, UrlAssumption DEF Spans, LastByte
    <3> QED BY <1>1, <1>4, <2>2, <2>3, <3>1, <3>3, GrowFacts
  <2>5. CASE t = "s_http_userinfo"
    <3>1. k = "USERINFO" /\ s \in {"s_http_userinfo_start", "s_http_userinfo"} /\ goesOn = (s = "s_http_userinfo")
      BY <1>5, <2>0, <2>1, <2>5, HostFieldNames DEF HostNext, ZoneStates
    <3>2. IF s = "s_http_userinfo" THEN Extends(g, e, "USERINFO") ELSE Starts(g, e, "USERINFO", i + 1)
      BY <1>1, <1>6, <2>4, <3>1 DEF HostParted
    <3> QED BY <1>4, <1>6, <2>5, <3>1, <3>2, UserInfoStep
  <2>6. CASE t \in InHost
    <3>1. k = "HOST" /\ "HOST" \in DOMAIN g
      BY <1>6, <2>0, <2>1, <2>6, HostFieldNames DEF HostParted, Uncut
    <3>2. s \in BeforeHost \cup InHost /\ goesOn = (s \in InHost)
      BY <1>5, <2>0, <2>1, <2>6 DEF HostNext, InHost, BeforeHost, ZoneStates
    <3>3. IF s \in InHost THEN Extends(g, e, "HOST") ELSE Starts(g, e, "HOST", i + 1)
      BY <1>1, <2>4, <3>1, <3>2
    <3> QED BY <1>4, <1>5, <1>6, <2>6, <3>2, <3>3, HostByteStep
  <2>7. CASE t = "s_http_host_port"
    <3>1. k = "PORT" /\ s \in {"s_http_host_port_start", "s_http_host_port"} /\ goesOn = (s = "s_http_host_port")
      BY <1>5, <2>0, <2>1, <2>7, HostFieldNames DEF HostNext, ZoneStates
    <3>2. IF s = "s_http_host_port" THEN Extends(g, e, "PORT") ELSE Starts(g, e, "PORT", i + 1)
      BY <1>1, <1>6, <2>4, <3>1 DEF HostParted
    <3> QED BY <1>4, <1>6, <2>7, <3>1, <3>2, PortStep
  <2> QED BY <1>8, <2>5, <2>6, <2>7, HostFieldNames
<1> QED BY <1>7, <1>8

LEMMA CutExists ==
    ASSUME NEW buf, NEW from \in Int, NEW len \in Nat, NEW first \in HostVals
    PROVE  \E f : Cuts(f, buf, from, len, first)
<1>1. PICK step : step = [j \in 1 .. len |-> [h \in HostVals |-> HostStep(h, from + j - 1, buf[from + j - 1])]]
  OBVIOUS
<1>2. IsStep(step, len, HostVals)
  <2>1. ASSUME NEW j \in 1 .. len, NEW h \in HostVals PROVE step[j][h] \in HostVals
    <3>1. PICK i \in Int : i = from + j - 1
      OBVIOUS
    <3>2. step[j][h] = HostStep(h, i, buf[i])
      BY <1>1, <3>1
    <3> QED BY <3>2, HostStepIs
  <2> QED BY <1>1, <2>1 DEF IsStep
<1>3. PICK f : IsRecursive(f, len, HostVals, first, step)
  BY <1>2, RecursionExists
<1>4. f \in [0 .. len -> HostVals] /\ f[0] = first /\ \A j \in 1 .. len : f[j] = step[j][f[j - 1]]
  BY <1>3 DEF IsRecursive
<1>5. ASSUME NEW j \in 1 .. len PROVE f[j] = HostStep(f[j - 1], from + j - 1, buf[from + j - 1])
  <2>1. j - 1 \in 0 .. len /\ f[j - 1] \in HostVals
    BY <1>4
  <2> QED BY <1>1, <1>4, <2>1
<1> QED BY <1>4, <1>5 DEF Cuts

LEMMA HostIs ==
    ASSUME NEW buf, NEW fields, NEW found_at, NEW from \in Int, from = fields["HOST"].off, NEW len \in Nat,
           len = fields["HOST"].len, NEW f, Cuts(f, buf, from, len, [s |-> HostStart(found_at), fields |-> fields])
    PROVE  /\ http_parse_host(buf, fields, found_at).ok
                => (f[len].s \in {"s_http_host", "s_http_host_v6_end", "s_http_host_port"})
           /\ http_parse_host(buf, fields, found_at).fields = f[len].fields
<1> DEFINE first == [s |-> HostStart(found_at), fields |-> fields]
           All == CHOOSE host : host = [j \in 0 .. len |->
                     IF j = 0 THEN first ELSE HostStep(host[j - 1], from + j - 1, buf[from + j - 1])]
<1>1. f = [j \in 0 .. len |-> IF j = 0 THEN first ELSE HostStep(f[j - 1], from + j - 1, buf[from + j - 1])]
  <2>1. f = [j \in 0 .. len |-> f[j]]
    BY DEF Cuts
  <2>2. ASSUME NEW j \in 0 .. len
        PROVE  f[j] = IF j = 0 THEN first ELSE HostStep(f[j - 1], from + j - 1, buf[from + j - 1])
    <3>1. CASE j = 0
      BY <3>1 DEF Cuts
    <3>2. CASE j # 0
      <4>1. j \in 1 .. len
        BY <3>2
      <4> QED BY <3>2, <4>1 DEF Cuts
    <3> QED BY <3>1, <3>2
  <2> QED BY <2>1, <2>2
<1>2. All = [j \in 0 .. len |-> IF j = 0 THEN first ELSE HostStep(All[j - 1], from + j - 1, buf[from + j - 1])]
  BY <1>1
<1>3. http_parse_host(buf, fields, found_at)
        = [ok |-> All[len].s \in {"s_http_host", "s_http_host_v6_end", "s_http_host_port"}, fields |-> All[len].fields]
  BY DEF http_parse_host
<1>4. first = [s |-> HostStart(found_at), fields |-> fields]
  OBVIOUS
<1> HIDE DEF All, first
<1>5. PICK T : T = {j \in 0 .. len : f[j] = All[j]}
  OBVIOUS
<1>6. 0 \in T
  <2>1. All[0] = first
    BY <1>2
  <2> QED BY <1>4, <1>5, <2>1 DEF Cuts
<1>7. ASSUME NEW j \in 0 .. len - 1, j \in T PROVE j + 1 \in T
  <2>1. PICK k \in 1 .. len : k = j + 1 /\ k - 1 = j /\ k # 0 /\ k \in 0 .. len /\ f[k - 1] = All[k - 1]
    BY <1>5, <1>7
  <2>2. f[k] = HostStep(f[k - 1], from + k - 1, buf[from + k - 1])
    BY <2>1 DEF Cuts
  <2>3. All[k] = HostStep(All[k - 1], from + k - 1, buf[from + k - 1])
    BY <1>2, <2>1
  <2> QED BY <1>5, <2>1, <2>2, <2>3
<1>8. \A j \in 0 .. len - 1 : j \in T => j + 1 \in T
  BY <1>7
<1>9. \A j \in 0 .. len : j \in T
  BY <1>6, <1>8, InductionUpTo
<1>10. f[len] = All[len]
  BY <1>5, <1>9
<1>11. CASE f[len].s \in {"s_http_host", "s_http_host_v6_end", "s_http_host_port"}
  <2>1. http_parse_host(buf, fields, found_at).fields = f[len].fields
    BY <1>3, <1>10
  <2> QED BY <1>11, <2>1
<1>12. CASE f[len].s \notin {"s_http_host", "s_http_host_v6_end", "s_http_host_port"}
  <2>1. (f[len].s \in {"s_http_host", "s_http_host_v6_end", "s_http_host_port"}) = FALSE
    BY <1>12
  <2>2. http_parse_host(buf, fields, found_at) = [ok |-> FALSE, fields |-> f[len].fields]
    BY <1>3, <1>10, <2>1
  <2>3. ~http_parse_host(buf, fields, found_at).ok /\ http_parse_host(buf, fields, found_at).fields = f[len].fields
    BY <2>2
  <2> QED BY <2>3
<1> QED BY <1>11, <1>12

\* The cut parts take the place of the host part among the others.
LEMMA CutSorted ==
    ASSUME NEW f, Uncut(f), NEW n \in Nat, InUrl(f, n), Sorted(f), NEW g \in Fields, NEW s \in InHost \cup AfterHost,
           HostParted(s, g, f, f["HOST"].off, LastByte(f["HOST"]))
    PROVE  InUrl(g, n) /\ Sorted(g)
<1>1. PICK a, b : a = f["HOST"].off /\ b = LastByte(f["HOST"])
  OBVIOUS
<1>2. a \in Int /\ b \in Int /\ a > 0 /\ b <= n /\ "HOST" \in DOMAIN f /\ f \in Fields
  BY <1>1, FieldsFacts DEF Uncut, InUrl
<1>3. PICK P : P = {"USERINFO", "HOST", "PORT"}
  OBVIOUS
<1>4. \A k \in DOMAIN g : k \in Names /\ g[k].off \in Int /\ g[k].len \in Int /\ LastByte(g[k]) = g[k].off + g[k].len - 1
  BY FieldsFacts DEF LastByte
<1>5. ASSUME NEW k \in DOMAIN g, k \in P PROVE g[k].off >= a /\ g[k].len > 0 /\ LastByte(g[k]) <= b
  BY <1>1, <1>3, <1>5 DEF HostParted, Spans
<1>6. ASSUME NEW k \in DOMAIN g, k \notin P PROVE k \in DOMAIN f /\ g[k] = f[k]
  BY <1>3, <1>6 DEF HostParted
<1>7. InUrl(g, n)
  <2>1. ASSUME NEW k \in DOMAIN g PROVE g[k].off > 0 /\ g[k].len > 0 /\ LastByte(g[k]) <= n
    <3>1. CASE k \in P
      BY <1>2, <1>4, <1>5, <3>1
    <3>2. CASE k \notin P
      BY <1>6, <3>2 DEF InUrl
    <3> QED BY <3>1, <3>2
  <2> QED BY <2>1 DEF InUrl
<1>8. /\ Rank["USERINFO"] = 2 /\ Rank["HOST"] = 3 /\ Rank["PORT"] = 4
      /\ \A k \in Names \ P : Rank[k] = 1 \/ Rank[k] \in 5 .. 7
  BY <1>3 DEF Rank, Names
<1>9. ASSUME NEW j \in DOMAIN g, NEW k \in DOMAIN g, Rank[j] < Rank[k]
      PROVE  LastByte(g[j]) < g[k].off
  <2>1. CASE j \in P /\ k \in P
    <3>1. /\ "HOST" \in DOMAIN g /\ g["HOST"].len > 0
          /\ "USERINFO" \in DOMAIN g => LastByte(g["USERINFO"]) < g["HOST"].off
          /\ "PORT" \in DOMAIN g => LastByte(g["HOST"]) < g["PORT"].off
      BY <1>2 DEF HostParted, Spans
    <3>2. (j = "USERINFO" /\ k = "HOST") \/ (j = "USERINFO" /\ k = "PORT") \/ (j = "HOST" /\ k = "PORT")
      BY <1>3, <1>8, <1>9, <2>1
    <3>3. CASE j = "USERINFO" /\ k = "PORT"
      <4>1. /\ g["HOST"].off \in Int /\ g["HOST"].len \in Int /\ LastByte(g["HOST"]) = g["HOST"].off + g["HOST"].len - 1
            /\ LastByte(g[j]) \in Int /\ g[k].off \in Int
        BY <1>4, <3>1
      <4> QED BY <3>1, <3>3, <4>1
    <3> QED BY <3>1, <3>2, <3>3
  <2>2. CASE j \in P /\ k \notin P
    <3>1. k \in DOMAIN f /\ g[k] = f[k] /\ Rank["HOST"] < Rank[k]
      BY <1>3, <1>4, <1>6, <1>8, <1>9, <2>2
    <3>2. b < g[k].off
      BY <1>1, <1>2, <3>1 DEF Sorted
    <3> QED BY <1>2, <1>4, <1>5, <2>2, <3>2
  <2>3. CASE j \notin P /\ k \in P
    <3>1. j \in DOMAIN f /\ g[j] = f[j] /\ Rank[j] < Rank["HOST"]
      BY <1>3, <1>4, <1>6, <1>8, <1>9, <2>3
    <3>2. LastByte(g[j]) < a
      BY <1>1, <1>2, <3>1 DEF Sorted
    <3> QED BY <1>2, <1>4, <1>5, <2>3, <3>2
  <2>4. CASE j \notin P /\ k \notin P
    BY <1>6, <1>9, <2>4 DEF Sorted
  <2> QED BY <2>1, <2>2, <2>3, <2>4
<1> QED BY <1>7, <1>9 DEF Sorted

LEMMA HostCut ==
    ASSUME NEW buf, NEW f, Uncut(f), NEW n \in 0 .. UINT16_MAX, InUrl(f, n), Sorted(f), NEW found_at \in BOOLEAN,
           NEW h, h = http_parse_host(buf, f, found_at), h.ok
    PROVE  h.fields \in Fields /\ InUrl(h.fields, n) /\ Sorted(h.fields)
<1>0. UINT16_MAX \in Nat /\ n \in Nat
  BY UrlAssumption
<1>1. PICK a \in Int, len \in Nat : a = f["HOST"].off /\ len = f["HOST"].len
  BY FieldsFacts DEF Uncut, InUrl
<1>2. LastByte(f["HOST"]) = a + len - 1 /\ a > 0 /\ a + len - 1 <= n
  BY <1>1 DEF LastByte, Uncut, InUrl
<1>3. PICK s : s = HostStart(found_at)
  OBVIOUS
<1>4. s \in {"s_http_userinfo_start", "s_http_host_start"}
  BY <1>3 DEF HostStart
<1>5. PICK first : first = [s |-> s, fields |-> f]
  OBVIOUS
<1>6. first \in HostVals /\ first.s = s /\ first.fields = f
  BY <1>4, <1>5 DEF HostVals, HostStates, Uncut
<1>7. HostAt(first, f, a, a - 1)
  BY <1>4, <1>6 DEF HostAt, HostParted, Uncut, InHost, AfterHost
<1>8. PICK p : Cuts(p, buf, a, len, first)
  BY <1>6, CutExists
<1>9. p[len].s \in {"s_http_host", "s_http_host_v6_end", "s_http_host_port"} /\ h.fields = p[len].fields
  <2>1. Cuts(p, buf, a, len, [s |-> HostStart(found_at), fields |-> f])
    BY <1>3, <1>5, <1>8
  <2> QED BY <1>1, <2>1, HostIs
<1>10. PICK T : T = {j \in 0 .. len : HostAt(p[j], f, a, a + j - 1)}
  OBVIOUS
<1>11. 0 \in T
  <2>1. a + 0 - 1 = a - 1
    OBVIOUS
  <2> QED BY <1>7, <1>8, <1>10, <2>1 DEF Cuts
<1>12. ASSUME NEW j \in 0 .. len - 1, j \in T PROVE j + 1 \in T
  <2>1. PICK k \in 1 .. len, i \in Int :
            /\ k = j + 1 /\ k - 1 = j /\ k \in 0 .. len /\ i = a + j - 1 /\ a + k - 1 = i + 1
            /\ i + 1 >= a /\ i < UINT16_MAX
    BY <1>0, <1>2
  <2>2. p[j] \in HostVals /\ p[k] = HostStep(p[k - 1], a + k - 1, buf[a + k - 1])
    BY <1>8, <2>1 DEF Cuts
  <2>3. PICK u, c, v : u \in HostVals /\ u = p[j] /\ c = buf[a + k - 1] /\ v = p[k]
    BY <2>2
  <2>4. v = HostStep(u, i + 1, c) /\ HostAt(u, f, a, i)
    BY <1>10, <1>12, <2>1, <2>2, <2>3
  <2>5. HostAt(v, f, a, i + 1)
    BY <1>2, <2>1, <2>3, <2>4, HostAtStep
  <2> QED BY <1>10, <2>1, <2>3, <2>5
<1>13. \A j \in 0 .. len - 1 : j \in T => j + 1 \in T
  BY <1>12
<1>14. \A j \in 0 .. len : j \in T
  BY <1>11, <1>13, InductionUpTo
<1>15. HostAt(p[len], f, a, a + len - 1) /\ p[len] \in HostVals
  BY <1>8, <1>10, <1>14 DEF Cuts
<1>16. PICK g, t : g = p[len].fields /\ t = p[len].s
  OBVIOUS
<1>17. g \in Fields /\ t \in InHost \cup AfterHost /\ t \in HostStates
  BY <1>9, <1>15, <1>16 DEF HostVals, InHost, AfterHost, HostStates
<1>18. HostParted(t, g, f, f["HOST"].off, LastByte(f["HOST"]))
  BY <1>1, <1>2, <1>15, <1>16, <1>17 DEF HostAt
<1> QED BY <1>0, <1>9, <1>16, <1>17, <1>18, CutSorted

\* However a string is cut into parts: each lies in it, none is empty, and they
\* follow each other in the order of UrlParts without a common byte, as long as
\* their offsets fit a uint16_t.
THEOREM UrlPartsApart ==
    ASSUME NEW buf, Len(buf) \in 0 .. UINT16_MAX, NEW connect \in BOOLEAN
    PROVE  LET parts == http_parser_parse_url(buf, connect).fields IN InUrl(parts, Len(buf)) /\ PartsInOrder(parts)
<1>0. PICK n \in 0 .. UINT16_MAX : n = Len(buf) /\ n \in Nat
  BY UrlAssumption
<1>1. PICK r, u : r = http_parser_parse_url(buf, connect) /\ u = UrlScan(buf, connect)
  OBVIOUS
<1>2. u \in UrlVals /\ UrlAt(u, n)
  BY <1>0, <1>1, UrlScanned
<1>3. PICK h : h = IF "HOST" \in DOMAIN u.fields THEN http_parse_host(buf, u.fields, u.found_at)
                   ELSE [ok |-> "SCHEMA" \notin DOMAIN u.fields, fields |-> u.fields]
  OBVIOUS
<1>4. r = NoUrl \/ (u.s # "s_dead" /\ h.ok /\ r.fields = h.fields)
  BY <1>0, <1>1, <1>3 DEF http_parser_parse_url
<1>5. CASE r = NoUrl
  <2>1. r.fields = <<>>
    BY <1>5 DEF NoUrl
  <2>2. InUrl(r.fields, n) /\ Sorted(r.fields)
    BY <2>1, EmptyFields DEF InUrl, Sorted
  <2> QED BY <1>0, <1>1, <2>2, SortedParts
<1>6. CASE u.s # "s_dead" /\ h.ok /\ r.fields = h.fields
  <2>1. UrlParted(u) /\ InUrl(u.fields, n) /\ Sorted(u.fields) /\ u.fields \in Fields /\ u.found_at \in BOOLEAN
    BY <1>2, <1>6 DEF UrlAt, UrlVals
  <2>2. CASE "HOST" \in DOMAIN u.fields
    <3>0. PICK at \in BOOLEAN : at = u.found_at
      BY <2>1
    <3>1. PICK f : f = u.fields
      OBVIOUS
    <3>2. Uncut(f)
      BY <2>1, <2>2, <3>1 DEF Uncut, UrlParted
    <3>3. h = http_parse_host(buf, f, at)
      BY <1>3, <2>2, <3>0, <3>1
    <3>4. InUrl(h.fields, n) /\ Sorted(h.fields)
      BY <1>6, <2>1, <3>1, <3>2, <3>3, HostCut
    <3> QED BY <1>0, <1>1, <1>6, <3>4, SortedParts
  <2>3. CASE "HOST" \notin DOMAIN u.fields
    <3>1. h.fields = u.fields
      BY <1>3, <2>3
    <3> QED BY <1>0, <1>1, <1>6, <2>1, <3>1, SortedParts
  <2> QED BY <2>2, <2>3
<1> QED BY <1>4, <1>5, <1>6

-------------------------------------------------------------------------------
(* The URL of the last message, as it is handed over                       *)

Located(l, b, e) == b \in DOMAIN l /\ Begins(l, b) /\ e \in b .. Len(l) /\ UrlEnds(l, b, e)
UrlText(l, b, e) == [i \in 1 .. e - b |-> l[b + i][2]]
UrlKinds == {"message_begin", "url"}

\* u is what was handed over; as long as nothing came after it, it may go on.
Holds(l, u) == \E b, e : Located(l, b, e) /\ u = UrlText(l, b, e) /\ (LastKind(l) \in UrlKinds => e = Len(l))

LEMMA HeldIs ==
    ASSUME NEW l \in Seq(Events), NEW u, Holds(l, u)
    PROVE  u = UrlOf(l) /\ Len(u) \in Nat /\ u = [i \in 1 .. Len(u) |-> u[i]]
<1> DEFINE B == CHOOSE x \in DOMAIN l : Begins(l, x)
<1> DEFINE E == CHOOSE x \in B .. Len(l) : UrlEnds(l, B, x)
<1>0. UrlOf(l) = [i \in 1 .. E - B |-> l[B + i][2]]
  BY DEF UrlOf
<1>1. PICK b, e : Located(l, b, e) /\ u = UrlText(l, b, e)
  BY DEF Holds
<1>2. PICK n \in Nat : n = Len(l)
  OBVIOUS
<1>3. b \in 1 .. n /\ e \in b .. n /\ DOMAIN l = 1 .. n
  BY <1>1, <1>2 DEF Located
<1>4. PICK c : c = B
  OBVIOUS
<1>5. c \in 1 .. n /\ Begins(l, c)
  BY <1>1, <1>3, <1>4 DEF Located
<1> HIDE DEF B, E
<1>6. c = b
  <2>1. l[b] = <<"message_begin">> /\ l[c] = <<"message_begin">>
    BY <1>1, <1>5 DEF Located, Begins
  <2>2. ~(c < b)
    BY <1>2, <1>3, <1>5, <2>1 DEF Begins
  <2>3. ~(b < c)
    BY <1>1, <1>2, <1>3, <1>5, <2>1 DEF Located, Begins
  <2> QED BY <1>3, <1>5, <2>2, <2>3
<1>7. PICK f : f = E /\ f = CHOOSE x \in c .. Len(l) : UrlEnds(l, c, x)
  BY <1>4 DEF E
<1>8. f \in b .. n /\ UrlEnds(l, b, f)
  BY <1>1, <1>2, <1>6, <1>7 DEF Located
<1>9. f = e
  <2>1. UrlEnds(l, b, e)
    BY <1>1 DEF Located
  <2>2. ~(f < e)
    BY <1>2, <1>3, <1>8, <2>1 DEF UrlEnds
  <2>3. ~(e < f)
    BY <1>2, <1>3, <1>8, <2>1 DEF UrlEnds
  <2> QED BY <1>3, <1>8, <2>2, <2>3
<1>10. UrlOf(l) = UrlText(l, b, e)
  <2>1. UrlOf(l) = [i \in 1 .. f - c |-> l[c + i][2]]
    BY <1>0, <1>4, <1>7
  <2> QED BY <1>6, <1>9, <2>1 DEF UrlText
<1>11. Len(u) \in Nat /\ u = [i \in 1 .. Len(u) |-> u[i]]
  <2>1. PICK k \in Nat : k = e - b
    BY <1>3
  <2>2. u = [i \in 1 .. k |-> l[b + i][2]]
    BY <1>1, <2>1 DEF UrlText
  <2> QED BY <2>1, <2>2
<1> QED BY <1>1, <1>10, <1>11

\* A message has begun.
LEMMA HeldBegins ==
    ASSUME NEW l \in Seq(Events), NEW m \in Seq(Events), Len(m) = Len(l) + 1, m[Len(m)] = <<"message_begin">>
    PROVE  \E u : Holds(m, u) /\ Len(u) = 0
<1>1. PICK n, u : n \in Nat /\ n = Len(m) /\ n > 0 /\ u = UrlText(m, n, n)
  OBVIOUS
<1>2. Begins(m, n) /\ UrlEnds(m, n, n) /\ n \in DOMAIN m
  BY <1>1 DEF Begins, UrlEnds
<1>3. Located(m, n, n)
  BY <1>1, <1>2 DEF Located
<1>4. u = [i \in 1 .. 0 |-> m[n + i][2]]
  BY <1>1 DEF UrlText
<1>5. Len(u) = 0
  BY <1>4
<1> QED BY <1>1, <1>3, <1>5 DEF Holds

\* m is l and what comes after it, nothing of it of a URL.
Adds(l, m) ==
    /\ Len(m) >= Len(l) /\ \A i \in 1 .. Len(l) : m[i] = l[i]
    /\ \A i \in Len(l) + 1 .. Len(m) : m[i][1] \notin UrlKinds

LEMMA HeldStays ==
    ASSUME NEW l \in Seq(Events), NEW m \in Seq(Events), Adds(l, m), NEW u, Holds(l, u)
    PROVE  Holds(m, u)
<1>1. PICK b, e : Located(l, b, e) /\ u = UrlText(l, b, e) /\ (LastKind(l) \in UrlKinds => e = Len(l))
  BY DEF Holds
<1>2. PICK n, k \in Nat : n = Len(l) /\ k = Len(m) /\ n <= k
  BY DEF Adds
<1>3. b \in 1 .. n /\ e \in b .. n /\ DOMAIN l = 1 .. n /\ DOMAIN m = 1 .. k
  BY <1>1, <1>2 DEF Located
<1>4. (\A i \in 1 .. n : m[i] = l[i]) /\ \A i \in n + 1 .. k : m[i][1] \notin UrlKinds
  BY <1>2 DEF Adds
<1>5. Begins(m, b)
  <2>1. PICK x : x = <<"message_begin">>
    OBVIOUS
  <2>2. l[b] = x /\ \A i \in b + 1 .. n : l[i] # x
    BY <1>1, <1>2, <2>1 DEF Located, Begins
  <2>3. m[b] = x /\ x[1] = "message_begin"
    BY <1>3, <1>4, <2>1, <2>2
  <2>4. ASSUME NEW i \in b + 1 .. k PROVE m[i] # x
    BY <1>3, <1>4, <2>2, <2>3 DEF UrlKinds
  <2> QED BY <1>2, <2>1, <2>3, <2>4 DEF Begins
<1>6. UrlEnds(m, b, e)
  <2>1. (\A i \in b + 1 .. e : l[i][1] = "url") /\ (e < n => l[e + 1][1] # "url")
    BY <1>1, <1>2 DEF Located, UrlEnds
  <2>2. \A i \in b + 1 .. e : m[i][1] = "url"
    BY <1>3, <1>4, <2>1
  <2>3. e < k => m[e + 1][1] # "url"
    BY <1>3, <1>4, <2>1 DEF UrlKinds
  <2> QED BY <1>2, <2>2, <2>3 DEF UrlEnds
<1>7. Located(m, b, e)
  BY <1>2, <1>3, <1>5, <1>6 DEF Located
<1>8. u = UrlText(m, b, e)
  <2>1. ASSUME NEW i \in 1 .. e - b PROVE m[b + i][2] = l[b + i][2]
    BY <1>3, <1>4
  <2> QED BY <1>1, <2>1 DEF UrlText
<1>9. ASSUME LastKind(m) \in UrlKinds
      PROVE  e = Len(m)
  <2>1. LastKind(m) = m[k][1] /\ LastKind(l) = l[n][1]
    BY <1>2, <1>3 DEF LastKind
  <2>2. n = k
    BY <1>2, <1>4, <1>9, <2>1
  <2>3. LastKind(l) = LastKind(m)
    BY <1>3, <1>4, <2>1, <2>2
  <2> QED BY <1>1, <1>2, <1>9, <2>2, <2>3
<1> QED BY <1>7, <1>8, <1>9 DEF Holds

\* The URL with the bytes of the connection from place m to before place at.
Seen(syms, u, m, at) ==
    [i \in 1 .. Len(u) + (at - m) |-> IF i <= Len(u) THEN u[i] ELSE syms[m + i - Len(u) - 1]]

UrlBytes(ev, from, n) ==
    ev \in Seq(Events) /\ Len(ev) = n /\ \A i \in 1 .. n : ev[i][1] = "url" /\ ev[i][2] = stream.syms[from + i - 1]

LEMMA HeldGrows ==
    ASSUME NEW l \in Seq(Events), NEW u, Holds(l, u), LastKind(l) \in UrlKinds, NEW from \in Nat, NEW n \in Nat \ {0},
           NEW ev, UrlBytes(ev, from, n), NEW m, m = l \o ev
    PROVE  Holds(m, Seen(stream.syms, u, from, from + n))
<1>1. PICK b, e : Located(l, b, e) /\ u = UrlText(l, b, e) /\ (LastKind(l) \in UrlKinds => e = Len(l))
  BY DEF Holds
<1>2. PICK k \in Nat : k = Len(l)
  OBVIOUS
<1>3. b \in 1 .. k /\ e = k /\ DOMAIN l = 1 .. k
  BY <1>1, <1>2 DEF Located
<1>4. /\ m \in Seq(Events) /\ Len(m) = k + n /\ DOMAIN m = 1 .. k + n
      /\ (\A i \in 1 .. k : m[i] = l[i]) /\ \A i \in k + 1 .. k + n : m[i] = ev[i - k]
  <2>1. ev \in Seq(Events)
    BY DEF UrlBytes
  <2>2. m \in Seq(Events) /\ Len(m) = k + n
    <3>1. m \in Seq(Events) /\ Len(m) = Len(l) + Len(ev)
      BY <2>1
    <3>2. Len(ev) = n
      BY DEF UrlBytes
    <3> QED BY <1>2, <3>1, <3>2, Zenon
  <2>3. DOMAIN m = 1 .. k + n
    BY <2>2
  <2>4. ASSUME NEW i \in 1 .. k PROVE m[i] = l[i]
    BY <1>2, <2>1
  <2>5. \A i \in k + 1 .. k + n : m[i] = ev[i - k]
    <3>1. Len(ev) = n
      BY DEF UrlBytes
    <3> QED BY <1>2, <2>1, <3>1
  <2> QED BY <2>2, <2>3, <2>4, <2>5
<1>5. ASSUME NEW i \in k + 1 .. k + n
      PROVE  m[i][1] = "url" /\ m[i][2] = stream.syms[from + (i - k) - 1]
  <2>1. PICK j \in 1 .. n : j = i - k
    OBVIOUS
  <2>2. m[i] = ev[j]
    BY <1>4, <2>1
  <2>3. ev[j][1] = "url" /\ ev[j][2] = stream.syms[from + j - 1]
    BY DEF UrlBytes
  <2> QED BY <2>1, <2>2, <2>3
<1>6. Begins(m, b)
  <2>1. PICK x : x = <<"message_begin">>
    OBVIOUS
  <2>2. l[b] = x /\ \A i \in b + 1 .. k : l[i] # x
    BY <1>1, <1>2, <2>1 DEF Located, Begins
  <2>3. m[b] = x /\ x[1] = "message_begin"
    BY <1>3, <1>4, <2>1, <2>2
  <2>4. ASSUME NEW i \in b + 1 .. k + n PROVE m[i] # x
    <3>1. CASE i <= k
      BY <1>3, <1>4, <2>2, <3>1
    <3>2. CASE ~(i <= k)
      <4>1. i \in k + 1 .. k + n
        BY <1>3, <3>2
      <4>2. m[i][1] = "url"
        BY <1>5, <4>1
      <4> QED BY <2>3, <4>2
    <3> QED BY <3>1, <3>2
  <2> QED BY <1>4, <2>1, <2>3, <2>4 DEF Begins
<1>7. UrlEnds(m, b, k + n)
  <2>1. \A i \in b + 1 .. k : l[i][1] = "url"
    BY <1>1, <1>3 DEF Located, UrlEnds
  <2>2. ASSUME NEW i \in b + 1 .. k + n PROVE m[i][1] = "url"
    <3>1. CASE i <= k
      BY <1>3, <1>4, <2>1, <3>1
    <3>2. CASE ~(i <= k)
      <4>1. i \in k + 1 .. k + n
        BY <1>3, <3>2
      <4> QED BY <1>5, <4>1
    <3> QED BY <3>1, <3>2
  <2>3. ~(k + n < Len(m))
    BY <1>4
  <2> QED BY <2>2, <2>3 DEF UrlEnds
<1>8. Located(m, b, k + n)
  BY <1>3, <1>4, <1>6, <1>7 DEF Located
<1>9. Seen(stream.syms, u, from, from + n) = UrlText(m, b, k + n)
  <2>1. PICK h \in Nat : h = k - b
    BY <1>3
  <2>2. u = [i \in 1 .. h |-> l[b + i][2]]
    BY <1>1, <1>3, <2>1 DEF UrlText
  <2>3. Len(u) = h /\ \A i \in 1 .. h : u[i] = l[b + i][2]
    BY <2>1, <2>2
  <2>4. h + ((from + n) - from) = (k + n) - b /\ (k + n) - b = h + n
    BY <1>3, <2>1
  <2>5. ASSUME NEW i \in 1 .. h + n
        PROVE  (IF i <= h THEN u[i] ELSE stream.syms[from + i - h - 1]) = m[b + i][2]
    <3>1. CASE i <= h
      <4>1. b + i \in 1 .. k
        BY <1>3, <2>1, <3>1
      <4> QED BY <1>4, <2>3, <3>1, <4>1, SMTT(30)
    <3>2. CASE ~(i <= h)
      <4>1. b + i \in k + 1 .. k + n /\ from + ((b + i) - k) - 1 = from + i - h - 1
        BY <1>3, <2>1, <3>2
      <4> QED BY <1>5, <3>2, <4>1
    <3> QED BY <3>1, <3>2
  <2> QED BY <2>3, <2>4, <2>5 DEF Seen, UrlText
<1> QED BY <1>4, <1>8, <1>9 DEF Holds

\* A URL that is not empty was the last that was handed over.
LEMMA HeldLast ==
    ASSUME NEW l \in Seq(Events), NEW u, Holds(l, u), LastKind(l) \in UrlKinds
    PROVE  /\ Len(u) > 0 => LastKind(l) = "url"
           /\ LastKind(l) = "message_begin" => Len(u) = 0
<1>1. PICK b, e : Located(l, b, e) /\ u = UrlText(l, b, e) /\ e = Len(l)
  BY DEF Holds
<1>2. PICK n \in Nat : n = Len(l)
  OBVIOUS
<1>3. b \in 1 .. n /\ LastKind(l) = l[n][1]
  BY <1>1, <1>2 DEF Located, LastKind
<1>4. PICK k \in Nat : k = n - b
  BY <1>3
<1>5. u = [i \in 1 .. k |-> l[b + i][2]] /\ Len(u) = k
  BY <1>1, <1>2, <1>4 DEF UrlText
<1>6. \A i \in b + 1 .. n : l[i][1] = "url"
  BY <1>1, <1>2 DEF Located, UrlEnds
<1>7. k > 0 => LastKind(l) = "url"
  BY <1>3, <1>4, <1>6
<1> QED BY <1>5, <1>7, <1>4

\* Where nothing is added, nothing changes.
LEMMA SeenNothing ==
    ASSUME NEW l \in Seq(Events), NEW u, Holds(l, u), NEW at \in Int
    PROVE  Seen(stream.syms, u, at, at) = u
<1>1. PICK n \in Nat : n = Len(u) /\ u = [i \in 1 .. n |-> u[i]]
  BY HeldIs
<1>2. n + (at - at) = n
  BY <1>1
<1> QED BY <1>1, <1>2 DEF Seen

LEMMA PieceHeld ==
    ASSUME ParserInv, NEW u, Holds(log, u), LastKind(log) \in UrlKinds, NEW from \in Nat \ {0}, NEW to \in Nat,
           to <= Size, from <= to + 1, NEW w, w = Seen(stream.syms, u, from, to + 1), Len(w) > 0, NEW m, m = log \o Piece("url", from, to)
    PROVE  Holds(m, w)
<1>1. log \in Seq(Events) /\ stream \in Streams
  BY RunFacts
<1>2. CASE from <= to
  <2>1. PICK n \in Nat \ {0} : n = to - from + 1
    BY <1>2
  <2>2. PICK ev : ev = [i \in 1 .. n |-> <<"url", stream.syms[from + i - 1], from + i - 1>>]
    OBVIOUS
  <2>3. ev = Piece("url", from, to)
    BY <1>2, <2>1, <2>2 DEF Piece
  <2>4. ASSUME NEW i \in 1 .. n
        PROVE  ev[i] \in Events /\ ev[i][1] = "url" /\ ev[i][2] = stream.syms[from + i - 1]
    <3>1. PICK j, c : j \in Nat /\ j = from + i - 1 /\ c = stream.syms[from + i - 1]
      BY <2>1
    <3>2. ev[i] = <<"url", c, j>>
      BY <2>2, <3>1
    <3>3. c \in Symbols
      BY <1>1, <1>2, <2>1, <3>1, Stream
    <3>4. <<"url", c, j>> \in DataKinds \X (Symbols \cup {""}) \X Nat
      BY <3>1, <3>3 DEF DataKinds
    <3>5. ev[i] \in Events
      BY <3>2, <3>4 DEF Events
    <3> QED BY <3>1, <3>2, <3>5
  <2>5. ev \in [1 .. n -> Events]
    BY <2>2, <2>4
  <2>6. ev \in Seq(Events) /\ Len(ev) = n
    BY <2>5
  <2>7. UrlBytes(ev, from, n)
    BY <2>4, <2>6 DEF UrlBytes
  <2>8. m = log \o ev
    BY <2>3
  <2>9. from + n = to + 1
    BY <2>1
  <2> QED BY <1>1, <2>7, <2>8, <2>9, HeldGrows
<1>3. CASE ~(from <= to)
  <2>1. from = to + 1 /\ ~(to >= from)
    BY <1>3
  <2>2. w = u
    BY <1>1, <2>1, SeenNothing
  <2>3. LastKind(log) = "url"
    BY <1>1, <2>2, HeldLast
  <2>4. log # <<>> /\ log[Len(log)][1] = "url"
    BY <2>3 DEF LastKind
  <2>5. Piece("url", from, to) = <<>>
    BY <2>1, <2>4 DEF Piece
  <2>6. m = log
    BY <1>1, <2>5
  <2> QED BY <2>2, <2>6
<1> QED BY <1>2, <1>3

-------------------------------------------------------------------------------
(* The invariant: what has been read of the URL is scanned to the state    *)
(* that the parser is in                                                   *)

Connect(p) == p.method = "CONNECT"
Reading(p) == p.state \in UrlStates /\ p.errno \in Resumable

\* u was handed over, the rest of what was read is in the piece.
UrlFits(syms, p, r, u) ==
    LET w == Seen(syms, u, Resumes("url", r), r.at) IN Len(w) > 0 /\ UrlScan(w, Connect(p)).s = p.state
UrlHeld(syms, p, r, l) ==
    \E u : Holds(l, u) /\ UrlScan(u, Connect(p)).s # "s_dead" /\ (Reading(p) => UrlFits(syms, p, r, u))
UrlInv == log # <<>> => UrlHeld(stream.syms, parser, run, log)

LEMMA ConnectIs == ASSUME NEW p PROVE Connect(p) \in BOOLEAN
  BY DEF Connect

LEMMA ConnectSame == ASSUME NEW p, NEW q, p.method = q.method PROVE Connect(p) = Connect(q)
  BY DEF Connect

\* A step that leaves the URL alone.
SameMethod(q) == "method" \in DOMAIN q /\ q.method = parser.method
Aside == parser'.method = parser.method /\ Adds(log, log') /\ ~Reading(parser')

LEMMA AsideStep == ASSUME ParserInv, ParserInv', UrlInv, Aside PROVE UrlInv'
<1>1. PICK l, m \in Seq(Events) : l = log /\ m = log'
  BY DEF ParserInv
<1>2. Adds(l, m) /\ ~Reading(parser') /\ Connect(parser') = Connect(parser)
  BY <1>1, ConnectSame DEF Aside
<1>3. CASE l = <<>>
  <2>1. m # <<>> => m[1] = <<"message_begin">>
    BY <1>1 DEF ParserInv, CallbackOrder
  <2>2. m # <<>> => m[1][1] \notin UrlKinds
    BY <1>2, <1>3 DEF Adds
  <2>3. m = <<>>
    <3>1. PICK x : x = <<"message_begin">>
      OBVIOUS
    <3>2. x[1] = "message_begin"
      BY <3>1
    <3> QED BY <2>1, <2>2, <3>1, <3>2 DEF UrlKinds
  <2> QED BY <1>1, <2>3 DEF UrlInv
<1>4. CASE l # <<>>
  <2>1. PICK u : Holds(l, u) /\ UrlScan(u, Connect(parser)).s # "s_dead"
    BY <1>1, <1>4 DEF UrlInv, UrlHeld
  <2>2. Holds(m, u) /\ UrlScan(u, Connect(parser')).s # "s_dead"
    BY <1>2, <2>1, HeldStays
  <2> QED BY <1>1, <1>2, <2>2 DEF UrlInv, UrlHeld
<1> QED BY <1>3, <1>4

\* A step of the call that hands nothing over, at the same byte of the URL.
LEMMA KeptStep ==
    ASSUME UrlInv, stream' = stream, log' = log, parser'.method = parser.method, parser'.state = parser.state,
           parser'.errno \in Resumable => parser.errno \in Resumable,
           Resumes("url", run') = Resumes("url", run), run'.at = run.at
    PROVE  UrlInv'
<1>1. CASE log = <<>>
  BY <1>1 DEF UrlInv
<1>2. CASE log # <<>>
  <2>1. PICK u : /\ Holds(log, u) /\ UrlScan(u, Connect(parser)).s # "s_dead"
                 /\ Reading(parser) => UrlFits(stream.syms, parser, run, u)
    BY <1>2 DEF UrlInv, UrlHeld
  <2>2. Connect(parser') = Connect(parser) /\ (Reading(parser') => Reading(parser))
    BY ConnectSame DEF Reading
  <2>3. Holds(log', u) /\ UrlScan(u, Connect(parser')).s # "s_dead"
    BY <2>1, <2>2
  <2>4. Reading(parser') => UrlFits(stream'.syms, parser', run', u)
    BY <2>1, <2>2 DEF UrlFits
  <2> QED BY <2>3, <2>4 DEF UrlInv, UrlHeld
<1> QED BY <1>1, <1>2

-------------------------------------------------------------------------------
(* Steps that leave the URL alone                                          *)

NotOfUrl(ev) == \A i \in DOMAIN ev : ev[i][1] \notin UrlKinds

LEMMA AddsEvents ==
    ASSUME NEW T, NEW l \in Seq(T), NEW ev \in Seq(T), NEW m, m = l \o ev, NotOfUrl(ev)
    PROVE  Adds(l, m) /\ (ev = <<>> => LastKind(m) = LastKind(l)) /\ (ev # <<>> => LastKind(m) = ev[Len(ev)][1])
<1>1. PICK n, k \in Nat : n = Len(l) /\ k = Len(ev)
  OBVIOUS
<1>2. m \in Seq(T) /\ Len(m) = Len(l) + Len(ev)
  OBVIOUS
<1>3. Len(m) = n + k
  BY <1>1, <1>2, Zenon
<1>4. \A i \in 1 .. n : m[i] = l[i]
  BY <1>1
<1>5. \A i \in n + 1 .. n + k : m[i] = ev[i - n]
  BY <1>1
<1>6. ASSUME NEW i \in n + 1 .. n + k PROVE m[i][1] \notin UrlKinds
  <2>1. i - n \in DOMAIN ev
    BY <1>1
  <2> QED BY <1>5, <2>1 DEF NotOfUrl
<1>7. Adds(l, m)
  BY <1>1, <1>3, <1>4, <1>6 DEF Adds
<1>8. ev = <<>> => LastKind(m) = LastKind(l)
  BY DEF LastKind
<1>9. ASSUME ev # <<>> PROVE LastKind(m) = ev[Len(ev)][1]
  <2>1. k > 0
    BY <1>1, <1>9
  <2>2. n + k \in n + 1 .. n + k /\ (n + k) - n = k
    BY <2>1
  <2>3. m[n + k] = ev[k]
    BY <1>5, <2>2
  <2>4. m # <<>>
    BY <1>3, <2>1
  <2> QED BY <1>1, <1>3, <2>3, <2>4 DEF LastKind
<1> QED BY <1>7, <1>8, <1>9

\* Nothing is added.
LEMMA AddsNothing == ASSUME NEW l \in Seq(Events) PROVE Adds(l, l)
  BY DEF Adds

LEMMA ParserMethod == ASSUME ParserInv PROVE SameMethod(parser) /\ \A s : SameMethod(To(s)) /\ To(s).state = s
<1>1. Typed(parser)
  BY RunFacts
<1> QED BY <1>1 DEF Typed, FieldNames, SameMethod, To

\* Only in the states of the URL is it marked, and only after it began.
LEMMA NoUrlMark ==
    ASSUME NEW s, NEW r, MarksOK(s, r), r.pc \in {"top", "switch", "scanned"}
    PROVE  /\ s \notin UrlStates => r.mark["url"] = 0
           /\ r.mark["url"] = 0 => s \notin UrlStates
<1>1. PendingOf(r) \ {"body"} = MarkedAtEntry(s) /\ "url" \in DataKinds
  BY DEF MarksOK, DataKinds
<1>2. r.mark["url"] # 0 <=> "url" \in MarkedAtEntry(s)
  BY <1>1 DEF PendingOf
<1>3. s \in UrlStates => "url" \in MarkedAtEntry(s)
  BY UrlString
<1>4. s \notin UrlStates => "url" \notin MarkedAtEntry(s)
  BY DEF MarkedAtEntry
<1> QED BY <1>2, <1>3, <1>4

LEMMA NotReading ==
    ASSUME ParserInv',
           \/ run'.pc \in {"top", "switch", "scanned"} /\ run'.mark["url"] = 0
           \/ run'.pc # "closed" /\ LastKind(log') \notin UrlKinds
           \/ parser'.errno \notin Resumable
           \/ parser'.state \notin UrlStates
    PROVE  ~Reading(parser')
<1>1. CASE run'.pc \in {"top", "switch", "scanned"} /\ run'.mark["url"] = 0
  <2>1. MarksOK(parser'.state, run')
    BY DEF ParserInv, RunOK
  <2> QED BY <1>1, <2>1, NoUrlMark DEF Reading
<1>2. CASE run'.pc # "closed" /\ LastKind(log') \notin UrlKinds
  <2>1. Fits(parser', LastKind(log'))
    BY <1>2 DEF ParserInv
  <2> QED BY <1>2, <2>1 DEF Fits, LineFits, UrlKinds, Reading
<1> QED BY <1>1, <1>2 DEF Reading

LEMMA SetAside ==
    ASSUME ParserInv, ParserInv', NEW q, NEW r, Set(q, r), SameMethod(q),
           \/ r.pc \in {"top", "switch", "scanned"} /\ r.mark["url"] = 0
           \/ q.errno \notin Resumable
           \/ q.state \notin UrlStates
    PROVE  Aside
<1>1. parser' = q /\ run' = r /\ log' = log
  BY DEF Set
<1>2. ~Reading(parser')
  BY <1>1, NotReading
<1>3. Adds(log, log')
  BY <1>1, RunFacts, AddsNothing
<1> QED BY <1>1, <1>2, <1>3 DEF Aside, SameMethod

LEMMA StopAside ==
    ASSUME ParserInv, ParserInv', Refuse \/ (\E e : e \notin Resumable /\ Fail(e)) \/ (\E at : Overflow(at))
    PROVE  Aside
<1>1. Typed(parser)
  BY RunFacts
<1>2. \A e \in ErrorOf : e[2] \notin Resumable
  BY SMTT(30) DEF ErrorOf, Resumable
<1>3. \E e : e \notin Resumable /\ \E n, at : Set([parser EXCEPT !.errno = e, !.nread = n], Idle(at))
  <2>1. "HEADER_OVERFLOW" \notin Resumable
    BY DEF Resumable
  <2> QED BY <1>2, <2>1 DEF Refuse, Fail, Overflow
<1>4. PICK e, n, at : e \notin Resumable /\ Set([parser EXCEPT !.errno = e, !.nread = n], Idle(at))
  BY <1>3
<1>5. PICK q, r : q = [parser EXCEPT !.errno = e, !.nread = n] /\ r = Idle(at)
  OBVIOUS
<1>6. q.errno = e /\ SameMethod(q)
  BY <1>1, <1>5 DEF Typed, FieldNames, SameMethod
<1>7. Set(q, r)
  BY <1>4, <1>5
<1> QED BY <1>4, <1>6, <1>7, SetAside

LEMMA GoAside ==
    ASSUME ParserInv, ParserInv', Here, parser.state \notin UrlStates,
           NEW q, SameMethod(q), Break(q) \/ Reexecute(q) \/ ScanOn(q)
    PROVE  Aside
<1>1. RunTyped(run) /\ run.at \in 1 .. Size /\ Size \in Nat /\ run.mark["url"] = 0
  <2>1. MarksOK(parser.state, run)
    BY RunFacts
  <2> QED BY <2>1, HereFacts, NoUrlMark DEF Here
<1>2. \E r : Set(q, r) /\ r.pc \in {"top", "switch"} /\ r.mark["url"] = 0
  <2>1. PICK a, b, i, c : a = Next1(run) /\ b = Again(run) /\ i = InScan /\ c = [i EXCEPT !.at = @ + 1]
    OBVIOUS
  <2>2. /\ a.pc = "top" /\ a.mark = run.mark
        /\ b.pc = "switch" /\ b.mark = run.mark
    BY <1>1, <2>1, MoveRun
  <2>3. i.pc = run.pc /\ i.mark = run.mark /\ DOMAIN i = DOMAIN run
    <3>1. PICK j : j = [run EXCEPT !.start = run.at]
      OBVIOUS
    <3>2. j.pc = run.pc /\ j.mark = run.mark /\ DOMAIN j = DOMAIN run
      BY <1>1, <3>1 DEF RunTyped
    <3> QED BY <2>1, <3>1, <3>2 DEF InScan
  <2>4. c.pc = "switch" /\ c.mark = run.mark
    BY <1>1, <2>1, <2>3 DEF RunTyped, Here
  <2>5. Set(q, a) \/ Set(q, b) \/ Set(q, c)
    BY <2>1 DEF Break, Reexecute, ScanOn
  <2> QED BY <1>1, <2>2, <2>4, <2>5
<1> QED BY <1>2, SetAside

LEMMA CallAside ==
    ASSUME ParserInv, ParserInv', NEW q, SameMethod(q), NEW r, r.pc # "closed", NEW back, back.pc # "closed",
           NEW T, NEW ev \in Seq(T), NotOfUrl(ev), Call(q, r, ev, back),
           ev # <<>> \/ LastKind(log) \notin UrlKinds
    PROVE  Aside
<1>1. PICK U : U = Events \cup T
  OBVIOUS
<1>2. log \in Seq(U) /\ ev \in Seq(U) /\ log' = log \o ev
  BY <1>1, RunFacts DEF Call
<1>3. Adds(log, log') /\ LastKind(log') \notin UrlKinds
  <2>1. PICK m : m = log \o ev
    OBVIOUS
  <2>2. Adds(log, m) /\ (ev = <<>> => LastKind(m) = LastKind(log)) /\ (ev # <<>> => LastKind(m) = ev[Len(ev)][1])
    BY <1>2, <2>1, AddsEvents
  <2>3. ev # <<>> => Len(ev) \in DOMAIN ev
    OBVIOUS
  <2>4. LastKind(m) \notin UrlKinds
    BY <2>2, <2>3 DEF NotOfUrl
  <2> QED BY <1>2, <2>1, <2>2, <2>4
<1>4. run'.pc # "closed" /\ parser'.method = parser.method
  <2>1. /\ [q EXCEPT !.errno = "CB", !.nread = r.nread].method = q.method
        /\ [q EXCEPT !.errno = "PAUSED"].method = q.method
    BY DEF SameMethod
  <2>2. run' \in {r, back}
    BY DEF Call
  <2>3. parser' \in {q, [q EXCEPT !.errno = "CB", !.nread = r.nread], [q EXCEPT !.errno = "PAUSED"]}
    BY DEF Call
  <2> QED BY <2>1, <2>2, <2>3 DEF SameMethod
<1>5. ~Reading(parser')
  BY <1>3, <1>4, NotReading
<1> QED BY <1>3, <1>4, <1>5 DEF Aside

LEMMA NoticeAside ==
    ASSUME ParserInv, ParserInv', NEW q, SameMethod(q), NEW r, r.pc # "closed", NEW back, back.pc # "closed",
           NEW k, k \notin UrlKinds, Call(q, r, <<<<k>>>>, back)
    PROVE  Aside
<1>1. PICK e : e = <<k>>
  OBVIOUS
<1>2. e[1] = k
  BY <1>1
<1>3. PICK ev : ev = <<e>>
  OBVIOUS
<1>4. ev \in Seq({e}) /\ ev # <<>> /\ \A i \in DOMAIN ev : ev[i] = e
  BY <1>3
<1>5. Call(q, r, ev, back) /\ NotOfUrl(ev)
  BY <1>1, <1>2, <1>3, <1>4 DEF NotOfUrl
<1> QED BY <1>4, <1>5, CallAside

LEMMA PieceAside ==
    ASSUME ParserInv, ParserInv', NEW q, SameMethod(q), NEW k \in DataKinds, k # "url", NEW r, r.pc # "closed",
           NEW from \in Int, NEW to \in Int, NEW back, back.pc # "closed", Call(q, r, Piece(k, from, to), back)
    PROVE  Aside
<1>1. PICK ev : ev = Piece(k, from, to)
  OBVIOUS
<1>2. k \notin UrlKinds
  BY DEF DataKinds, UrlKinds
<1>3. CASE ev = [i \in 1 .. to - from + 1 |-> <<k, stream.syms[from + i - 1], from + i - 1>>] /\ to >= from
  <2>1. PICK n \in Nat \ {0} : n = to - from + 1
    BY <1>3
  <2>2. ASSUME NEW i \in 1 .. n
        PROVE  ev[i][1] = k
    <3>1. PICK c, j : c = stream.syms[from + i - 1] /\ j = from + i - 1
      OBVIOUS
    <3>2. ev[i] = <<k, c, j>>
      BY <1>3, <2>1, <3>1
    <3>3. PICK e : e = <<k, c, j>>
      OBVIOUS
    <3>4. e[1] = k
      BY <3>3
    <3> QED BY <3>2, <3>3, <3>4
  <2>3. PICK T : T = {ev[i] : i \in 1 .. n}
    OBVIOUS
  <2>4. ev \in [1 .. n -> T]
    BY <1>3, <2>1, <2>3
  <2>5. ev \in Seq(T) /\ DOMAIN ev = 1 .. n /\ Len(ev) = n
    BY <2>4
  <2>6. ev # <<>> /\ NotOfUrl(ev)
    BY <1>2, <2>1, <2>2, <2>5 DEF NotOfUrl
  <2> QED BY <1>1, <2>5, <2>6, CallAside
<1>4. CASE ev = <<>> /\ log # <<>> /\ log[Len(log)][1] = k
  <2>1. ev \in Seq({}) /\ NotOfUrl(ev) /\ LastKind(log) \notin UrlKinds
    BY <1>2, <1>4 DEF NotOfUrl, LastKind
  <2> QED BY <1>1, <2>1, CallAside
<1>5. CASE ev = <<<<k, "", from>>>>
  <2>1. PICK e : e = <<k, "", from>>
    OBVIOUS
  <2>2. e[1] = k
    BY <2>1
  <2>3. ev = <<e>>
    BY <1>5, <2>1
  <2>4. ev \in Seq({e}) /\ ev # <<>> /\ \A i \in DOMAIN ev : ev[i] = e
    BY <2>3
  <2>5. NotOfUrl(ev)
    BY <1>2, <2>2, <2>4 DEF NotOfUrl
  <2> QED BY <1>1, <2>4, <2>5, CallAside
<1> QED BY <1>1, <1>3, <1>4, <1>5 DEF Piece

LEMMA DataAside ==
    ASSUME ParserInv, ParserInv', NEW q, SameMethod(q), NEW k \in DataKinds, k # "url", NEW next, RunTyped(next),
           next.pc # "closed", NEW to \in Int, NEW at, Data(k, q, next, to, at),
           run.mark[k] # 0 \/ (next.pc \in {"top", "switch", "scanned"} /\ next.mark["url"] = 0)
    PROVE  Aside
<1>1. run.mark[k] \in Int
  <2>1. RunTyped(run) /\ Size \in Nat
    BY RunFacts
  <2> QED BY <2>1 DEF RunTyped
<1>2. CASE run.mark[k] = 0
  <2>1. Set(q, next)
    BY <1>2 DEF Data
  <2> QED BY <1>2, <2>1, SetAside
<1>3. CASE run.mark[k] # 0
  <2>1. PICK r, back : r = MarkCleared(next, k) /\ back = Idle(at)
    OBVIOUS
  <2>2. r.pc # "closed" /\ back.pc # "closed"
    <3>1. Size \in Nat
      BY RunFacts
    <3> QED BY <2>1, <3>1, ClearedRun DEF Idle
  <2>3. Call(q, r, Piece(k, run.mark[k], to), back)
    BY <1>3, <2>1 DEF Data
  <2> QED BY <1>1, <2>2, <2>3, PieceAside
<1> QED BY <1>2, <1>3

\* At a byte that is not one of the URL.
OffUrl == Here /\ parser.state \notin UrlStates

LEMMA OffFacts ==
    ASSUME ParserInv, OffUrl
    PROVE  /\ RunTyped(run) /\ run.at \in 1 .. Size /\ run.end \in 1 .. Size /\ Size \in Nat
           /\ run.pc = "switch" /\ run.mark["url"] = 0 /\ run.at - 1 \in Int /\ run.at \in Int
<1>1. MarksOK(parser.state, run)
  BY RunFacts
<1>2. run.at \in 1 .. Size /\ run.end \in 1 .. Size /\ Size \in Nat /\ RunTyped(run) /\ run.pc = "switch"
  BY HereFacts DEF OffUrl, Here
<1>3. run.mark["url"] = 0
  BY <1>1, <1>2, NoUrlMark DEF OffUrl
<1> QED BY <1>2, <1>3

LEMMA NextAside ==
    ASSUME ParserInv, OffUrl, NEW r, r \in {Next1(run), Again(run), run}
    PROVE  RunTyped(r) /\ r.pc \in {"top", "switch", "scanned"} /\ r.pc # "closed" /\ r.mark["url"] = 0
  BY OffFacts, MoveRun

LEMMA IdleAside == ASSUME NEW at PROVE Idle(at).pc # "closed"
  BY DEF Idle

LEMMA NotifyAside ==
    ASSUME ParserInv, ParserInv', OffUrl, NEW q, SameMethod(q), NEW k, k \notin UrlKinds, Notify(k, q, run) \/ NotifyAgain(k, q)
    PROVE  Aside
<1>1. PICK r, back : r \in {Next1(run), Again(run)} /\ back \in {Idle(run.at), Idle(run.at + 1)} /\ Call(q, r, <<<<k>>>>, back)
  BY DEF Notify, NotifyAgain
<1>2. r.pc # "closed" /\ back.pc # "closed"
  BY <1>1, NextAside, IdleAside
<1> QED BY <1>1, <1>2, NoticeAside

LEMMA CallbackDataAside ==
    ASSUME ParserInv, ParserInv', OffUrl, NEW q, SameMethod(q), NEW k \in DataKinds, k # "url", CallbackData(k, q)
    PROVE  Aside
<1>1. PICK n, at : n = Next1(run) /\ at = run.at + 1
  OBVIOUS
<1>2. Data(k, q, n, run.at - 1, at)
  BY <1>1 DEF CallbackData
<1>3. RunTyped(n) /\ n.pc # "closed" /\ n.pc \in {"top", "switch", "scanned"} /\ n.mark["url"] = 0
  BY <1>1, NextAside
<1> QED BY <1>2, <1>3, OffFacts, DataAside

LEMMA InOff == ASSUME NEW states, In(states), \A s \in states : s \notin UrlStates PROVE OffUrl
  BY InHere DEF OffUrl

LEMMA OffGo == ASSUME ParserInv, ParserInv', OffUrl, NEW q, SameMethod(q), Break(q) \/ Reexecute(q) \/ ScanOn(q) PROVE Aside
  BY GoAside DEF OffUrl

LEMMA MoveAside == ASSUME ParserInv, ParserInv', Move \/ MoveRefused PROVE Aside
<1>1. CASE Move
  <2>1. PICK m \in Moves : parser.state \in m[1] /\ Break(To(m[3]))
    BY <1>1 DEF Move
  <2>2. In({parser.state})
    BY <1>1 DEF Move
  <2>3. PICK q : q = To(m[3])
    OBVIOUS
  <2>4. parser.state \notin UrlStates
    <3>1. PICK class \in {StartStates, LineStates, VersionStates, FieldStates, DiscardStates, ValueEndStates, SizeStates,
                          VersionStates \cup {"s_res_line_almost_done"}} : m[1] \subseteq class
      BY MoveGroups DEF Stays, Ends, Within
    <3>2. parser.state \in StartStates \cup LineStates \cup VersionStates \cup FieldStates \cup DiscardStates
                           \cup ValueEndStates \cup SizeStates \cup {"s_res_line_almost_done"}
      BY <2>1, <3>1
    <3>3. parser.state \in Quiet \/ parser.state \in SizeStates
      BY <3>2 DEF Quiet
    <3>4. parser.state \in Quiet => parser.state \notin UrlStates
      BY QuietIs, UrlString DEF DataKinds
    <3>5. parser.state \in SizeStates => parser.state \notin UrlStates
      BY DEF SizeStates, UrlStates, UrlServer, UrlTail
    <3> QED BY <3>3, <3>4, <3>5
  <2>5. OffUrl
    BY <2>2, <2>4, InHere DEF OffUrl
  <2> QED BY <2>1, <2>3, <2>5, ParserMethod, OffGo
<1>2. CASE MoveRefused
  BY <1>2, StopAside DEF MoveRefused
<1> QED BY <1>1, <1>2

LEMMA ScanEndsAside == ASSUME ParserInv, ParserInv', ScanEnds PROVE Aside
<1>1. parser.state \in {"s_header_field", "s_header_value", "s_header_almost_done"}
  BY RunFacts DEF ScanEnds, MarksOK
<1>2. parser.state \notin UrlStates
  BY <1>1 DEF UrlStates, UrlServer, UrlTail
<1>3. (\E at : Overflow(at)) \/ (\E r : Set(parser, r))
  BY DEF ScanEnds
<1> QED BY <1>2, <1>3, ParserMethod, StopAside, SetAside

\* The first line, but for where it begins and its URL.
LEMMA LineAside ==
    ASSUME ParserInv, ParserInv', ReqMethod \/ ReqIce \/ ReqVersion \/ ResVersion \/ FirstStatusCode \/ StatusCode
    PROVE  Aside
<1>1. OffUrl
  <2>1. In({"s_req_method", "s_req_http_start", "s_req_http_major", "s_res_http_major", "s_res_first_status_code",
            "s_res_status_code"})
    BY DEF In, ReqMethod, ReqIce, ReqVersion, ResVersion, FirstStatusCode, StatusCode
  <2>2. \A s \in {"s_req_method", "s_req_http_start", "s_req_http_major", "s_res_http_major", "s_res_first_status_code",
                  "s_res_status_code"} : s \notin UrlStates
    BY DEF UrlStates, UrlServer, UrlTail
  <2> QED BY <2>1, <2>2, InOff
<1>2. Typed(parser)
  BY RunFacts
<1>3. \A v, s : SameMethod([parser EXCEPT !.version = v, !.state = s])
  BY <1>2 DEF Typed, FieldNames, SameMethod
<1>4. \A n, s : SameMethod([parser EXCEPT !.status_code = n, !.state = s]) /\ SameMethod([parser EXCEPT !.status_code = n])
  BY <1>2 DEF Typed, FieldNames, SameMethod
<1>5. SameMethod([parser EXCEPT !.index = 2])
  BY <1>2 DEF Typed, FieldNames, SameMethod
<1>6. Refuse \/ \E q : SameMethod(q) /\ (Break(q) \/ Reexecute(q))
  <2>1. CASE ReqMethod
    BY <2>1, <1>5, ParserMethod DEF ReqMethod
  <2>2. CASE ReqIce
    BY <2>2, ParserMethod DEF ReqIce
  <2>3. CASE ReqVersion
    BY <2>3, <1>3 DEF ReqVersion
  <2>4. CASE ResVersion
    BY <2>4, <1>3 DEF ResVersion
  <2>5. CASE FirstStatusCode
    BY <2>5, <1>4 DEF FirstStatusCode
  <2>6. CASE StatusCode
    <3>1. PICK n : n = parser.status_code * 10 + DecimalDigit(ch)
      OBVIOUS
    <3>2. Reexecute(To("s_res_status_start")) \/ Break([parser EXCEPT !.status_code = n]) \/ Refuse
      BY <2>6, <3>1 DEF StatusCode
    <3> QED BY <1>4, <3>2, ParserMethod
  <2> QED BY <2>1, <2>2, <2>3, <2>4, <2>5, <2>6
<1> QED BY <1>1, <1>6, StopAside, OffGo

LEMMA StatusAside == ASSUME ParserInv, ParserInv', StatusStart \/ Status PROVE Aside
<1>1. OffUrl
  <2>1. In({"s_res_status_start", "s_res_status"})
    BY DEF In, StatusStart, Status
  <2>2. \A s \in {"s_res_status_start", "s_res_status"} : s \notin UrlStates
    BY DEF UrlStates, UrlServer, UrlTail
  <2> QED BY <2>1, <2>2, InOff
<1>2. CASE StatusStart
  <2>1. PICK q : q = To("s_res_status") /\ \E r : Set(q, r)
    BY <1>2 DEF StatusStart
  <2>2. q.state \notin UrlStates
    BY <2>1, ParserMethod DEF UrlStates, UrlServer, UrlTail
  <2> QED BY <2>1, <2>2, ParserMethod, SetAside
<1>3. CASE Status
  <2>1. PICK t, u : t = To("s_res_line_almost_done") /\ u = To("s_header_field_start")
    OBVIOUS
  <2>2. "status" \in DataKinds /\ "status" # "url" /\ SameMethod(t) /\ SameMethod(u)
    BY <2>1, ParserMethod DEF DataKinds
  <2>3. CallbackData("status", t) \/ CallbackData("status", u) \/ Break(parser)
    BY <1>3, <2>1 DEF Status
  <2> QED BY <1>1, <2>2, <2>3, ParserMethod, CallbackDataAside, OffGo
<1> QED BY <1>2, <1>3

\* The headers.
HeadStates ==
    {"s_header_field_start", "s_header_field", "s_header_value_start", "s_header_value_discard_ws", "s_header_value",
     "s_header_value_lws", "s_header_value_discard_lws", "s_headers_almost_done", "s_headers_done"}

LEMMA HeadOff == ASSUME NEW states \in SUBSET HeadStates, In(states) PROVE OffUrl
<1>1. \A s \in HeadStates : s \notin UrlStates
  BY DEF HeadStates, UrlStates, UrlServer, UrlTail
<1> QED BY <1>1, InOff

LEMMA StateAside ==
    ASSUME ParserInv, ParserInv', NEW q, NEW r, Set(q, r), SameMethod(q),
           q.state \in {"s_header_field", "s_header_value", "s_chunk_size_start", "s_chunk_data", "s_chunk_data_almost_done",
                        "s_body_identity", "s_body_identity_eof"}
    PROVE  Aside
<1>1. q.state \notin UrlStates
  BY DEF UrlStates, UrlServer, UrlTail
<1> QED BY <1>1, SetAside

LEMMA FailAside == ASSUME ParserInv, ParserInv', NEW e, Fail(e), e \notin Resumable PROVE Aside
  BY StopAside

LEMMA HeaderStartAside == ASSUME ParserInv, ParserInv', HeaderFieldStart \/ HeaderValueStart PROVE Aside
<1>1. Typed(parser)
  BY RunFacts
<1>2. OffUrl
  BY HeadOff DEF HeadStates, HeaderFieldStart, HeaderValueStart
<1>3. CASE HeaderFieldStart
  <2>1. PICK p, q, h : p = EndOfHeaders(parser) /\ h = Lookup(FirstLetterRules, "s_header_field", ch, "h_general")
                       /\ q = [parser EXCEPT !.state = "s_header_field", !.header_state = h]
    OBVIOUS
  <2>2. SameMethod(p) /\ SameMethod(q) /\ q.state = "s_header_field"
    BY <1>1, <2>1 DEF Typed, FieldNames, SameMethod, EndOfHeaders
  <2>3. Reexecute(p) \/ (\E r : Set(q, r)) \/ Refuse
    BY <1>3, <2>1 DEF HeaderFieldStart
  <2> QED BY <1>2, <2>2, <2>3, OffGo, StateAside, StopAside
<1>4. CASE HeaderValueStart
  <2>1. PICK p, d : p = [parser EXCEPT !.flags = @ \cup {"F_CONTENTLENGTH"},
                             !.content_length = d, !.header_state = "h_content_length_num"] /\ d = DecimalDigit(ch)
    OBVIOUS
  <2>2. PICK q, h, f : q = [parser EXCEPT !.header_state = h, !.flags = @ \cup f]
                       /\ h = Lookup(ValueFirstRules, parser.header_state, ch, "h_general")
                       /\ f = IF parser.header_state = "h_upgrade" THEN {"F_UPGRADE"} ELSE {}
    OBVIOUS
  <2>3. PICK pv, qv : pv = [p EXCEPT !.state = "s_header_value"] /\ qv = [q EXCEPT !.state = "s_header_value"]
    OBVIOUS
  <2>4. DOMAIN p = FieldNames /\ DOMAIN q = FieldNames /\ p.method = parser.method /\ q.method = parser.method
    BY <1>1, <2>1, <2>2 DEF Typed, FieldNames
  <2>5. SameMethod(pv) /\ SameMethod(qv) /\ pv.state = "s_header_value" /\ qv.state = "s_header_value"
    BY <2>3, <2>4 DEF FieldNames, SameMethod
  <2>6. \/ Fail("INVALID_CONTENT_LENGTH") \/ Fail("UNEXPECTED_CONTENT_LENGTH")
        \/ \E r : Set(pv, r) \/ Set(qv, r)
    BY <1>4, <2>1, <2>2, <2>3 DEF HeaderValueStart
  <2>7. "INVALID_CONTENT_LENGTH" \notin Resumable /\ "UNEXPECTED_CONTENT_LENGTH" \notin Resumable
    BY DEF Resumable
  <2> QED BY <2>5, <2>6, <2>7, FailAside, StateAside
<1> QED BY <1>3, <1>4

LEMMA ScanOnAside == ASSUME ParserInv, ParserInv', OffUrl, NEW q, SameMethod(q), ScanOn(q) PROVE Aside
  BY OffGo

LEMMA HeaderFieldAside == ASSUME ParserInv, ParserInv', HeaderField PROVE Aside
<1>1. OffUrl /\ Here /\ parser.state = "s_header_field"
  BY HeadOff, InHere DEF HeadStates, HeaderField
<1>2. Typed(parser)
  BY RunFacts
<1>3. PICK h, f : h = Lookup(NameRules, parser.header_state, ch, "h_general")
                  /\ f = IF h = "h_transfer_encoding" THEN {"F_TRANSFER_ENCODING"} ELSE {}
  OBVIOUS
<1>4. PICK q : q = [parser EXCEPT !.header_state = h, !.flags = @ \cup f]
  OBVIOUS
<1>5. PICK t, s, n, at : t = To("s_header_value_discard_ws") /\ s = Scanned(run.at) /\ n = Next1(s) /\ at = run.at + 1
  OBVIOUS
<1>6. SameMethod(q) /\ SameMethod(t) /\ "header_field" \in DataKinds /\ "header_field" # "url"
  BY <1>2, <1>4, <1>5, ParserMethod DEF Typed, FieldNames, SameMethod, DataKinds
<1>7. RunTyped(n) /\ n.pc = "top" /\ n.mark = run.mark /\ run.at - 1 \in Int /\ run.mark["url"] = 0
  <2>1. RunTyped(s) /\ s.at \in 1 .. Size /\ s.mark = run.mark /\ Size \in Nat
    BY <1>1, <1>5, ScannedHere, HereFacts
  <2> QED BY <1>1, <1>5, <2>1, MoveRun, OffFacts
<1>8. \/ ScanOn(q)
      \/ Overflow(run.at)
      \/ Data("header_field", t, n, run.at - 1, at)
      \/ Refuse
  <2>1. CASE ch \in Token
    BY <1>3, <1>4, <2>1 DEF HeaderField
  <2>2. CASE ch \notin Token
    <3>1. ScanCount(run.at) \in Nat /\ MaxHeaderSize \in Nat
      BY <1>1, ScannedHere, ParserAssumption
    <3>2. CASE ScanCount(run.at) > MaxHeaderSize
      <4>1. ~(ScanCount(run.at) <= MaxHeaderSize)
        BY <3>1, <3>2
      <4> QED BY <2>2, <3>2, <4>1 DEF HeaderField
    <3>3. CASE ScanCount(run.at) <= MaxHeaderSize
      <4>1. ~(ScanCount(run.at) > MaxHeaderSize)
        BY <3>1, <3>3
      <4> QED BY <1>5, <2>2, <3>3, <4>1 DEF HeaderField
    <3> QED BY <3>1, <3>2, <3>3
  <2> QED BY <2>1, <2>2
<1>9. Data("header_field", t, n, run.at - 1, at) => Aside
  BY <1>6, <1>7, DataAside
<1> QED BY <1>1, <1>6, <1>8, <1>9, ScanOnAside, StopAside

LEMMA HeaderValueAside == ASSUME ParserInv, ParserInv', HeaderValue PROVE Aside
<1>1. OffUrl /\ Here /\ parser.state = "s_header_value"
  BY HeadOff, InHere DEF HeadStates, HeaderValue
<1>2. Typed(parser)
  BY RunFacts
<1>3. PICK t, s, m, n, at : /\ t = To("s_header_almost_done") /\ s = Scanned(run.at) /\ n = Again(s) /\ at = run.at + 1
                            /\ m = [InScan EXCEPT !.pc = "scanned"]
  OBVIOUS
<1>4. SameMethod(t) /\ "header_value" \in DataKinds /\ "header_value" # "url"
  BY <1>3, ParserMethod DEF DataKinds
<1>5. run.mark["header_value"] # 0
  <2>0. parser.state \notin UrlStates
    BY <1>1 DEF OffUrl
  <2>1. MarkedAtEntry(parser.state) = {"header_value"}
    BY <1>1, <2>0 DEF MarkedAtEntry
  <2>2. PendingOf(run) \ {"body"} = {"header_value"}
    BY <1>1, <2>1, HereFacts
  <2>3. "header_value" \in PendingOf(run)
    BY <2>2
  <2> QED BY <2>3 DEF PendingOf
<1>6. RunTyped(n) /\ n.pc # "closed" /\ RunTyped(m) /\ m.pc # "closed" /\ run.at - 1 \in Int
  <2>1. RunTyped(s) /\ s.at \in 1 .. Size /\ Size \in Nat
    BY <1>1, <1>3, ScannedHere, HereFacts
  <2>2. RunTyped(n) /\ n.pc # "closed"
    BY <1>3, <2>1, MoveRun
  <2>3. RunTyped(m) /\ m.pc = "scanned"
    <3>1. RunTyped(InScan)
      <4>1. PICK j : j = [run EXCEPT !.start = run.at]
        OBVIOUS
      <4>2. RunTyped(j) /\ RunTyped(run)
        BY <1>1, <4>1, OffFacts DEF RunTyped
      <4> QED BY <4>1, <4>2 DEF InScan
    <3>2. PICK i : i = InScan
      OBVIOUS
    <3> QED BY <1>3, <3>1, <3>2 DEF RunTyped, Places
  <2> QED BY <1>1, <2>2, <2>3, OffFacts
<1>7. PICK h, g : h = Lookup(TransferRules \cup ConnectionRules, parser.header_state, ch, "h_general")
                  /\ g = IF ch = "," THEN ConnectionFlag(parser.header_state) ELSE {}
  OBVIOUS
<1>8. PICK q, u, v : /\ q = [parser EXCEPT !.header_state = h, !.flags = @ \cup g]
                     /\ u = [parser EXCEPT !.header_state = "h_content_length_ws"]
                     /\ v = [parser EXCEPT !.content_length = Widen(10, DecimalDigit(ch))]
  OBVIOUS
<1>9. SameMethod(q) /\ SameMethod(u) /\ SameMethod(v)
  BY <1>2, <1>8 DEF Typed, FieldNames, SameMethod
<1>10. "INVALID_HEADER_TOKEN" \notin Resumable /\ "INVALID_CONTENT_LENGTH" \notin Resumable
  BY DEF Resumable
<1>11. \/ Data("header_value", t, m, run.at - 1, at)
       \/ Overflow(run.at)
       \/ Data("header_value", t, n, run.at - 1, run.at)
       \/ Fail("INVALID_HEADER_TOKEN")
       \/ ContentLengthByte
       \/ ScanOn(q)
  BY <1>3, <1>7, <1>8 DEF HeaderValue
<1>12. ContentLengthByte => ScanOn(u) \/ ScanOn(v) \/ Fail("INVALID_CONTENT_LENGTH")
  BY <1>8 DEF ContentLengthByte
<1>13. Data("header_value", t, m, run.at - 1, at) \/ Data("header_value", t, n, run.at - 1, run.at) => Aside
  BY <1>4, <1>5, <1>6, DataAside
<1> QED BY <1>1, <1>9, <1>10, <1>11, <1>12, <1>13, ScanOnAside, FailAside, StopAside

LEMMA FoldAside == ASSUME ParserInv, ParserInv', HeaderValueLws \/ HeaderValueDiscardLws PROVE Aside
<1>1. OffUrl
  BY HeadOff DEF HeadStates, HeaderValueLws, HeaderValueDiscardLws
<1>2. Typed(parser)
  BY RunFacts
<1>3. PICK f, h : /\ f = ValueFlags(parser.header_state)
                  /\ h = IF parser.header_state = "h_content_length_num" THEN "h_content_length_ws" ELSE parser.header_state
  OBVIOUS
<1>4. PICK q, v : /\ q = [parser EXCEPT !.state = "s_header_field_start", !.flags = @ \cup f]
                  /\ v = [parser EXCEPT !.state = "s_header_value_start", !.header_state = h]
  OBVIOUS
<1>5. SameMethod(q) /\ SameMethod(v)
  BY <1>2, <1>4 DEF Typed, FieldNames, SameMethod
<1>6. CASE HeaderValueLws
  <2>1. Reexecute(v) \/ Reexecute(q)
    BY <1>3, <1>4, <1>6 DEF HeaderValueLws
  <2> QED BY <1>1, <1>5, <2>1, OffGo
<1>7. CASE HeaderValueDiscardLws
  <2>1. PICK r, back : r = Again(run) /\ back = Idle(run.at)
    OBVIOUS
  <2>2. r.pc # "closed" /\ back.pc # "closed" /\ run.at \in Int /\ run.at - 1 \in Int
    BY <1>1, <2>1, NextAside, IdleAside, OffFacts
  <2>3. "header_value" \in DataKinds /\ "header_value" # "url" /\ "INVALID_CONTENT_LENGTH" \notin Resumable
    BY DEF DataKinds, Resumable
  <2>4. Fail("INVALID_CONTENT_LENGTH") \/ Call(q, r, Piece("header_value", run.at, run.at - 1), back)
    BY <1>3, <1>4, <1>7, <2>1 DEF HeaderValueDiscardLws
  <2> QED BY <1>5, <2>2, <2>3, <2>4, PieceAside, FailAside
<1> QED BY <1>6, <1>7

LEMMA HeadEndAside == ASSUME ParserInv, ParserInv', HeadersAlmostDone PROVE Aside
<1>1. OffUrl
  BY HeadOff DEF HeadStates, HeadersAlmostDone
<1>2. Typed(parser)
  BY RunFacts
<1>3. PICK f, u : f = (IF stream.skip > 0 THEN {"F_SKIPBODY"} ELSE {}) /\ u = (UpgradeOf(parser) \/ stream.skip = 2)
  OBVIOUS
<1>4. PICK q, t : /\ q = [parser EXCEPT !.state = "s_headers_done", !.nread = run.nread, !.upgrade = u, !.flags = @ \cup f]
                  /\ t = To("s_message_done")
  OBVIOUS
<1>5. SameMethod(q) /\ SameMethod(t)
  BY <1>2, <1>4, ParserMethod DEF Typed, FieldNames, SameMethod
<1>6. Refuse \/ Fail("UNEXPECTED_CONTENT_LENGTH") \/ NotifyAgain("chunk_complete", t) \/ NotifyAgain("headers_complete", q)
  BY <1>3, <1>4 DEF HeadersAlmostDone
<1>7. "chunk_complete" \notin UrlKinds /\ "headers_complete" \notin UrlKinds /\ "UNEXPECTED_CONTENT_LENGTH" \notin Resumable
  BY DEF UrlKinds, Resumable
<1> QED BY <1>1, <1>5, <1>6, <1>7, NotifyAside, FailAside, StopAside

LEMMA EndMessageAside ==
    ASSUME ParserInv, ParserInv', NEW p, SameMethod(p), NEW r, RunTyped(r), r.at \in 1 .. Size, EndMessage(p, r)
    PROVE  Aside
<1>1. PICK s : s = IF ~http_should_keep_alive(p) THEN "s_dead"
                   ELSE IF p.type = "REQUEST" THEN "s_start_req" ELSE "s_start_res"
  OBVIOUS
<1>2. PICK t : t = [p EXCEPT !.state = s]
  OBVIOUS
<1>3. t = NewMessage(p) /\ SameMethod(t)
  BY <1>1, <1>2 DEF NewMessage, SameMethod
<1>4. PICK m : m = IF p.upgrade THEN r.nread ELSE t.nread
  OBVIOUS
<1>5. PICK q : q = [t EXCEPT !.nread = m]
  OBVIOUS
<1>6. SameMethod(q)
  BY <1>3, <1>5 DEF SameMethod
<1>7. PICK n, back : n = (IF p.upgrade THEN Idle(run.at + 1) ELSE Next1(r)) /\ back = Idle(run.at + 1)
  OBVIOUS
<1>8. n.pc # "closed" /\ back.pc # "closed"
  <2>1. Size \in Nat
    BY RunFacts
  <2>2. \A x : x = Next1(r) => x.pc = "top"
    BY <2>1, MoveRun
  <2> QED BY <1>7, <2>2, IdleAside
<1>9. Call(q, n, <<<<"message_complete">>>>, back)
  BY <1>3, <1>4, <1>5, <1>7 DEF EndMessage
<1>10. "message_complete" \notin UrlKinds
  BY DEF UrlKinds
<1> QED BY <1>6, <1>8, <1>9, <1>10, NoticeAside

LEMMA HeadersDoneAside == ASSUME ParserInv, ParserInv', HeadersDone PROVE Aside
<1>1. OffUrl
  BY HeadOff DEF HeadStates, HeadersDone
<1>2. Typed(parser)
  BY RunFacts
<1>3. PICK q, r, e : /\ q = [parser EXCEPT !.nread = 0] /\ r = [run EXCEPT !.nread = 0]
                     /\ e = [q EXCEPT !.errno = "INVALID_TRANSFER_ENCODING"]
  OBVIOUS
<1>4. DOMAIN q = FieldNames /\ SameMethod(q) /\ SameMethod(e) /\ e.errno = "INVALID_TRANSFER_ENCODING"
  BY <1>2, <1>3 DEF Typed, FieldNames, SameMethod
<1>5. RunTyped(r) /\ r.at \in 1 .. Size
  BY <1>1, <1>3, OffFacts DEF RunTyped
<1>6. PICK bc, be, bi : /\ bc = [q EXCEPT !.state = "s_chunk_size_start"] /\ be = [q EXCEPT !.state = "s_body_identity_eof"]
                        /\ bi = [q EXCEPT !.state = "s_body_identity"]
  OBVIOUS
<1>7. /\ SameMethod(bc) /\ SameMethod(be) /\ SameMethod(bi)
      /\ bc.state = "s_chunk_size_start" /\ be.state = "s_body_identity_eof" /\ bi.state = "s_body_identity"
  BY <1>4, <1>6 DEF FieldNames, SameMethod
<1>8. EndMessage(q, r) \/ (\E n : Set(bc, n) \/ Set(be, n) \/ Set(bi, n) \/ Set(e, n))
  BY <1>3, <1>6 DEF HeadersDone
<1>9. e.errno \notin Resumable
  BY <1>4 DEF Resumable
<1> QED BY <1>4, <1>5, <1>7, <1>8, <1>9, EndMessageAside, StateAside, SetAside

LEMMA HeadersAside == ASSUME ParserInv, ParserInv', Headers PROVE Aside
  BY HeaderStartAside, HeaderFieldAside, HeaderValueAside, FoldAside, HeadEndAside, HeadersDoneAside DEF Headers

\* The body.
LEMMA BodyOff == ASSUME Body PROVE OffUrl
<1> DEFINE states == {"s_body_identity", "s_body_identity_eof", "s_message_done", "s_chunk_size_start", "s_chunk_size",
                      "s_chunk_size_almost_done", "s_chunk_data", "s_chunk_data_almost_done", "s_chunk_data_done"}
<1>1. In(states)
  BY DEF In, Body, BodyIdentity, BodyIdentityEof, MessageDone, ChunkSizeStart, ChunkSize, ChunkSizeAlmostDone, ChunkData,
         ChunkDataAlmostDone, ChunkDataDone
<1>2. \A s \in states : s \notin UrlStates
  BY DEF UrlStates, UrlServer, UrlTail
<1> QED BY <1>1, <1>2, InOff

LEMMA IdentityAside == ASSUME ParserInv, ParserInv', BodyIdentity PROVE Aside
<1>1. Here /\ parser.state = "s_body_identity" /\ Typed(parser)
  BY InHere, RunFacts DEF BodyIdentity
<1>2. parser.content_length \in 1 .. ULLONG_MAX - 1 /\ ULLONG_MAX \in Nat
  BY <1>1, HereFacts, ParserAssumption DEF ParserOK, Sound, Asserted
<1>3. PICK last \in run.at .. run.end : last = LastRead
  BY <1>1, <1>2, ToReadFacts
<1>4. PICK p : p = [MarkAt(run, "body") EXCEPT !.at = last]
  OBVIOUS
<1>5. RunTyped(p) /\ p.mark["body"] \in Int /\ last \in Int /\ p.at \in 1 .. Size /\ Size \in Nat
  <2>1. run.at \in 1 .. Size /\ run.end \in 1 .. Size /\ Size \in Nat
    BY <1>1, HereFacts
  <2>2. RunTyped(p) /\ p.mark["body"] \in 1 .. Size /\ p.at = last /\ last \in 1 .. Size
    BY <1>1, <1>4, BodyRun
  <2>3. p.mark["body"] \in Int
    BY <2>1, <2>2
  <2>4. last \in Int
    BY <2>1
  <2> QED BY <2>1, <2>2, <2>3, <2>4
<1>6. PICK c, q : c = parser.content_length - ToRead /\ q = [parser EXCEPT !.content_length = c]
  OBVIOUS
<1>7. PICK t : t = [q EXCEPT !.state = "s_message_done"]
  OBVIOUS
<1>8. SameMethod(t) /\ SameMethod(q) /\ q.state = "s_body_identity" /\ "body" \in DataKinds /\ "body" # "url"
  BY <1>1, <1>6, <1>7 DEF Typed, FieldNames, SameMethod, DataKinds
<1>9. PICK g, n, back : g = Again(p) /\ n = MarkCleared(g, "body") /\ back = Idle(last)
  OBVIOUS
<1>10. n.pc # "closed" /\ back.pc # "closed"
  <2>1. RunTyped(g) /\ g.pc = "switch"
    BY <1>5, <1>9, MoveRun
  <2>2. n.pc = "switch"
    BY <1>5, <1>8, <1>9, <2>1, ClearedRun
  <2> QED BY <1>9, <2>2, IdleAside
<1>11. Set(q, Next1(p)) \/ Call(t, n, Piece("body", p.mark["body"], last), back)
  BY <1>3, <1>4, <1>6, <1>7, <1>9 DEF BodyIdentity
<1> QED BY <1>5, <1>8, <1>10, <1>11, PieceAside, StateAside

LEMMA NotifyResetAside ==
    ASSUME ParserInv, ParserInv', OffUrl, NEW q, SameMethod(q), NEW k, k \notin UrlKinds, NEW n, n = NreadReset(run.nread),
           NEW r, r = [run EXCEPT !.nread = n], Notify(k, q, r)
    PROVE  Aside
<1>1. PICK m, back : m = Next1(r) /\ back = Idle(run.at + 1)
  OBVIOUS
<1>2. RunTyped(r) /\ r.at \in 1 .. Size /\ Size \in Nat
  BY OffFacts DEF RunTyped, NreadReset
<1>3. m.pc # "closed" /\ back.pc # "closed"
  BY <1>1, <1>2, MoveRun, IdleAside
<1>4. Call(q, m, <<<<k>>>>, back)
  BY <1>1 DEF Notify
<1> QED BY <1>3, <1>4, NoticeAside

LEMMA ChunkAside == ASSUME ParserInv, ParserInv', ChunkSizeStart \/ ChunkSize \/ ChunkSizeAlmostDone PROVE Aside
<1>1. OffUrl /\ Typed(parser)
  BY BodyOff, RunFacts DEF Body
<1>2. CASE ChunkSizeStart
  <2>1. PICK d, q : d = HexDigit(ch) /\ q = [parser EXCEPT !.content_length = d, !.state = "s_chunk_size"]
    OBVIOUS
  <2>2. SameMethod(q)
    BY <1>1, <2>1 DEF Typed, FieldNames, SameMethod
  <2>3. Break(q) \/ Refuse
    BY <1>2, <2>1 DEF ChunkSizeStart
  <2> QED BY <1>1, <2>2, <2>3, OffGo, StopAside
<1>3. CASE ChunkSize
  <2>1. PICK w, q : w = Widen(16, HexDigit(ch)) /\ q = [parser EXCEPT !.content_length = w]
    OBVIOUS
  <2>2. SameMethod(q) /\ "INVALID_CONTENT_LENGTH" \notin Resumable
    BY <1>1, <2>1 DEF Typed, FieldNames, SameMethod, Resumable
  <2>3. Refuse \/ Fail("INVALID_CONTENT_LENGTH") \/ Break(q)
    BY <1>3, <2>1 DEF ChunkSize
  <2> QED BY <1>1, <2>2, <2>3, OffGo, StopAside, FailAside
<1>4. CASE ChunkSizeAlmostDone
  <2>1. PICK q, u, n, r :
          /\ q = [parser EXCEPT !.nread = 0, !.flags = @ \cup {"F_TRAILING"}, !.state = "s_header_field_start"]
          /\ u = [parser EXCEPT !.nread = 0, !.state = "s_chunk_data"]
          /\ n = NreadReset(run.nread) /\ r = [run EXCEPT !.nread = n]
    OBVIOUS
  <2>2. SameMethod(q) /\ SameMethod(u) /\ "chunk_header" \notin UrlKinds
    BY <1>1, <2>1 DEF Typed, FieldNames, SameMethod, UrlKinds
  <2>3. Refuse \/ Notify("chunk_header", q, r) \/ Notify("chunk_header", u, r)
    BY <1>4, <2>1 DEF ChunkSizeAlmostDone
  <2>4. Notify("chunk_header", q, r) \/ Notify("chunk_header", u, r) => Aside
    BY <1>1, <2>1, <2>2, NotifyResetAside
  <2> QED BY <2>3, <2>4, StopAside
<1> QED BY <1>2, <1>3, <1>4

LEMMA DataBodyAside == ASSUME ParserInv, ParserInv', BodyIdentityEof \/ ChunkData \/ MessageDone PROVE Aside
<1>1. OffUrl /\ Typed(parser)
  BY BodyOff, RunFacts DEF Body
<1>2. CASE BodyIdentityEof
  <2>1. parser.state = "s_body_identity_eof" /\ \E r : Set(parser, r)
    BY <1>2, InHere DEF BodyIdentityEof
  <2> QED BY <2>1, ParserMethod, StateAside
<1>3. CASE ChunkData
  <2>1. parser.state = "s_chunk_data"
    BY <1>3, InHere DEF ChunkData
  <2>2. PICK c, s : /\ c = parser.content_length - ToRead
                    /\ s = IF parser.content_length = ToRead THEN "s_chunk_data_almost_done" ELSE parser.state
    OBVIOUS
  <2>3. PICK q : q = [parser EXCEPT !.content_length = c, !.state = s]
    OBVIOUS
  <2>4. SameMethod(q) /\ q.state \in {"s_chunk_data", "s_chunk_data_almost_done"}
    BY <1>1, <2>1, <2>2, <2>3 DEF Typed, FieldNames, SameMethod
  <2>5. \E r : Set(q, r)
    BY <1>3, <2>2, <2>3 DEF ChunkData
  <2> QED BY <2>4, <2>5, StateAside
<1>4. CASE MessageDone
  <2>1. EndMessage(parser, run)
    BY <1>4 DEF MessageDone
  <2> QED BY <1>1, <2>1, ParserMethod, OffFacts, EndMessageAside
<1> QED BY <1>2, <1>3, <1>4

LEMMA BodyAside == ASSUME ParserInv, ParserInv', Body PROVE Aside
<1>1. OffUrl /\ Typed(parser)
  BY BodyOff, RunFacts
<1>2. CASE ChunkDataAlmostDone
  <2>1. PICK t : t = To("s_chunk_data_done")
    OBVIOUS
  <2>2. SameMethod(t) /\ "body" \in DataKinds /\ "body" # "url"
    BY <2>1, ParserMethod DEF DataKinds
  <2>3. Refuse \/ CallbackData("body", t)
    BY <1>2, <2>1 DEF ChunkDataAlmostDone
  <2> QED BY <1>1, <2>2, <2>3, CallbackDataAside, StopAside
<1>3. CASE ChunkDataDone
  <2>1. PICK q, n, r : /\ q = [parser EXCEPT !.nread = 0, !.state = "s_chunk_size_start"]
                       /\ n = NreadReset(run.nread) /\ r = [run EXCEPT !.nread = n]
    OBVIOUS
  <2>2. SameMethod(q) /\ "chunk_complete" \notin UrlKinds
    BY <1>1, <2>1 DEF Typed, FieldNames, SameMethod, UrlKinds
  <2>3. Refuse \/ Notify("chunk_complete", q, r)
    BY <1>3, <2>1 DEF ChunkDataDone
  <2> QED BY <1>1, <2>1, <2>2, <2>3, NotifyResetAside, StopAside
<1> QED BY <1>2, <1>3, IdentityAside, ChunkAside, DataBodyAside DEF Body

-------------------------------------------------------------------------------
(* Steps of the URL                                                        *)

\* What the invariant says while the URL is read.
LEMMA ReadingFacts ==
    ASSUME ParserInv, TextInv, UrlInv, run.pc \notin {"idle", "closed"}, parser.state \in UrlStates
    PROVE  /\ log \in Seq(Events) /\ log # <<>> /\ LastKind(log) \in UrlKinds /\ Reading(parser)
           /\ \E u : Holds(log, u) /\ UrlFits(stream.syms, parser, run, u)
<1>1. ParserOK(parser, LastKind(log)) /\ log \in Seq(Events) /\ parser.errno = "OK"
  BY RunFacts, TextHere
<1>2. LastKind(log) \in UrlKinds
  BY <1>1 DEF ParserOK, Fits, LineFits, UrlKinds
<1>3. log # <<>>
  BY <1>2 DEF LastKind, UrlKinds
<1>4. Reading(parser)
  BY <1>1 DEF Reading, Resumable
<1> QED BY <1>1, <1>2, <1>3, <1>4 DEF UrlInv, UrlHeld

\* Where a string of the URL begins, when it is marked.
LEMMA UrlMarked ==
    ASSUME ParserInv, TextInv, run.pc \notin {"idle", "closed"}, run.mark["url"] # 0
    PROVE  /\ run.mark["url"] \in Nat \ {0} /\ run.mark["url"] <= run.at /\ run.at \in Nat \ {0}
           /\ Resumes("url", run) = run.mark["url"]
<1>1. "url" \in DataKinds
  BY DEF DataKinds
<1>2. Handed(parser, run, log) /\ run.mark \in [DataKinds -> Nat] /\ run.at \in Nat \ {0}
  BY TextHere
<1>3. run.mark["url"] \in Nat /\ run.mark["url"] <= run.at
  BY <1>1, <1>2 DEF Handed
<1> QED BY <1>2, <1>3 DEF Resumes

\* The URL so far is handed over.
LEMMA UrlGiven ==
    ASSUME ParserInv, TextInv, UrlInv, run.pc \notin {"idle", "closed"}, parser.state \in UrlStates, run.mark["url"] # 0,
           NEW to \in Nat, to + 1 = run.at, to <= Size, NEW m, m = log \o Piece("url", run.mark["url"], to)
    PROVE  \E u : Holds(m, u) /\ Len(u) > 0 /\ UrlScan(u, Connect(parser)).s = parser.state
<1>1. PICK from \in Nat \ {0} : from = run.mark["url"] /\ from <= run.at /\ Resumes("url", run) = from
  BY UrlMarked
<1>2. PICK u : Holds(log, u) /\ UrlFits(stream.syms, parser, run, u)
  BY ReadingFacts
<1>3. PICK w : w = Seen(stream.syms, u, from, run.at)
  OBVIOUS
<1>4. Len(w) > 0 /\ UrlScan(w, Connect(parser)).s = parser.state
  BY <1>1, <1>2, <1>3 DEF UrlFits
<1>5. w = Seen(stream.syms, u, from, to + 1) /\ from <= to + 1
  BY <1>1, <1>3
<1>6. LastKind(log) \in UrlKinds /\ m = log \o Piece("url", from, to)
  BY <1>1, ReadingFacts
<1>7. Holds(m, w)
  BY <1>2, <1>4, <1>5, <1>6, PieceHeld
<1> QED BY <1>4, <1>7

LEMMA NotDead == ASSUME NEW s \in UrlStates PROVE s # "s_dead"
  BY DEF UrlStates, UrlServer, UrlTail

LEMMA GivenStep ==
    ASSUME ParserInv, TextInv, UrlInv, ParserInv', run.pc \notin {"idle", "closed"}, parser.state \in UrlStates,
           run.mark["url"] # 0, NEW to \in Nat, to + 1 = run.at, to <= Size, stream' = stream,
           log' = log \o Piece("url", run.mark["url"], to), parser'.method = parser.method,
           Reading(parser') => parser'.state = parser.state /\ run'.mark["url"] = 0 /\ run'.at = run.at
    PROVE  UrlInv'
<1>1. PICK m : m = log \o Piece("url", run.mark["url"], to)
  OBVIOUS
<1>2. PICK u : Holds(m, u) /\ Len(u) > 0 /\ UrlScan(u, Connect(parser)).s = parser.state
  BY <1>1, UrlGiven
<1>3. m = log' /\ m \in Seq(Events) /\ Connect(parser') = Connect(parser) /\ run.at \in Int
  BY <1>1, RunFacts, ConnectSame DEF ParserInv
<1>4. ASSUME Reading(parser')
      PROVE  UrlFits(stream'.syms, parser', run', u)
  <2>1. Resumes("url", run') = run.at /\ run'.at = run.at
    BY <1>4 DEF Resumes
  <2>2. Seen(stream.syms, u, run.at, run.at) = u
    BY <1>2, <1>3, SeenNothing
  <2> QED BY <1>2, <1>3, <1>4, <2>1, <2>2 DEF UrlFits
<1>5. UrlScan(u, Connect(parser')).s # "s_dead"
  BY <1>2, <1>3, NotDead
<1>6. UrlHeld(stream'.syms, parser', run', m)
  BY <1>2, <1>4, <1>5 DEF UrlHeld
<1> QED BY <1>3, <1>6 DEF UrlInv

\* A byte more of the URL.
LEMMA UrlGoesOn ==
    ASSUME ParserInv, TextInv, UrlInv, Here, parser.state \in UrlStates, run.mark["url"] # 0,
           NEW s, s = parse_url_char(parser.state, ch), s # "s_dead", Break(To(s))
    PROVE  UrlInv'
<1>1. PICK from \in Nat \ {0}, at \in Nat : from = run.mark["url"] /\ at = run.at /\ from <= at
  BY UrlMarked DEF Here
<1>2. PICK u : Holds(log, u) /\ UrlFits(stream.syms, parser, run, u)
  BY ReadingFacts DEF Here
<1>0. PICK c, syms : c = Connect(parser) /\ syms = stream.syms
  OBVIOUS
<1>3. PICK n \in Nat : n = Len(u)
  BY <1>2, HeldIs, RunFacts
<1>4. PICK v, w : v = Seen(syms, u, from, at) /\ w = Seen(syms, u, from, at + 1)
  OBVIOUS
<1>5. Len(v) > 0 /\ UrlScan(v, c).s = parser.state
  <2>1. Resumes("url", run) = from
    BY <1>1 DEF Resumes
  <2> QED BY <1>1, <1>2, <1>0, <1>3, <1>4, <2>1 DEF UrlFits
<1>6. /\ Len(v) = n + (at - from) /\ Len(v) \in Nat /\ Len(w) = Len(v) + 1 /\ w[Len(v) + 1] = syms[at]
      /\ \A i \in 1 .. Len(v) : v[i] = w[i]
  <2>1. PICK k \in Nat : k = n + (at - from) /\ n + (at + 1 - from) = k + 1 /\ k >= n
    BY <1>1
  <2>2. v = [i \in 1 .. k |-> IF i <= n THEN u[i] ELSE syms[from + i - n - 1]]
    BY <1>0, <1>3, <1>4, <2>1 DEF Seen
  <2>3. w = [i \in 1 .. k + 1 |-> IF i <= n THEN u[i] ELSE syms[from + i - n - 1]]
    BY <1>0, <1>3, <1>4, <2>1 DEF Seen
  <2>4. Len(v) = k /\ Len(w) = k + 1
    BY <2>2, <2>3
  <2>5. from + (k + 1) - n - 1 = at /\ ~(k + 1 <= n)
    BY <1>1, <2>1
  <2> QED BY <2>1, <2>2, <2>3, <2>4, <2>5
<1>7. UrlScan(w, c).s = s
  <2>1. UrlScan(w, c).s = parse_url_char(UrlScan(v, c).s, w[Len(v) + 1])
    BY <1>0, <1>3, <1>6, ConnectIs, ScanMore
  <2>2. syms[at] = ch
    BY <1>1, <1>0, <1>3 DEF ch
  <2> QED BY <1>5, <1>6, <2>1, <2>2
<1>8. Typed(parser) /\ RunTyped(run)
  BY RunFacts
<1>9. PICK q, r : q = To(s) /\ r = Next1(run)
  OBVIOUS
<1>10. q.state = s /\ q.method = parser.method /\ r.mark = run.mark /\ r.at = at + 1
  BY <1>1, <1>8, <1>9 DEF Typed, FieldNames, RunTyped, To, Next1
<1>11. Connect(q) = c /\ Resumes("url", r) = from
  BY <1>1, <1>0, <1>3, <1>10, ConnectSame DEF Resumes
<1>12. UrlFits(syms, q, r, u)
  BY <1>4, <1>6, <1>7, <1>10, <1>11 DEF UrlFits
<1>13. UrlScan(u, c).s # "s_dead"
  <2>1. log # <<>>
    BY ReadingFacts DEF Here
  <2>2. PICK o : Holds(log, o) /\ UrlScan(o, c).s # "s_dead"
    BY <1>0, <1>3, <2>1 DEF UrlInv, UrlHeld
  <2>3. o = u
    BY <1>2, <2>2, RunFacts, HeldIs
  <2> QED BY <2>2, <2>3
<1>14. parser' = q /\ run' = r /\ log' = log /\ stream' = stream
  BY <1>9 DEF Break, Set
<1>15. UrlHeld(syms, q, r, log)
  BY <1>2, <1>11, <1>12, <1>13 DEF UrlHeld
<1> QED BY <1>0, <1>3, <1>14, <1>15 DEF UrlInv

LEMMA UrlByteHeld == ASSUME ParserInv, TextInv, UrlInv, ParserInv', UrlByte PROVE UrlInv'
<1>1. Here /\ parser.state \in UrlStates /\ Typed(parser)
  <2>1. In(UrlStates)
    BY DEF UrlByte
  <2> QED BY <2>1, InHere, RunFacts
<1>2. run.mark["url"] # 0 /\ run.pc \notin {"idle", "closed"}
  <2>1. MarkedAtEntry(parser.state) = {"url"} /\ parser.state \notin BodyMarked
    BY <1>1, UrlString
  <2> QED BY <1>1, <2>1, OneMark DEF Here
<1>3. PICK s, t : s = parse_url_char(parser.state, ch) /\ t = To("s_req_http_start")
  OBVIOUS
<1>4. PICK v : v = IF ch = CR THEN "s_req_line_almost_done" ELSE "s_header_field_start"
  OBVIOUS
<1>5. PICK x : x = [parser EXCEPT !.version = "0.9", !.state = v]
  OBVIOUS
<1>6. /\ SameMethod(t) /\ SameMethod(x) /\ t.state \notin UrlStates /\ x.state \notin UrlStates
  <2>1. SameMethod(t) /\ t.state = "s_req_http_start" /\ SameMethod(x) /\ x.state = v
    BY <1>1, <1>3, <1>5, ParserMethod DEF Typed, FieldNames, SameMethod
  <2>2. v \in {"s_req_line_almost_done", "s_header_field_start"}
    BY <1>4
  <2> QED BY <2>1, <2>2 DEF UrlStates, UrlServer, UrlTail
<1>7. CallbackData("url", t) \/ CallbackData("url", x) \/ Refuse \/ (s # "s_dead" /\ Break(To(s)))
  BY <1>3, <1>4, <1>5 DEF UrlByte
<1>8. ASSUME NEW q, SameMethod(q), q.state \notin UrlStates, CallbackData("url", q)
      PROVE  UrlInv'
  <2>1. PICK r, b, from : r = MarkCleared(Next1(run), "url") /\ b = Idle(run.at + 1) /\ from = run.mark["url"]
    OBVIOUS
  <2>2. PICK to \in Nat : to = run.at - 1 /\ to + 1 = run.at /\ to <= Size
    <3>1. run.at \in 1 .. Size /\ Size \in Nat
      BY <1>1, HereFacts
    <3> QED BY <3>1
  <2>3. Call(q, r, Piece("url", from, to), b)
    BY <1>2, <1>8, <2>1, <2>2 DEF CallbackData, Data
  <2>4. /\ [q EXCEPT !.errno = "CB", !.nread = r.nread].method = q.method
        /\ [q EXCEPT !.errno = "CB", !.nread = r.nread].state = q.state \/ "state" \notin DOMAIN q
        /\ [q EXCEPT !.errno = "PAUSED"].method = q.method
        /\ [q EXCEPT !.errno = "PAUSED"].state = q.state \/ "state" \notin DOMAIN q
    BY <1>8 DEF SameMethod
  <2>5. log' = log \o Piece("url", from, to) /\ stream' = stream
    BY <2>3 DEF Call
  <2>6. parser' \in {q, [q EXCEPT !.errno = "CB", !.nread = r.nread], [q EXCEPT !.errno = "PAUSED"]}
    BY <2>3 DEF Call
  <2>7. parser'.method = parser.method
    BY <1>8, <2>4, <2>6 DEF SameMethod
  <2>8. DOMAIN parser' = FieldNames
    BY DEF ParserInv, Sound, Typed
  <2>9. ~Reading(parser')
    <3>1. "state" \in DOMAIN q
      BY <2>6, <2>8 DEF FieldNames
    <3> QED BY <1>8, <2>4, <2>6, <3>1 DEF Reading
  <2> QED BY <1>1, <1>2, <2>1, <2>2, <2>5, <2>7, <2>9, GivenStep
<1>9. CASE Refuse
  BY <1>9, StopAside, AsideStep
<1>10. CASE s # "s_dead" /\ Break(To(s))
  BY <1>1, <1>2, <1>3, <1>10, UrlGoesOn
<1> QED BY <1>6, <1>7, <1>8, <1>9, <1>10

\* The piece of the URL that the end of the data cuts.
LEMMA EndOfDataHeld == ASSUME ParserInv, TextInv, UrlInv, ParserInv', EndOfData PROVE UrlInv'
<1>1. Typed(parser) /\ RunTyped(run) /\ Size \in Nat /\ run.end \in 0 .. Size /\ run.at \in 1 .. Size + 1
  BY RunFacts
<1>2. CASE Pending = {}
  <2>1. PICK q, b : q = [parser EXCEPT !.nread = run.nread] /\ b = Idle(run.at)
    OBVIOUS
  <2>2. Set(q, b)
    BY <1>2, <2>1 DEF EndOfData
  <2>3. q.method = parser.method /\ q.state = parser.state /\ q.errno = parser.errno
    BY <1>1, <2>1 DEF Typed, FieldNames
  <2>4. "url" \in DataKinds
    BY DEF DataKinds
  <2>5. run.mark["url"] = 0
    BY <1>2, <2>4 DEF Pending
  <2>6. b.at = run.at /\ b.mark["url"] = 0
    BY <2>1, <2>4 DEF Idle, NoMarks
  <2>7. Resumes("url", b) = Resumes("url", run)
    BY <2>5, <2>6 DEF Resumes
  <2> QED BY <2>2, <2>3, <2>6, <2>7, KeptStep DEF Set
<1>3. CASE Pending # {}
  <2>1. PICK k \in Pending : Data(k, parser, [run EXCEPT !.pc = "return"], run.end, run.at)
    BY <1>3 DEF EndOfData
  <2>2. PICK n, at : n = [run EXCEPT !.pc = "return"] /\ at = run.at
    OBVIOUS
  <2>3. Data(k, parser, n, run.end, at) /\ k \in DataKinds /\ run.mark[k] # 0
    BY <2>1, <2>2 DEF Pending
  <2>4. RunTyped(n) /\ n.pc = "return" /\ n.at = run.at
    BY <1>1, <2>2 DEF RunTyped, Places
  <2>5. run.pc = "top"
    <3>1. k \in PendingOf(run)
      BY <2>3 DEF PendingOf
    <3>2. run.pc # "return"
      BY <3>1, RunFacts DEF MarksOK
    <3> QED BY <3>2 DEF EndOfData
  <2>6. CASE k # "url"
    <3>1. SameMethod(parser) /\ run.end \in Int
      BY <1>1, ParserMethod
    <3>2. Aside
      BY <2>3, <2>4, <2>6, <3>1, DataAside
    <3> QED BY <3>2, AsideStep
  <2>7. CASE k = "url"
    <3>1. PICK to \in Nat : to = run.end /\ to + 1 = run.at /\ to <= Size
      <4>1. run.at > run.end
        BY DEF EndOfData
      <4>2. run.at <= run.end + 1
        BY <2>5, RunFacts DEF RangeOK
      <4> QED BY <1>1, <4>1, <4>2
    <3>2. PICK r, b, from : r = MarkCleared(n, "url") /\ b = Idle(at) /\ from = run.mark["url"]
      OBVIOUS
    <3>3. Call(parser, r, Piece("url", from, to), b)
      BY <2>3, <2>7, <3>1, <3>2 DEF Data
    <3>4. r.mark["url"] = 0 /\ r.at = run.at /\ b.mark["url"] = 0 /\ b.at = run.at
      <4>1. "url" \in DataKinds
        BY DEF DataKinds
      <4>2. r.at = run.at /\ PendingOf(r) = PendingOf(n) \ {"url"}
        BY <1>1, <2>4, <3>2, <4>1, ClearedRun
      <4>3. r.mark["url"] = 0
        BY <4>1, <4>2 DEF PendingOf
      <4> QED BY <2>2, <3>2, <4>1, <4>2, <4>3 DEF Idle, NoMarks
    <3>5. parser.state \in UrlStates
      <4>1. MarksOK(parser.state, run)
        BY RunFacts
      <4> QED BY <2>3, <2>5, <2>7, <4>1, NoUrlMark
    <3>6. log' = log \o Piece("url", from, to) /\ stream' = stream
      BY <3>3 DEF Call
    <3>7. parser'.method = parser.method /\ (Reading(parser') => parser'.state = parser.state)
      <4>1. PICK e, p : e = [parser EXCEPT !.errno = "CB", !.nread = r.nread] /\ p = [parser EXCEPT !.errno = "PAUSED"]
        OBVIOUS
      <4>2. e.method = parser.method /\ e.state = parser.state /\ p.method = parser.method /\ p.state = parser.state
        BY <1>1, <4>1 DEF Typed, FieldNames
      <4>3. parser' \in {parser, e, p}
        BY <3>3, <4>1 DEF Call
      <4> QED BY <4>2, <4>3
    <3>8. run' \in {r, b}
      BY <3>3 DEF Call
    <3>9. run'.mark["url"] = 0 /\ run'.at = run.at
      BY <3>4, <3>8
    <3> QED BY <2>3, <2>5, <2>7, <3>1, <3>2, <3>5, <3>6, <3>7, <3>9, GivenStep
  <2> QED BY <2>6, <2>7
<1> QED BY <1>2, <1>3

LEMMA LoopHeld == ASSUME ParserInv, TextInv, UrlInv, ParserInv', Loop PROVE UrlInv'
<1>1. CASE NextByte
  <2>1. PICK n : n = IF parser.state \in BodyStates THEN run.nread ELSE run.nread + 1
    OBVIOUS
  <2>2. PICK q, b, r : /\ q = [parser EXCEPT !.errno = "HEADER_OVERFLOW", !.nread = n] /\ b = Idle(run.at)
                       /\ r = [run EXCEPT !.pc = "switch", !.nread = n]
    OBVIOUS
  <2>3. Set(q, b) \/ Set(parser, r)
    BY <1>1, <2>1, <2>2 DEF NextByte
  <2>4. Typed(parser) /\ RunTyped(run)
    BY RunFacts
  <2>5. SameMethod(q) /\ q.errno \notin Resumable
    BY <2>2, <2>4 DEF Typed, FieldNames, SameMethod, Resumable
  <2>6. r.at = run.at /\ r.mark = run.mark
    BY <2>2, <2>4 DEF RunTyped
  <2>7. Resumes("url", r) = Resumes("url", run)
    BY <2>6 DEF Resumes
  <2>8. CASE Set(q, b)
    BY <2>5, <2>8, SetAside, AsideStep
  <2>9. CASE Set(parser, r)
    BY <2>6, <2>7, <2>9, KeptStep DEF Set
  <2> QED BY <2>3, <2>8, <2>9
<1>2. CASE ScanEnds \/ Move \/ MoveRefused
  BY <1>2, ScanEndsAside, MoveAside, AsideStep
<1>3. CASE EndOfData
  BY <1>3, EndOfDataHeld
<1> QED BY <1>1, <1>2, <1>3 DEF Loop

LEMMA FeedHeld == ASSUME ParserInv, TextInv, UrlInv, ParserInv', Feed \/ http_parser_pause PROVE UrlInv'
<1>1. Typed(parser) /\ "url" \in DataKinds
  BY RunFacts DEF DataKinds
<1>2. CASE \E n : http_parser_execute(n)
  <2>1. PICK n : http_parser_execute(n)
    BY <1>2
  <2>2. run.pc = "idle"
    BY <2>1 DEF http_parser_execute, CanFeed
  <2>3. PICK r : r = [pc |-> "top", at |-> run.at, end |-> run.at + n - 1, nread |-> parser.nread, start |-> 0,
                      mark |-> [k \in DataKinds |-> IF k \in MarkedAtEntry(parser.state) THEN run.at ELSE 0]]
    OBVIOUS
  <2>4. Set(parser, r)
    BY <2>1, <2>3 DEF http_parser_execute
  <2>5. Resumes("url", r) = run.at /\ r.at = run.at
    BY <1>1, <2>3 DEF Resumes
  <2>6. Resumes("url", run) = run.at
    BY <1>1, <2>2, NoCall DEF Resumes
  <2> QED BY <2>4, <2>5, <2>6, KeptStep DEF Set
<1>3. CASE http_parser_pause
  <2>1. PICK q : q = [parser EXCEPT !.errno = "OK"]
    OBVIOUS
  <2>2. parser.errno = "PAUSED" /\ Set(q, run)
    BY <1>3, <2>1 DEF http_parser_pause
  <2>3. q.method = parser.method /\ q.state = parser.state
    BY <1>1, <2>1 DEF Typed, FieldNames
  <2> QED BY <2>2, <2>3, KeptStep DEF Set, Resumable
<1>4. CASE http_parser_execute_eof
  <2>1. PICK r : r = [Idle(run.at) EXCEPT !.pc = "closed", !.nread = parser.nread]
    OBVIOUS
  <2>2. PICK q : q = [parser EXCEPT !.errno = "INVALID_EOF_STATE"]
    OBVIOUS
  <2>3. \/ parser.state = "s_body_identity_eof" /\ Call(parser, r, <<<<"message_complete">>>>, r)
        \/ parser.state \in StartStates /\ Set(parser, r)
        \/ Set(q, r)
    BY <1>4, <2>1, <2>2 DEF http_parser_execute_eof
  <2>4. SameMethod(parser) /\ SameMethod(q) /\ q.errno \notin Resumable
    BY <1>1, <2>2, ParserMethod DEF Typed, FieldNames, SameMethod, Resumable
  <2>5. (parser.state = "s_body_identity_eof" \/ parser.state \in StartStates) => parser.state \notin UrlStates
    BY DEF StartStates, UrlStates, UrlServer, UrlTail
  <2>6. CASE parser.state = "s_body_identity_eof" /\ Call(parser, r, <<<<"message_complete">>>>, r)
    <3>1. PICK e, ev : e = <<"message_complete">> /\ ev = <<e>>
      OBVIOUS
    <3>2. e[1] \notin UrlKinds
      BY <3>1 DEF UrlKinds
    <3>3. e \in Events
      <4>1. e \in {<<x>> : x \in Notices}
        BY <3>1 DEF Notices
      <4> QED BY <4>1 DEF Events
    <3>4. ev \in Seq(Events) /\ NotOfUrl(ev) /\ log \in Seq(Events)
      BY <3>1, <3>2, <3>3, RunFacts DEF NotOfUrl
    <3>5. log' = log \o ev
      BY <2>6, <3>1 DEF Call
    <3>6. PICK m : m = log \o ev
      OBVIOUS
    <3>7. Adds(log, m)
      BY <3>4, <3>6, AddsEvents
    <3>8. parser'.method = parser.method /\ parser'.state = parser.state
      <4>1. PICK c, p : c = [parser EXCEPT !.errno = "CB", !.nread = r.nread] /\ p = [parser EXCEPT !.errno = "PAUSED"]
        OBVIOUS
      <4>2. c.method = parser.method /\ c.state = parser.state /\ p.method = parser.method /\ p.state = parser.state
        BY <1>1, <4>1 DEF Typed, FieldNames
      <4>3. parser' \in {parser, c, p}
        BY <2>6, <4>1 DEF Call
      <4> QED BY <4>2, <4>3
    <3>9. Aside
      BY <2>5, <2>6, <3>5, <3>6, <3>7, <3>8 DEF Aside, Reading
    <3> QED BY <3>9, AsideStep
  <2> QED BY <2>3, <2>4, <2>5, <2>6, SetAside, AsideStep
<1> QED BY <1>2, <1>3, <1>4 DEF Feed

LEMMA EmptyLives == ASSUME NEW u, Len(u) = 0, NEW c \in BOOLEAN PROVE UrlScan(u, c).s # "s_dead"
<1>1. UrlScan(u, c) = UrlStart(c)
  BY ScanEmpty
<1> QED BY <1>1 DEF UrlStart

LEMMA LinesOff == ASSUME NEW s \in LineStates PROVE s \notin UrlStates
  BY DEF LineStates, UrlStates, UrlServer, UrlTail

\* A message begins, with an empty URL.
LEMMA BeginHeld ==
    ASSUME ParserInv, ParserInv', NEW q, DOMAIN q = FieldNames, q.state \in LineStates, Notify("message_begin", q, run)
    PROVE  UrlInv'
<1>1. PICK r, b : r = Next1(run) /\ b = Idle(run.at + 1)
  OBVIOUS
<1>2. PICK e, ev : e = <<"message_begin">> /\ ev = <<e>>
  OBVIOUS
<1>3. Call(q, r, ev, b)
  BY <1>1, <1>2 DEF Notify
<1>4. e \in Events
  <2>1. e \in {<<x>> : x \in Notices}
    BY <1>2 DEF Notices
  <2> QED BY <2>1 DEF Events
<1>5. PICK m : m = log \o ev
  OBVIOUS
<1>6. log \in Seq(Events) /\ ev \in Seq(Events)
  BY <1>2, <1>4, RunFacts
<1>7. m \in Seq(Events) /\ Len(m) = Len(log) + 1 /\ m[Len(m)] = e
  BY <1>2, <1>5, <1>6
<1>8. PICK u : Holds(m, u) /\ Len(u) = 0
  BY <1>2, <1>6, <1>7, HeldBegins
<1>9. PICK c, d : c = [q EXCEPT !.errno = "CB", !.nread = r.nread] /\ d = [q EXCEPT !.errno = "PAUSED"]
  OBVIOUS
<1>10. c.state = q.state /\ d.state = q.state
  BY <1>9 DEF FieldNames
<1>11. parser' \in {q, c, d} /\ log' = m
  BY <1>3, <1>5, <1>9 DEF Call
<1>12. ~Reading(parser')
  BY <1>10, <1>11, LinesOff DEF Reading
<1>13. UrlScan(u, Connect(parser')).s # "s_dead"
  BY <1>8, ConnectIs, EmptyLives
<1>14. UrlHeld(stream'.syms, parser', run', m)
  BY <1>8, <1>12, <1>13 DEF UrlHeld
<1> QED BY <1>11, <1>14 DEF UrlInv

\* Before the URL, its text is empty.
LEMMA NothingYet ==
    ASSUME ParserInv, UrlInv, run.pc # "closed", parser.state \in LineStates
    PROVE  log \in Seq(Events) /\ log # <<>> /\ \E u : Holds(log, u) /\ Len(u) = 0
<1>1. ParserOK(parser, LastKind(log)) /\ log \in Seq(Events)
  BY RunFacts
<1>2. LastKind(log) = "message_begin"
  BY <1>1 DEF ParserOK, Fits, LineFits
<1>3. log # <<>> /\ LastKind(log) \in UrlKinds
  BY <1>2 DEF LastKind, UrlKinds
<1>4. PICK u : Holds(log, u)
  BY <1>3 DEF UrlInv, UrlHeld
<1>5. Len(u) = 0
  BY <1>1, <1>2, <1>3, <1>4, HeldLast
<1> QED BY <1>1, <1>3, <1>4, <1>5

LEMMA StartHeld == ASSUME ParserInv, UrlInv, ParserInv', StartReqOrRes \/ StartRes \/ StartReq PROVE UrlInv'
<1>1. OffUrl
  <2>1. In({"s_start_req_or_res", "s_start_res", "s_start_req"})
    BY DEF In, StartReqOrRes, StartRes, StartReq
  <2>2. \A s \in {"s_start_req_or_res", "s_start_res", "s_start_req"} : s \notin UrlStates
    BY DEF UrlStates, UrlServer, UrlTail
  <2> QED BY <2>1, <2>2, InOff
<1>2. PICK p : p = Fresh
  OBVIOUS
<1>3. DOMAIN p = FieldNames /\ p.method = parser.method
  <2>1. Typed(parser)
    BY RunFacts
  <2> QED BY <1>2, <2>1 DEF Fresh, Typed, FieldNames
<1>4. PICK b, c, d, e :
        /\ b = [p EXCEPT !.state = "s_res_or_resp_H"]
        /\ c = [p EXCEPT !.state = "s_res_H"]
        /\ d = [p EXCEPT !.method = MethodOf[ch], !.index = 1, !.state = "s_req_method"]
        /\ e = [p EXCEPT !.type = "REQUEST", !.state = "s_start_req"]
  OBVIOUS
<1>5. /\ DOMAIN b = FieldNames /\ b.state \in LineStates
      /\ DOMAIN c = FieldNames /\ c.state \in LineStates
      /\ DOMAIN d = FieldNames /\ d.state \in LineStates
      /\ SameMethod(e)
  BY <1>3, <1>4 DEF FieldNames, LineStates, SameMethod
<1>6. CASE StartReqOrRes
  <2>1. Notify("message_begin", b, run) \/ Reexecute(e)
    BY <1>2, <1>4, <1>6 DEF StartReqOrRes
  <2> QED BY <1>1, <1>5, <2>1, BeginHeld, OffGo, AsideStep
<1>7. CASE StartRes
  <2>1. Notify("message_begin", c, run) \/ Refuse
    BY <1>2, <1>4, <1>7 DEF StartRes
  <2> QED BY <1>5, <2>1, BeginHeld, StopAside, AsideStep
<1>8. CASE StartReq
  <2>1. Notify("message_begin", d, run) \/ Refuse
    BY <1>2, <1>4, <1>8 DEF StartReq
  <2> QED BY <1>5, <2>1, BeginHeld, StopAside, AsideStep
<1> QED BY <1>6, <1>7, <1>8

LEMMA ResOrRespHHeld == ASSUME ParserInv, UrlInv, ParserInv', ResOrRespH PROVE UrlInv'
<1>1. Here /\ parser.state = "s_res_or_resp_H" /\ Typed(parser)
  <2>1. In({"s_res_or_resp_H"})
    BY DEF ResOrRespH
  <2> QED BY <2>1, InHere, RunFacts
<1>2. PICK b, c : /\ b = [parser EXCEPT !.type = "RESPONSE", !.state = "s_res_http_major"]
                  /\ c = [parser EXCEPT !.type = "REQUEST", !.method = "HEAD", !.index = 2, !.state = "s_req_method"]
  OBVIOUS
<1>3. b.state \in LineStates /\ c.state \in LineStates /\ parser.state \in LineStates
  BY <1>1, <1>2 DEF Typed, FieldNames, LineStates
<1>4. Break(b) \/ Break(c) \/ Refuse
  BY <1>2 DEF ResOrRespH
<1>5. CASE Refuse
  BY <1>5, StopAside, AsideStep
<1>6. CASE Break(b) \/ Break(c)
  <2>1. PICK u : Holds(log, u) /\ Len(u) = 0
    BY <1>1, <1>3, NothingYet DEF Here
  <2>2. parser'.state \in LineStates /\ log' = log
    BY <1>3, <1>6 DEF Break, Set
  <2>3. ~Reading(parser')
    BY <2>2, LinesOff DEF Reading
  <2>4. UrlScan(u, Connect(parser')).s # "s_dead"
    BY <2>1, ConnectIs, EmptyLives
  <2>5. UrlHeld(stream'.syms, parser', run', log)
    BY <2>1, <2>3, <2>4 DEF UrlHeld
  <2> QED BY <2>2, <2>5 DEF UrlInv
<1> QED BY <1>4, <1>5, <1>6

\* The first byte of the URL.
LEMMA UrlFirstHeld == ASSUME ParserInv, UrlInv, ParserInv', UrlFirst PROVE UrlInv'
<1>1. Here /\ parser.state = "s_req_spaces_before_url" /\ Typed(parser)
  <2>1. In({"s_req_spaces_before_url"})
    BY DEF UrlFirst
  <2> QED BY <2>1, InHere, RunFacts
<1>2. PICK s0, s : /\ s0 = (IF parser.method = "CONNECT" THEN "s_req_server_start" ELSE parser.state)
                   /\ s = parse_url_char(s0, ch)
  OBVIOUS
<1>3. PICK q, t, r : q = To(s) /\ t = MarkAt(run, "url") /\ r = Next1(t)
  OBVIOUS
<1>4. Refuse \/ (s # "s_dead" /\ Set(q, r))
  BY <1>2, <1>3 DEF UrlFirst
<1>5. CASE Refuse
  BY <1>5, StopAside, AsideStep
<1>6. CASE s # "s_dead" /\ Set(q, r)
  <2>1. parser.state \in LineStates /\ run.pc # "closed"
    BY <1>1 DEF LineStates, Here
  <2>2. PICK u : Holds(log, u) /\ Len(u) = 0
    BY <2>1, NothingYet
  <2>3. PICK at, syms, c : at \in Nat \ {0} /\ at = run.at /\ syms = stream.syms /\ c = Connect(parser)
    BY <1>1, HereFacts
  <2>4. q.state = s /\ q.method = parser.method
    BY <1>1, <1>3 DEF Typed, FieldNames, To
  <2>5. r.at = at + 1 /\ r.mark["url"] = at
    <3>1. RunTyped(run) /\ run.mark["url"] = 0 /\ "url" \in DataKinds
      BY <1>1, <2>1, OffFacts, LinesOff DEF OffUrl, DataKinds
    <3>2. t.mark["url"] = at /\ t.at = at /\ DOMAIN t = DOMAIN run
      BY <1>3, <2>3, <3>1 DEF MarkAt, RunTyped
    <3> QED BY <1>3, <3>1, <3>2 DEF Next1, RunTyped
  <2>6. Resumes("url", r) = at /\ Connect(q) = c
    BY <2>3, <2>4, <2>5, ConnectSame DEF Resumes
  <2>7. PICK w : w = Seen(syms, u, at, at + 1)
    OBVIOUS
  <2>8. Len(w) = 1 /\ w[1] = syms[at]
    <3>1. Len(u) + ((at + 1) - at) = 1 /\ at + 1 - Len(u) - 1 = at /\ ~(1 <= Len(u))
      BY <2>2, <2>3
    <3>2. w = [i \in 1 .. 1 |-> IF i <= Len(u) THEN u[i] ELSE syms[at + i - Len(u) - 1]]
      BY <2>7, <3>1 DEF Seen
    <3> QED BY <3>1, <3>2
  <2>9. UrlScan(w, c).s = s
    <3>1. UrlScan(u, c) = UrlStart(c)
      BY <2>2, <2>3, ConnectIs, ScanEmpty
    <3>2. UrlScan(w, c).s = parse_url_char(UrlScan(u, c).s, w[1])
      <4>1. Len(u) \in Nat /\ Len(w) = Len(u) + 1 /\ Len(u) + 1 = 1 /\ \A i \in 1 .. Len(u) : u[i] = w[i]
        BY <2>2, <2>8
      <4> QED BY <2>3, <4>1, ConnectIs, ScanMore
    <3>3. UrlStart(c).s = s0
      BY <1>1, <1>2, <2>3 DEF UrlStart, Connect
    <3> QED BY <1>2, <2>3, <2>8, <3>1, <3>2, <3>3 DEF ch
  <2>10. UrlFits(syms, q, r, u)
    BY <2>4, <2>5, <2>6, <2>7, <2>8, <2>9 DEF UrlFits
  <2>11. UrlScan(u, Connect(q)).s # "s_dead"
    BY <2>2, ConnectIs, EmptyLives
  <2>12. UrlHeld(syms, q, r, log)
    BY <2>2, <2>10, <2>11 DEF UrlHeld
  <2> QED BY <1>6, <2>3, <2>12 DEF Set, UrlInv
<1> QED BY <1>4, <1>5, <1>6

LEMMA FirstLineHeld == ASSUME ParserInv, TextInv, UrlInv, ParserInv', FirstLine PROVE UrlInv'
<1>1. CASE StartReqOrRes \/ StartRes \/ StartReq
  BY <1>1, StartHeld
<1>2. CASE ResOrRespH \/ UrlFirst \/ UrlByte
  BY <1>2, ResOrRespHHeld, UrlFirstHeld, UrlByteHeld
<1>3. CASE ReqMethod \/ ReqIce \/ ReqVersion \/ ResVersion \/ FirstStatusCode \/ StatusCode \/ StatusStart \/ Status
  BY <1>3, LineAside, StatusAside, AsideStep
<1> QED BY <1>1, <1>2, <1>3 DEF FirstLine

LEMMA UrlInvStep == ASSUME ParserInv, TextInv, UrlInv, ParserInv', [Next]_vars PROVE UrlInv'
<1>1. CASE UNCHANGED vars
  BY <1>1 DEF vars, UrlInv
<1>2. CASE Feed \/ http_parser_pause
  BY <1>2, FeedHeld
<1>3. CASE Loop \/ FirstLine
  BY <1>3, LoopHeld, FirstLineHeld
<1>4. CASE Headers \/ Body
  BY <1>4, HeadersAside, BodyAside, AsideStep
<1> QED BY <1>1, <1>2, <1>3, <1>4 DEF Next

\* The URL that was handed over, with the bytes of it in the piece, has been
\* scanned to the state that the parser is in.
THEOREM UrlInvariant == Spec => []UrlInv
<1>1. Init => UrlInv
  BY DEF Init, UrlInv
<1>2. ParserInv /\ ParserInv' /\ TextInv /\ UrlInv /\ [Next]_vars => UrlInv'
  BY UrlInvStep
<1> QED BY <1>1, <1>2, ParserInvariant, TextInvariant, PTL DEF Spec

\* However a URL is cut into pieces, what was handed over when its headers end is
\* one that http_parser_parse_url's automaton accepts too, and the parts it is then
\* cut into lie in it, are not empty and follow each other, unless it is too long
\* for a uint16_t.
THEOREM UrlCuts == Spec => []UrlPartsInOrder
<1>1. ParserInv /\ UrlInv => UrlPartsInOrder
  <2> SUFFICES ASSUME ParserInv, UrlInv, log # <<>> PROVE UrlPartsInOrder
    BY DEF UrlPartsInOrder
  <2>0. PICK c \in BOOLEAN : c = Connect(parser) /\ c = (parser.method = "CONNECT")
    BY ConnectIs, Zenon DEF Connect
  <2>1. PICK u : Holds(log, u) /\ UrlScan(u, c).s # "s_dead"
    BY <2>0 DEF UrlInv, UrlHeld
  <2>2. u = Url /\ Len(u) \in Nat
    BY <2>1, HeldIs DEF Url, ParserInv
  <2>3. PICK f : f = http_parser_parse_url(u, c).fields
    OBVIOUS
  <2>4. Len(u) <= UINT16_MAX => InUrl(f, Len(u)) /\ PartsInOrder(f)
    <3>1. ASSUME Len(u) <= UINT16_MAX PROVE Len(u) \in 0 .. UINT16_MAX
      BY <2>2, <3>1, UrlAssumption
    <3> QED BY <2>3, <3>1, UrlPartsApart
  <2>5. f = http_parser_parse_url(Url, parser.method = "CONNECT").fields
    BY <2>0, <2>2, <2>3
  <2> QED BY <2>0, <2>1, <2>2, <2>4, <2>5 DEF UrlPartsInOrder
<1> QED BY <1>1, ParserInvariant, UrlInvariant, PTL
===============================================================================
