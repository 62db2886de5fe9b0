---------------------------- MODULE FileLoggerProofs ----------------------------
(***************************************************************************)
(* Theorems about FileLogger for all caches, records, files and starts:    *)
(* first those that the contents of the files play no part in, then, with  *)
(* what Fresh computes, those about the records in the log and the cache.  *)
(***************************************************************************)
EXTENDS FileLogger, SetInduction, FiniteSetTheorems

\* What the files contain plays no part here: a flush changes no more of the
\* directory than that the log file of the instance exists.
LEMMA FlushedDomain ==
    ASSUME NEW ok, flushCacheFile(ok)
    PROVE  DOMAIN logs' = DOMAIN logs \/ DOMAIN logs' = DOMAIN logs \cup {file}
  BY DEF flushCacheFile, Appended

LEMMA WrittenDomain ==
    ASSUME NEW r, NEW len, NEW ok, write(r, len, ok)
    PROVE  DOMAIN logs' = DOMAIN logs \/ DOMAIN logs' = DOMAIN logs \cup {file}
  BY FlushedDomain DEF write

-------------------------------------------------------------------------------
(* The cache                                                               *)

Fits == \A len \in Sizes : len <= CacheSize

LengthInv == curLen \in Nat /\ curLen <= CacheSize

LEMMA LengthSteps ==
    ASSUME Fits, LengthInv, [Next]_vars
    PROVE  LengthInv'
<1> USE LoggerAssumption DEF LengthInv, process, disk, ProcessEnds
<1>1. ASSUME NEW len \in Sizes, WriteLog(len)
      PROVE  LengthInv'
  <2>1. len \in Nat /\ len <= CacheSize
    BY DEF Fits
  <2>2. PICK ok \in Opens : write(records + 1, len, ok)
    BY <1>1 DEF WriteLog
  <2>3. CASE NoRoom(len)
    BY <2>1, <2>2, <2>3 DEF write
  <2>4. CASE ~NoRoom(len)
    BY <2>1, <2>2, <2>4 DEF write, NoRoom
  <2> QED
    BY <2>3, <2>4
<1>2. CASE InitCall
  <2>1. curLen' = 0
    BY <1>2 DEF InitCall, InitFails, InitSucceeds, InitKills
  <2> QED
    BY <2>1
<1>3. ASSUME Close \/ Crash
      PROVE  LengthInv'
  BY <1>3 DEF Close, Crash
<1>4. ASSUME Flush \/ TimerFires \/ Restart \/ UNCHANGED vars
      PROVE  LengthInv'
  BY <1>4 DEF Flush, TimerFires, Restart, vars
<1> QED
  BY <1>1, <1>2, <1>3, <1>4 DEF Next

\* The cache is never written past its mapping, whatever is logged, flushed or
\* fails, if no record is longer than it: the test for room in write comes
\* before the copy, and a cache without room is started again.
THEOREM CacheIsNeverOverrun == ASSUME Fits PROVE Spec => []CacheNotOverrun
<1>1. Init => LengthInv
  BY LoggerAssumption DEF Init, LengthInv
<1>2. LengthInv /\ [Next]_vars => LengthInv'
  BY LengthSteps
<1>3. LengthInv => CacheNotOverrun
  BY DEF LengthInv, CacheNotOverrun
<1> QED
  BY <1>1, <1>2, <1>3, PTL DEF Spec

-------------------------------------------------------------------------------
(* The log files                                                           *)

\* The log file there is, if any, is the one that was used last.
OnlyFile == DOMAIN logs \subseteq {file}

LEMMA OnlyFileSteps ==
    ASSUME OnlyFile, [Next]_vars
    PROVE  OnlyFile'
<1> USE DEF OnlyFile, process, disk
<1>1. ASSUME NEW len \in Sizes, WriteLog(len)
      PROVE  OnlyFile'
  BY <1>1, WrittenDomain DEF WriteLog
<1>2. ASSUME Flush \/ TimerFires \/ Close
      PROVE  OnlyFile'
  BY <1>2, FlushedDomain DEF Flush, TimerFires, Close
<1>3. CASE InitCall
  <2>1. PICK c \in initFileLogger : file' = c.file /\ logs' = c.logs
    BY <1>3 DEF InitCall
  <2>2. CASE DOMAIN logs = {}
    BY <2>1, <2>2 DEF initFileLogger, NewFile
  <2>3. CASE DOMAIN logs # {}
    <3>1. PICK f \in DOMAIN logs : c \in {Reused(f), TooBig(f), TooOld(f)}
      BY <2>1, <2>3 DEF initFileLogger
    <3>2. DOMAIN logs = {f}
      BY <2>3
    <3> QED
      BY <2>1, <3>1, <3>2 DEF Reused, TooBig, TooOld, NewFile, Without
  <2> QED
    BY <2>2, <2>3
<1> QED
  BY <1>1, <1>2, <1>3 DEF Next, Crash, Restart, vars

\* There is one log file at most, over crashes, rotations and files that do not
\* open: the scan of initFileLogger, which leaves after the first, misses none.
THEOREM OnlyOneLogFile == Spec => []OneLogFile
<1>1. Init => OnlyFile
  BY DEF Init, OnlyFile
<1>2. OnlyFile /\ [Next]_vars => OnlyFile'
  BY OnlyFileSteps
<1>3. OnlyFile => OneLogFile
  <2>1. Cardinality({}) = 0 /\ Cardinality({file}) = 1
    BY FS_EmptySet, FS_Singleton
  <2> QED
    BY <2>1 DEF OnlyFile, OneLogFile
<1> QED
  BY <1>1, <1>2, <1>3, PTL DEF Spec

-------------------------------------------------------------------------------
(* The timer                                                               *)

\* An open logger always has its flush posted: init posts it before anyone can
\* write, every handling posts it again, and what ends the process closes the
\* logger too.
THEOREM OpenLoggerAlwaysHasTimer == Spec => []OpenLoggerHasTimer
<1>1. Init => OpenLoggerHasTimer
  BY DEF Init, OpenLoggerHasTimer
<1>2. OpenLoggerHasTimer /\ [Next]_vars => OpenLoggerHasTimer'
  <2> SUFFICES ASSUME OpenLoggerHasTimer, [Next]_vars
               PROVE  OpenLoggerHasTimer'
    OBVIOUS
  <2> USE DEF OpenLoggerHasTimer, process, disk, ProcessEnds
  <2>1. CASE InitCall
    BY <2>1 DEF InitCall, InitFails, InitSucceeds, InitKills
  <2> QED
    BY <2>1 DEF Next, WriteLog, Flush, TimerFires, Close, Crash, Restart, vars
<1> QED
  BY <1>1, <1>2, PTL DEF Spec

-------------------------------------------------------------------------------
(* Sequences of records                                                    *)

Increasing(s) == \A i, j \in DOMAIN s : i < j => s[i] < s[j]
Precedes(a, b) == \A x \in Elements(a), y \in Elements(b) : x < y

LEMMA RecordNat == Records \subseteq Nat
  BY LoggerAssumption DEF Records

LEMMA ElementsRecords ==
    ASSUME NEW s \in Seq(Records)
    PROVE  Elements(s) \subseteq Records /\ Len(s) \in Nat /\ DOMAIN s = 1 .. Len(s)
  BY ElementOfSeq DEF Elements

LEMMA EmptyIncreases == Increasing(<<>>) /\ Elements(<<>>) = {} /\ <<>> \in Seq(Records)
  BY EmptySeq DEF Increasing, Elements

LEMMA AppendIncreases ==
    ASSUME NEW s \in Seq(Records), NEW r \in Records, Increasing(s), \A x \in Elements(s) : x < r
    PROVE  /\ Append(s, r) \in Seq(Records) /\ Increasing(Append(s, r))
           /\ Elements(Append(s, r)) = Elements(s) \cup {r}
<1>1. PICK t : t = Append(s, r)
  OBVIOUS
<1>2. PICK n \in Nat : n = Len(s) /\ DOMAIN s = 1 .. n
  BY ElementsRecords
<1>3. /\ t \in Seq(Records) /\ DOMAIN t = 1 .. n + 1
      /\ t[n + 1] = r /\ \A i \in 1 .. n : t[i] = s[i]
  BY <1>1, <1>2, AppendProperties
<1>4. \A i \in 1 .. n : s[i] \in Elements(s)
  BY <1>2 DEF Elements
<1>5. ASSUME NEW i \in 1 .. n + 1, NEW j \in 1 .. n + 1, i < j PROVE t[i] < t[j]
  <2>1. i \in 1 .. n
    BY <1>5
  <2>2. CASE j = n + 1
    BY <1>3, <1>4, <2>1, <2>2
  <2>3. CASE j \in 1 .. n
    BY <1>2, <1>3, <1>5, <2>1, <2>3 DEF Increasing
  <2> QED BY <2>2, <2>3
<1>6. Elements(t) = Elements(s) \cup {r}
  <2>1. ASSUME NEW x \in Elements(t) PROVE x \in Elements(s) \cup {r}
    <3>1. PICK i \in 1 .. n + 1 : x = t[i]
      BY <1>3 DEF Elements
    <3>2. i = n + 1 \/ i \in 1 .. n
      OBVIOUS
    <3> QED BY <1>3, <1>4, <3>1, <3>2
  <2>2. ASSUME NEW x \in Elements(s) PROVE x \in Elements(t)
    <3>1. PICK i \in 1 .. n : x = s[i]
      BY <1>2 DEF Elements
    <3>2. i \in 1 .. n + 1 /\ x = t[i]
      BY <1>3, <3>1
    <3> QED BY <1>3, <3>2 DEF Elements
  <2>3. r \in Elements(t)
    BY <1>3 DEF Elements
  <2> QED BY <2>1, <2>2, <2>3
<1> QED BY <1>1, <1>3, <1>5, <1>6 DEF Increasing

LEMMA ConcatIncreases ==
    ASSUME NEW a \in Seq(Records), NEW b \in Seq(Records),
           Increasing(a), Increasing(b), Precedes(a, b)
    PROVE  /\ a \o b \in Seq(Records) /\ Increasing(a \o b)
           /\ Elements(a \o b) = Elements(a) \cup Elements(b)
<1>1. PICK t : t = a \o b
  OBVIOUS
<1>2. PICK m \in Nat, n \in Nat : m = Len(a) /\ n = Len(b) /\ DOMAIN a = 1 .. m /\ DOMAIN b = 1 .. n
  BY ElementsRecords
<1>3. /\ t \in Seq(Records) /\ DOMAIN t = 1 .. m + n
      /\ \A i \in 1 .. m + n : t[i] = IF i <= m THEN a[i] ELSE b[i - m]
  <2>1. /\ a \o b \in Seq(Records) /\ Len(a \o b) = Len(a) + Len(b)
        /\ \A i \in 1 .. Len(a) + Len(b) : (a \o b)[i] = IF i <= Len(a) THEN a[i] ELSE b[i - Len(a)]
    BY ConcatProperties
  <2> QED BY <1>1, <1>2, <2>1, ElementsRecords
<1>4. /\ \A i \in 1 .. m : a[i] \in Elements(a)
      /\ \A i \in 1 .. n : b[i] \in Elements(b)
  BY <1>2 DEF Elements
<1>5. ASSUME NEW i \in 1 .. m + n, NEW j \in 1 .. m + n, i < j PROVE t[i] < t[j]
  <2>1. CASE j <= m
    <3>1. i \in 1 .. m /\ j \in 1 .. m /\ i <= m
      BY <1>5, <2>1
    <3>2. t[i] = a[i] /\ t[j] = a[j]
      BY <1>3, <2>1, <3>1
    <3>3. a[i] < a[j]
      BY <1>2, <1>5, <3>1 DEF Increasing
    <3> QED BY <3>2, <3>3
  <2>2. CASE i <= m /\ ~ (j <= m)
    <3>1. i \in 1 .. m /\ j - m \in 1 .. n
      BY <2>2
    <3> QED BY <1>3, <1>4, <2>2, <3>1 DEF Precedes
  <2>3. CASE ~ (i <= m)
    <3>1. i - m \in 1 .. n /\ j - m \in 1 .. n /\ i - m < j - m /\ ~ (j <= m)
      BY <1>5, <2>3
    <3> QED BY <1>2, <1>3, <2>3, <3>1 DEF Increasing
  <2> QED BY <1>5, <2>1, <2>2, <2>3
<1>6. Elements(t) = Elements(a) \cup Elements(b)
  <2>1. ASSUME NEW x \in Elements(t) PROVE x \in Elements(a) \cup Elements(b)
    <3>1. PICK i \in 1 .. m + n : x = t[i]
      BY <1>3 DEF Elements
    <3>2. i \in 1 .. m \/ (~ (i <= m) /\ i - m \in 1 .. n)
      OBVIOUS
    <3> QED BY <1>3, <1>4, <3>1, <3>2
  <2>2. ASSUME NEW x \in Elements(a) PROVE x \in Elements(t)
    <3>1. PICK i \in 1 .. m : x = a[i]
      BY <1>2 DEF Elements
    <3>2. i \in 1 .. m + n /\ i <= m
      OBVIOUS
    <3>3. x = t[i]
      BY <1>3, <3>1, <3>2
    <3> QED BY <1>3, <3>2, <3>3 DEF Elements
  <2>3. ASSUME NEW x \in Elements(b) PROVE x \in Elements(t)
    <3>1. PICK i \in 1 .. n : x = b[i]
      BY <1>2 DEF Elements
    <3>2. m + i \in 1 .. m + n /\ ~ (m + i <= m) /\ (m + i) - m = i
      OBVIOUS
    <3>3. x = t[m + i]
      BY <1>3, <3>1, <3>2
    <3> QED BY <1>3, <3>2, <3>3 DEF Elements
  <2> QED BY <2>1, <2>2, <2>3
<1> QED BY <1>1, <1>3, <1>5, <1>6 DEF Increasing

\* What a flush appends, record by record.
Filters(f, s, old) ==
    /\ f \in [0 .. Len(s) -> Seq(Records)] /\ f[0] = <<>>
    /\ \A i \in 1 .. Len(s) : f[i] = IF s[i] \in old THEN f[i - 1] ELSE Append(f[i - 1], s[i])

LEMMA FreshUnfolds ==
    ASSUME NEW s \in Seq(Records), NEW old
    PROVE  \E f : Filters(f, s, old) /\ Fresh(s, old) = f[Len(s)]
<1> DEFINE All == CHOOSE f : f = [i \in 0 .. Len(s) |->
                      IF i = 0 THEN <<>>
                      ELSE IF s[i] \in old THEN f[i - 1] ELSE Append(f[i - 1], s[i])]
<1>1. PICK n \in Nat : n = Len(s)
  OBVIOUS
<1>2. \A i \in 1 .. n : s[i] \in Records
  BY <1>1, ElementOfSeq
<1>3. PICK step, S, base :
          /\ S = Seq(Records) /\ base = <<>>
          /\ step = [i \in 1 .. n |-> [x \in Seq(Records) |-> IF s[i] \in old THEN x ELSE Append(x, s[i])]]
  OBVIOUS
<1>4. base \in S /\ IsStep(step, n, S)
  <2>1. ASSUME NEW i \in 1 .. n, NEW x \in Seq(Records) PROVE step[i][x] \in Seq(Records)
    <3>1. step[i][x] = IF s[i] \in old THEN x ELSE Append(x, s[i])
      BY <1>3
    <3>2. Append(x, s[i]) \in Seq(Records)
      BY <1>2, AppendProperties
    <3> QED BY <3>1, <3>2
  <2>2. base \in S
    BY <1>3, EmptySeq
  <2> QED BY <1>3, <2>1, <2>2 DEF IsStep
<1>5. PICK f : IsRecursive(f, n, S, base, step)
  BY <1>4, RecursionExists
<1>6. f \in [0 .. n -> Seq(Records)] /\ f[0] = <<>> /\ \A i \in 1 .. n : f[i] = step[i][f[i - 1]]
  BY <1>3, <1>5 DEF IsRecursive
<1>7. \A i \in 1 .. n : f[i] = IF s[i] \in old THEN f[i - 1] ELSE Append(f[i - 1], s[i])
  <2>1. ASSUME NEW i \in 1 .. n PROVE f[i] = IF s[i] \in old THEN f[i - 1] ELSE Append(f[i - 1], s[i])
    <3>1. f[i - 1] \in Seq(Records)
      BY <1>6
    <3>2. step[i][f[i - 1]] = IF s[i] \in old THEN f[i - 1] ELSE Append(f[i - 1], s[i])
      BY <1>3, <3>1
    <3> QED BY <1>6, <3>2
  <2> QED BY <2>1
<1>8. f = [i \in 0 .. Len(s) |->
              IF i = 0 THEN <<>> ELSE IF s[i] \in old THEN f[i - 1] ELSE Append(f[i - 1], s[i])]
  <2>1. f = [i \in 0 .. n |-> f[i]]
    BY <1>6
  <2>2. ASSUME NEW i \in 0 .. n
        PROVE  f[i] = IF i = 0 THEN <<>> ELSE IF s[i] \in old THEN f[i - 1] ELSE Append(f[i - 1], s[i])
    <3>1. CASE i = 0
      BY <1>6, <3>1
    <3>2. CASE i \in 1 .. n
      <4>1. f[i] = IF s[i] \in old THEN f[i - 1] ELSE Append(f[i - 1], s[i])
        BY <1>7, <3>2
      <4>2. i # 0
        BY <3>2
      <4> QED BY <4>1, <4>2, Zenon
    <3>3. i = 0 \/ i \in 1 .. n
      BY SMTT(30)
    <3> QED BY <3>1, <3>2, <3>3
  <2> QED BY <1>1, <2>1, <2>2
<1>9. All = [i \in 0 .. Len(s) |->
              IF i = 0 THEN <<>> ELSE IF s[i] \in old THEN All[i - 1] ELSE Append(All[i - 1], s[i])]
  <2>1. \E g : g = [i \in 0 .. Len(s) |->
              IF i = 0 THEN <<>> ELSE IF s[i] \in old THEN g[i - 1] ELSE Append(g[i - 1], s[i])]
    BY <1>8
  <2> QED BY <2>1
<1>10. Fresh(s, old) = All[Len(s)]
  BY DEF Fresh
<1> HIDE DEF All
<1>11. /\ All[0] = <<>>
       /\ \A i \in 1 .. n : All[i] = IF s[i] \in old THEN All[i - 1] ELSE Append(All[i - 1], s[i])
  <2>1. ASSUME NEW i \in 1 .. n
        PROVE  All[i] = IF s[i] \in old THEN All[i - 1] ELSE Append(All[i - 1], s[i])
    <3>1. i \in 0 .. Len(s) /\ i # 0
      BY <1>1
    <3> QED BY <1>9, <3>1, Zenon
  <2>2. 0 \in 0 .. Len(s)
    BY <1>1
  <2>3. All[0] = <<>>
    BY <1>9, <2>2, Zenon
  <2> QED BY <2>1, <2>3
<1>12. PICK T : T = {i \in 0 .. n : All[i] \in Seq(Records)}
  OBVIOUS
<1>13. 0 \in T
  <2>1. 0 \in 0 .. n /\ All[0] \in Seq(Records)
    BY <1>11, EmptySeq
  <2> QED BY <1>12, <2>1
<1>14. ASSUME NEW i \in 0 .. n - 1, i \in T PROVE i + 1 \in T
  <2>1. i + 1 \in 1 .. n /\ i + 1 \in 0 .. n /\ All[i] \in Seq(Records)
    BY <1>12, <1>14
  <2>2. Append(All[i], s[i + 1]) \in Seq(Records)
    BY <1>2, <2>1, AppendProperties
  <2>3. All[i + 1] = IF s[i + 1] \in old THEN All[i] ELSE Append(All[i], s[i + 1])
    BY <1>11, <2>1
  <2>4. All[i + 1] \in Seq(Records)
    BY <2>1, <2>2, <2>3
  <2> QED BY <1>12, <2>1, <2>4
<1>15. \A i \in 0 .. n : i \in T
  BY <1>13, <1>14, InductionUpTo
<1>16. All = [i \in 0 .. n |-> All[i]]
  BY <1>1, <1>9
<1>17. All \in [0 .. n -> Seq(Records)]
  BY <1>12, <1>15, <1>16
<1>18. Filters(All, s, old)
  BY <1>1, <1>11, <1>17 DEF Filters
<1> QED BY <1>10, <1>18

LEMMA FreshIncreases ==
    ASSUME NEW s \in Seq(Records), NEW old, Increasing(s)
    PROVE  /\ Fresh(s, old) \in Seq(Records) /\ Increasing(Fresh(s, old))
           /\ Elements(Fresh(s, old)) = Elements(s) \ old
<1>1. PICK n \in Nat : n = Len(s) /\ DOMAIN s = 1 .. n
  BY ElementsRecords
<1>2. PICK f : Filters(f, s, old) /\ Fresh(s, old) = f[n]
  BY <1>1, FreshUnfolds
<1>3. /\ f \in [0 .. n -> Seq(Records)] /\ f[0] = <<>>
      /\ \A i \in 1 .. n : f[i] = IF s[i] \in old THEN f[i - 1] ELSE Append(f[i - 1], s[i])
  BY <1>1, <1>2 DEF Filters
<1>4. PICK T : T = {i \in 0 .. n : Increasing(f[i]) /\ Elements(f[i]) = {s[j] : j \in 1 .. i} \ old}
  OBVIOUS
<1>5. 0 \in T
  <2>1. Increasing(f[0]) /\ Elements(f[0]) = {}
    BY <1>3, EmptyIncreases
  <2>2. {s[j] : j \in 1 .. 0} = {}
    OBVIOUS
  <2> QED BY <1>4, <2>1, <2>2
<1>6. ASSUME NEW i \in 0 .. n - 1, i \in T PROVE i + 1 \in T
  <2>1. i + 1 \in 1 .. n /\ i + 1 \in 0 .. n /\ (i + 1) - 1 = i /\ i \in 0 .. n
    OBVIOUS
  <2>2. PICK t, r : t = f[i] /\ r = s[i + 1]
    OBVIOUS
  <2>3. t \in Seq(Records) /\ Increasing(t) /\ Elements(t) = {s[j] : j \in 1 .. i} \ old
    BY <1>3, <1>4, <1>6, <2>1, <2>2
  <2>4. r \in Records
    BY <1>1, <2>1, <2>2, ElementOfSeq
  <2>5. {s[j] : j \in 1 .. i + 1} = {s[j] : j \in 1 .. i} \cup {r}
    <3>1. \A j \in 1 .. i + 1 : j \in 1 .. i \/ j = i + 1
      OBVIOUS
    <3>2. \A j \in 1 .. i : j \in 1 .. i + 1
      OBVIOUS
    <3> QED BY <2>2, <3>1, <3>2
  <2>6. f[i + 1] = IF r \in old THEN t ELSE Append(t, r)
    BY <1>3, <2>1, <2>2
  <2>7. CASE r \in old
    BY <1>4, <2>1, <2>3, <2>5, <2>6, <2>7
  <2>8. CASE r \notin old
    <3>1. ASSUME NEW x \in Elements(t) PROVE x < r
      <4>1. PICK j \in 1 .. i : x = s[j]
        BY <2>3
      <4>2. j \in DOMAIN s /\ i + 1 \in DOMAIN s /\ j < i + 1
        BY <1>1
      <4> QED BY <2>2, <4>1, <4>2 DEF Increasing
    <3>2. Increasing(Append(t, r)) /\ Elements(Append(t, r)) = Elements(t) \cup {r}
      BY <2>3, <2>4, <3>1, AppendIncreases
    <3> QED BY <1>4, <2>1, <2>3, <2>5, <2>6, <2>8, <3>2
  <2> QED BY <2>7, <2>8
<1>7. n \in T
  <2>1. \A i \in 0 .. n : i \in T
    BY <1>5, <1>6, InductionUpTo
  <2> QED BY <2>1
<1>8. {s[j] : j \in 1 .. n} = Elements(s)
  BY <1>1 DEF Elements
<1> QED BY <1>1, <1>2, <1>3, <1>4, <1>7, <1>8

-------------------------------------------------------------------------------
(* What the files contain                                                  *)

LogOrder == IF file \in DOMAIN logs THEN logs[file].order ELSE <<>>

OrdersInv ==
    \A n \in DOMAIN logs : Increasing(logs[n].order) /\ Elements(logs[n].order) \subseteq 1 .. records

\* The cache of an open logger continues its log: it is increasing, and what
\* the log does not have of it is newer than all that the log has.
CacheInv ==
    curLen > 0 =>
        /\ ready
        /\ Increasing(caches[file]) /\ Elements(caches[file]) \subseteq 1 .. records
        /\ \A x \in Elements(LogOrder), y \in Elements(caches[file]) \ Elements(LogOrder) : x < y

\* A cache that counts as empty is empty: what an opening found in it, it
\* truncated.  A name that was not given yet has no cache.
OpenedInv ==
    /\ ready /\ curLen = 0 => caches[file] = <<>>
    /\ DOMAIN caches \subseteq 1 .. names

ContentsInv == TypeOK /\ OnlyFile /\ OrdersInv /\ CacheInv /\ OpenedInv

LogRecord == [order : Seq(Records), twice : SUBSET Records]

\* What a flush does to the log files.
Flushed ==
    /\ file \in DOMAIN logs'
    /\ Elements(caches[file]) \subseteq Elements(logs'[file].order)
Grown ==
    /\ DOMAIN logs' \subseteq Names \cap {file} /\ DOMAIN logs \subseteq DOMAIN logs'
    /\ \A n \in DOMAIN logs' : /\ logs'[n] \in LogRecord
                               /\ Increasing(logs'[n].order)
                               /\ Elements(logs'[n].order) \subseteq 1 .. records
    /\ \A n \in DOMAIN logs : Elements(logs[n].order) \subseteq Elements(logs'[n].order)
    /\ logs' = logs \/ Flushed

LEMMA LogsKept ==
    ASSUME ContentsInv, logs' = logs
    PROVE  Grown
  BY DEF ContentsInv, TypeOK, OnlyFile, OrdersInv, Grown, LogRecord

LEMMA FlushGrows ==
    ASSUME ContentsInv, NEW ok, flushCacheFile(ok)
    PROVE  Grown /\ (ok /\ curLen > 0 => Flushed)
<1>1. CASE ~ (curLen > 0 /\ ok)
  BY <1>1, LogsKept DEF flushCacheFile
<1>2. CASE curLen > 0 /\ ok
  <2>1. PICK s, old : s = caches[file] /\ old = LogOrder
    OBVIOUS
  <2>2. PICK tw : tw = (IF file \in DOMAIN logs THEN logs[file].twice ELSE {})
    OBVIOUS
  <2>3. PICK f : f = Fresh(s, Elements(old))
    OBVIOUS
  <2>4. logs' = [n \in DOMAIN logs \cup {file} |->
                    IF n = file
                    THEN [order |-> old \o f, twice |-> tw \cup (Elements(s) \cap Elements(old))]
                    ELSE logs[n]]
    <3>1. logs' = Appended(s)
      BY <1>2, <2>1 DEF flushCacheFile
    <3> QED BY <2>1, <2>2, <2>3, <3>1 DEF Appended, LogOrder
  <2>5. /\ ready /\ file \in Names /\ s \in Seq(Records)
        /\ Increasing(s) /\ Elements(s) \subseteq 1 .. records
    BY <1>2, <2>1 DEF ContentsInv, TypeOK, CacheInv
  <2>6. old \in Seq(Records) /\ Increasing(old) /\ Elements(old) \subseteq 1 .. records
    BY <2>1, EmptyIncreases DEF ContentsInv, TypeOK, OrdersInv, LogOrder
  <2>7. f \in Seq(Records) /\ Increasing(f) /\ Elements(f) = Elements(s) \ Elements(old)
    BY <2>3, <2>5, FreshIncreases
  <2>8. Precedes(old, f)
    BY <1>2, <2>1, <2>7 DEF ContentsInv, CacheInv, Precedes
  <2>9. PICK new : new = old \o f
    OBVIOUS
  <2>10. /\ new \in Seq(Records) /\ Increasing(new)
         /\ Elements(new) = Elements(old) \cup Elements(f)
    BY <2>6, <2>7, <2>8, <2>9, ConcatIncreases
  <2>11. tw \cup (Elements(s) \cap Elements(old)) \in SUBSET Records
    <3>1. tw \subseteq Records
      BY <2>2 DEF ContentsInv, TypeOK
    <3>2. Elements(s) \subseteq Records
      BY <2>5, ElementsRecords
    <3> QED BY <3>1, <3>2
  <2>12. /\ DOMAIN logs' = DOMAIN logs \cup {file} /\ logs'[file] \in LogRecord
         /\ logs'[file].order = new
    BY <2>4, <2>9, <2>10, <2>11 DEF LogRecord
  <2>13. Flushed
    BY <2>1, <2>7, <2>10, <2>12 DEF Flushed
  <2>14. DOMAIN logs' = {file}
    BY <2>12 DEF ContentsInv, OnlyFile
  <2>15. \A n \in DOMAIN logs : Elements(logs[n].order) \subseteq Elements(logs'[n].order)
    <3>1. \A n \in DOMAIN logs : n = file /\ logs[n].order = old
      BY <2>1 DEF ContentsInv, OnlyFile, LogOrder
    <3> QED BY <2>10, <2>12, <3>1
  <2>16. Elements(new) \subseteq 1 .. records
    BY <2>5, <2>6, <2>7, <2>10
  <2> QED BY <2>5, <2>10, <2>12, <2>13, <2>14, <2>15, <2>16 DEF Grown
<1> QED BY <1>1, <1>2

\* Flush, the timer and close: only the log may change, and the logger may be
\* closed.
LEMMA FlushStep ==
    ASSUME ContentsInv, NEW ok \in Opens, flushCacheFile(ok),
           UNCHANGED <<caches, file, names, inits, records, rotated, mayFail>>,
           \/ UNCHANGED <<ready, curLen>>
           \/ ready' = FALSE /\ curLen' = 0,
           up' \in BOOLEAN, started' \in BOOLEAN, timer' \in BOOLEAN
    PROVE  ContentsInv' /\ LostOnlyThere
<1>1. Grown
  BY FlushGrows
<1>2. TypeOK'
  <2>1. TypeOK
    BY DEF ContentsInv
  <2>2. /\ DOMAIN logs' \subseteq Names
        /\ \A n \in DOMAIN logs' : logs'[n] \in [order : Seq(Records), twice : SUBSET Records]
    BY <1>1 DEF Grown, LogRecord
  <2>3. curLen' \in Nat
    BY <2>1 DEF TypeOK
  <2>4. file' = file /\ caches' = caches
    OBVIOUS
  <2>5. ready' \in BOOLEAN /\ (ready' => file' \in DOMAIN caches')
    <3>1. CASE ready' = FALSE
      BY <3>1, Zenon
    <3>2. CASE ready' = ready
      BY <2>1, <2>4, <3>2, Zenon DEF TypeOK
    <3> QED BY <3>1, <3>2
  <2> QED BY <2>1, <2>2, <2>3, <2>5 DEF TypeOK
<1>3. OnlyFile' /\ OrdersInv'
  BY <1>1 DEF Grown, OnlyFile, OrdersInv
<1>4. CacheInv'
  <2>1. CASE logs' = logs
    BY <2>1 DEF ContentsInv, CacheInv, LogOrder
  <2>2. CASE Flushed
    <3>1. Elements(caches'[file']) \ Elements(LogOrder') = {}
      BY <2>2 DEF Flushed, LogOrder
    <3>2. curLen' > 0 => /\ ready'
                         /\ Increasing(caches'[file']) /\ Elements(caches'[file']) \subseteq 1 .. records'
      BY DEF ContentsInv, CacheInv
    <3> QED BY <3>1, <3>2 DEF CacheInv
  <2> QED BY <1>1, <2>1, <2>2 DEF Grown
<1>5. OpenedInv'
  BY DEF ContentsInv, OpenedInv
<1>6. LostOnlyThere
  <2>1. ASSUME NEW r \in 1 .. records, Kept(r) PROVE Kept(r)'
    BY <1>1, <2>1 DEF Kept, OnDisk, InCache, Grown
  <2>2. \A r \in 1 .. records : r <= records /\ ~ (r > records)
    BY LoggerAssumption DEF ContentsInv, TypeOK
  <2> QED BY <2>1, <2>2 DEF LostOnlyThere
<1> QED BY <1>2, <1>3, <1>4, <1>5, <1>6 DEF ContentsInv

\* The two ways to put a record into the cache.
LEMMA WrittenCache ==
    ASSUME ContentsInv, NEW r, r = records + 1, r \in Records, ready, Grown,
           \/ caches' = CacheOnly(r)
           \/ caches' = CachePlus(r) /\ curLen > 0 /\ logs' = logs
    PROVE  /\ DOMAIN caches' = DOMAIN caches
           /\ \A n \in DOMAIN caches : caches'[n] \in Seq(Records) /\ (n # file => caches'[n] = caches[n])
           /\ Increasing(caches'[file]) /\ Elements(caches'[file]) \subseteq 1 .. r
           /\ r \in Elements(caches'[file])
           /\ \A x \in 1 .. records, y \in Elements(caches'[file]) :
                 x < y \/ (logs' = logs /\ curLen > 0 /\ y \in Elements(caches[file]))
<1>1. file \in DOMAIN caches /\ \A n \in DOMAIN caches : caches[n] \in Seq(Records)
  BY DEF ContentsInv, TypeOK
<1>2. records \in Nat
  BY LoggerAssumption DEF ContentsInv, TypeOK
<1>3. CASE caches' = CacheOnly(r)
  <2>1. caches'[file] = <<r>> /\ DOMAIN caches' = DOMAIN caches
        /\ \A n \in DOMAIN caches : n # file => caches'[n] = caches[n]
    BY <1>1, <1>3 DEF CacheOnly
  <2>2. <<r>> \in Seq(Records) /\ Increasing(<<r>>) /\ Elements(<<r>>) = {r}
    BY DEF Increasing, Elements
  <2>3. r \in 1 .. r /\ \A x \in 1 .. records : x < r
    BY <1>2
  <2> QED BY <1>1, <2>1, <2>2, <2>3
<1>4. CASE caches' = CachePlus(r) /\ curLen > 0 /\ logs' = logs
  <2>1. PICK s : s = caches[file]
    OBVIOUS
  <2>2. caches'[file] = Append(s, r) /\ DOMAIN caches' = DOMAIN caches
        /\ \A n \in DOMAIN caches : n # file => caches'[n] = caches[n]
    BY <1>1, <1>4, <2>1 DEF CachePlus
  <2>3. s \in Seq(Records) /\ Increasing(s) /\ Elements(s) \subseteq 1 .. records
    BY <1>1, <1>4, <2>1 DEF ContentsInv, CacheInv
  <2>4. \A x \in 1 .. records : x < r /\ x \in 1 .. r
    BY <1>2
  <2>5. /\ Append(s, r) \in Seq(Records) /\ Increasing(Append(s, r))
        /\ Elements(Append(s, r)) = Elements(s) \cup {r}
    BY <2>3, <2>4, AppendIncreases
  <2>6. r \in 1 .. r
    BY <1>2
  <2> QED BY <1>1, <1>4, <2>1, <2>2, <2>3, <2>4, <2>5, <2>6
<1> QED BY <1>3, <1>4

LEMMA WriteLogStep ==
    ASSUME ContentsInv, NEW len \in Sizes, WriteLog(len)
    PROVE  ContentsInv' /\ LostOnlyThere
<1>1. PICK r : r = records + 1
  OBVIOUS
<1>2. PICK ok \in Opens : write(r, len, ok)
  BY <1>1 DEF WriteLog
<1>3. /\ up /\ ready /\ records < MaxRecords /\ records' = r
      /\ UNCHANGED <<up, ready, started, timer, file, names, inits, rotated, mayFail>>
  BY <1>1 DEF WriteLog
<1>4. /\ records \in Nat /\ r \in Records /\ r \in 0 .. MaxRecords
      /\ curLen \in Nat /\ len \in Nat \ {0} /\ file \in DOMAIN caches
  BY <1>1, <1>3, LoggerAssumption DEF ContentsInv, TypeOK, Records
\* A cache that is not flushed and not kept is empty, or the file did not open.
<1>5. /\ Grown /\ curLen' \in Nat /\ curLen' > 0
      /\ \/ caches' = CacheOnly(r) /\ (curLen = 0 \/ (~ ok /\ logs' = logs) \/ Flushed)
         \/ caches' = CachePlus(r) /\ curLen > 0 /\ logs' = logs
  <2>1. CASE NoRoom(len)
    <3>1. flushCacheFile(ok) /\ caches' = CacheOnly(r) /\ curLen' = len
      BY <1>2, <2>1 DEF write
    <3>2. Grown /\ (ok /\ curLen > 0 => Flushed) /\ (~ ok => logs' = logs)
      BY <3>1, FlushGrows DEF flushCacheFile
    <3> QED BY <1>4, <3>1, <3>2
  <2>2. CASE ~ NoRoom(len)
    <3>1. /\ caches' = (IF curLen = 0 THEN CacheOnly(r) ELSE CachePlus(r))
          /\ curLen' = curLen + len /\ logs' = logs
      BY <1>2, <2>2 DEF write
    <3>2. Grown
      BY <3>1, LogsKept
    <3> QED BY <1>4, <3>1, <3>2
  <2> QED BY <2>1, <2>2
<1>6. /\ DOMAIN caches' = DOMAIN caches
      /\ \A n \in DOMAIN caches : caches'[n] \in Seq(Records) /\ (n # file => caches'[n] = caches[n])
      /\ Increasing(caches'[file]) /\ Elements(caches'[file]) \subseteq 1 .. r
      /\ r \in Elements(caches'[file])
      /\ \A x \in 1 .. records, y \in Elements(caches'[file]) :
            x < y \/ (logs' = logs /\ curLen > 0 /\ y \in Elements(caches[file]))
  <2>1. \/ caches' = CacheOnly(r)
        \/ caches' = CachePlus(r) /\ curLen > 0 /\ logs' = logs
    BY <1>5
  <2> QED BY <1>1, <1>3, <1>4, <1>5, <2>1, WrittenCache
<1>7. TypeOK'
  <2>1. TypeOK
    BY DEF ContentsInv
  <2>2. /\ DOMAIN logs' \subseteq Names
        /\ \A n \in DOMAIN logs' : logs'[n] \in [order : Seq(Records), twice : SUBSET Records]
    BY <1>5 DEF Grown, LogRecord
  <2> QED BY <1>3, <1>4, <1>5, <1>6, <2>1, <2>2 DEF TypeOK
<1>8. \A x \in 1 .. records : x \in 1 .. r
  BY <1>1, <1>4
<1>9. OnlyFile' /\ OrdersInv'
  BY <1>3, <1>5, <1>8 DEF Grown, OnlyFile, OrdersInv
<1>10. CacheInv'
  <2>1. Elements(LogOrder') \subseteq 1 .. records
    BY <1>3, <1>5, EmptyIncreases DEF Grown, LogOrder
  <2>2. ASSUME NEW x \in Elements(LogOrder'), NEW y \in Elements(caches'[file]) \ Elements(LogOrder')
        PROVE  x < y
    <3>1. CASE x < y
      BY <3>1
    <3>2. CASE logs' = logs /\ curLen > 0 /\ y \in Elements(caches[file])
      <4>1. LogOrder' = LogOrder
        BY <1>3, <3>2 DEF LogOrder
      <4> QED BY <2>2, <3>2, <4>1 DEF ContentsInv, CacheInv
    <3> QED BY <1>6, <2>1, <2>2, <3>1, <3>2
  <2> QED BY <1>3, <1>6, <2>2 DEF CacheInv
<1>11. OpenedInv'
  BY <1>3, <1>4, <1>5, <1>6 DEF ContentsInv, OpenedInv
<1>12. LostOnlyThere
  <2>1. SUFFICES ASSUME NEW q \in 1 .. r, q > records \/ Kept(q)
                 PROVE  Kept(q)' \/ (q <= records /\ Unflushed(q) /\ CacheDropped)
    BY <1>3 DEF LostOnlyThere
  <2>2. ~ ok => mayFail
    BY <1>2 DEF Opens
  <2>3. CASE q = r
    BY <1>3, <1>4, <1>6, <2>3 DEF Kept, InCache
  <2>4. CASE q \in 1 .. records
    <3>1. Kept(q) /\ q <= records
      BY <1>4, <2>1, <2>4
    <3>2. CASE OnDisk(q)
      BY <1>5, <3>2 DEF Kept, OnDisk, Grown
    <3>3. CASE q \in rotated
      BY <1>3, <3>3 DEF Kept
    <3>4. CASE InCache(q) /\ ~ OnDisk(q) /\ q \notin rotated
      <4>1. PICK n \in DOMAIN caches : q \in Elements(caches[n])
        BY <3>4 DEF InCache
      <4>2. CASE n # file
        BY <1>6, <4>1, <4>2 DEF Kept, InCache
      <4>3. CASE n = file
        <5>1. CASE caches' = CachePlus(r) /\ curLen > 0
          <6>1. PICK s : s = caches[file] /\ caches'[file] = Append(s, r)
            BY <1>4, <5>1 DEF CachePlus
          <6>2. PICK i \in DOMAIN s : q = s[i]
            BY <4>1, <4>3, <6>1 DEF Elements
          <6>3. s \in Seq(Records)
            BY <1>4, <6>1 DEF ContentsInv, TypeOK
          <6>4. i \in DOMAIN Append(s, r) /\ Append(s, r)[i] = q
            BY <6>2, <6>3
          <6>5. q \in Elements(caches'[file])
            BY <6>1, <6>4 DEF Elements
          <6> QED BY <1>4, <1>6, <6>5 DEF Kept, InCache
        <5>2. CASE curLen = 0
          <6>1. caches[file] = <<>>
            BY <1>3, <5>2 DEF ContentsInv, OpenedInv
          <6> QED BY <4>1, <4>3, <6>1, EmptyIncreases
        <5>3. CASE Flushed
          BY <4>1, <4>3, <5>3 DEF Flushed, Kept, OnDisk
        <5>4. CASE ~ ok /\ logs' = logs /\ caches' = CacheOnly(r)
          <6>1. Unflushed(q)
            BY <1>4, <3>4, <4>1, <4>3 DEF Unflushed
          <6>2. CacheDropped
            BY <1>1, <1>3, <1>4, <2>2, <5>4 DEF CacheDropped
          <6> QED BY <3>1, <6>1, <6>2
        <5> QED BY <1>5, <5>1, <5>2, <5>3, <5>4
      <4> QED BY <4>2, <4>3
    <3> QED BY <3>1, <3>2, <3>3, <3>4 DEF Kept
  <2> QED BY <1>1, <1>4, <2>3, <2>4
<1> QED BY <1>7, <1>9, <1>10, <1>11, <1>12 DEF ContentsInv

\* What init does to the directory: the log stays or is deleted with the other
\* logs there are, and no cache is left with records it did not have.
LEMMA InitCallFiles ==
    ASSUME ContentsInv, NEW c \in initFileLogger, c.names <= MaxFiles
    PROVE  /\ c.file \in Names /\ c.file \in 0 .. c.names /\ c.names \in 0 .. MaxFiles
           /\ c.rotated \subseteq Records
           /\ (c.logs = logs /\ DOMAIN logs \subseteq {c.file}) \/ DOMAIN c.logs = {}
           /\ DOMAIN c.caches \subseteq Names
           /\ \A n \in DOMAIN c.caches : c.caches[n] \in Seq(Records)
           /\ c.file \in 1 .. c.names /\ DOMAIN c.caches \subseteq 1 .. c.names
           /\ c.file = file \/ c.file \notin DOMAIN caches
           /\ \A n \in DOMAIN caches \ {file} : n \in DOMAIN c.caches /\ c.caches[n] = caches[n]
           /\ rotated \subseteq c.rotated
           /\ c.logs = logs \/ \A n \in DOMAIN logs : Elements(logs[n].order) \subseteq c.rotated
<1>1. names \in Nat /\ file \in 0 .. names /\ DOMAIN logs \subseteq Names /\ DOMAIN logs \subseteq {file}
      /\ names \in 0 .. MaxFiles /\ MaxFiles \in Nat
      /\ DOMAIN caches \subseteq Names /\ (\A n \in DOMAIN caches : caches[n] \in Seq(Records))
      /\ rotated \subseteq Records /\ (\A n \in DOMAIN logs : Elements(logs[n].order) \subseteq Records)
      /\ DOMAIN caches \subseteq 1 .. names
  BY LoggerAssumption, ElementsRecords DEF ContentsInv, TypeOK, OnlyFile, OpenedInv
<1>2. CASE DOMAIN logs = {}
  <2>1. c = NewFile(logs, caches, rotated)
    BY <1>2 DEF initFileLogger
  <2> QED BY <1>1, <1>2, <2>1 DEF NewFile, Names
<1>3. CASE DOMAIN logs # {}
  <2>1. PICK f \in DOMAIN logs : c \in {Reused(f), TooBig(f), TooOld(f)}
    BY <1>3 DEF initFileLogger
  <2>2. f = file /\ DOMAIN logs = {f}
    BY <1>1
  <2>3. CASE c = Reused(f)
    <3>1. /\ c.file = f /\ c.names = names /\ c.logs = logs /\ c.caches = caches
          /\ c.rotated = rotated
      BY <2>3 DEF Reused
    <3>2. f \in Names /\ f \in 1 .. names
      BY <1>1, <2>2 DEF Names
    <3> QED BY <1>1, <2>2, <3>1, <3>2
  <2>4. DOMAIN Without(logs, f) = {} /\ DOMAIN Without(caches, f) \subseteq DOMAIN caches
        /\ (\A n \in DOMAIN Without(caches, f) : Without(caches, f)[n] = caches[n])
        /\ DOMAIN caches \ {f} \subseteq DOMAIN Without(caches, f)
    BY <2>2 DEF Without
  <2>5. CASE c = TooBig(f) \/ c = TooOld(f)
    <3>1. /\ c.file = names + 1 /\ c.names = names + 1 /\ c.logs = Without(logs, f)
          /\ c.rotated = rotated \cup Elements(logs[f].order)
          /\ c.caches = caches \/ c.caches = Without(caches, f)
      BY <2>5 DEF TooBig, TooOld, NewFile
    <3>2. names + 1 \in 1 .. names + 1 /\ names + 1 \notin 1 .. names /\ 1 .. names \subseteq 1 .. names + 1
      BY <1>1
    <3> QED BY <1>1, <2>2, <2>4, <3>1, <3>2 DEF Names
  <2> QED BY <2>1, <2>3, <2>5
<1> QED BY <1>2, <1>3

LEMMA InitCallStep ==
    ASSUME ContentsInv, InitCall
    PROVE  ContentsInv' /\ LostOnlyThere
<1>1. PICK c \in initFileLogger :
          /\ c.names <= MaxFiles
          /\ file' = c.file /\ names' = c.names /\ logs' = c.logs /\ rotated' = c.rotated
          /\ InitFails(c) \/ InitSucceeds(c) \/ InitKills(c)
  BY DEF InitCall
<1>2. /\ c.file \in Names /\ c.file \in 0 .. c.names /\ c.names \in 0 .. MaxFiles
      /\ c.rotated \subseteq Records
      /\ (c.logs = logs /\ DOMAIN logs \subseteq {c.file}) \/ DOMAIN c.logs = {}
      /\ DOMAIN c.caches \subseteq Names
      /\ \A n \in DOMAIN c.caches : c.caches[n] \in Seq(Records)
      /\ c.file \in 1 .. c.names /\ DOMAIN c.caches \subseteq 1 .. c.names
      /\ c.file = file \/ c.file \notin DOMAIN caches
      /\ \A n \in DOMAIN caches \ {file} : n \in DOMAIN c.caches /\ c.caches[n] = caches[n]
      /\ rotated \subseteq c.rotated
      /\ c.logs = logs \/ \A n \in DOMAIN logs : Elements(logs[n].order) \subseteq c.rotated
  BY <1>1, InitCallFiles
<1>3. inits < MaxInits /\ inits' = inits + 1 /\ records' = records /\ mayFail' = mayFail
  BY DEF InitCall
<1>4. /\ DOMAIN Truncated(c) \subseteq Names /\ file' \in DOMAIN Truncated(c)
      /\ \A n \in DOMAIN Truncated(c) : Truncated(c)[n] \in Seq(Records)
      /\ Truncated(c)[file'] = <<>>
  BY <1>1, <1>2, EmptyIncreases DEF Truncated
<1>5. /\ up' \in BOOLEAN /\ started' \in BOOLEAN /\ timer' \in BOOLEAN /\ ready' \in BOOLEAN
      /\ curLen' = 0
  BY <1>1 DEF InitFails, InitSucceeds, InitKills, ProcessEnds, ContentsInv, TypeOK
<1>6. caches' = c.caches \/ caches' = Truncated(c)
  BY <1>1 DEF InitFails, InitSucceeds, InitKills
<1>7. ready' => caches' = Truncated(c)
  BY <1>1 DEF InitFails, InitSucceeds, InitKills, ProcessEnds
<1>8. inits \in Nat /\ inits' \in 0 .. MaxInits
  BY <1>3, LoggerAssumption DEF ContentsInv, TypeOK
<1>9. /\ DOMAIN logs' \subseteq Names
      /\ \A n \in DOMAIN logs' : logs'[n] \in [order : Seq(Records), twice : SUBSET Records]
  BY <1>1, <1>2 DEF ContentsInv, TypeOK
<1>10. TypeOK'
  <2>1. records' \in 0 .. MaxRecords
    BY <1>3 DEF ContentsInv, TypeOK
  <2>2. /\ DOMAIN caches' \subseteq Names /\ \A n \in DOMAIN caches' : caches'[n] \in Seq(Records)
        /\ ready' => file' \in DOMAIN caches'
    BY <1>2, <1>4, <1>6, <1>7
  <2>3. curLen' \in Nat
    BY <1>5
  <2> QED BY <1>1, <1>2, <1>5, <1>8, <1>9, <2>1, <2>2, <2>3, Zenon DEF TypeOK
<1>11. OnlyFile' /\ OrdersInv'
  BY <1>1, <1>2, <1>3 DEF ContentsInv, OnlyFile, OrdersInv
<1>12. CacheInv'
  BY <1>5 DEF CacheInv
<1>13. OpenedInv'
  <2>1. DOMAIN Truncated(c) \subseteq 1 .. c.names
    BY <1>2 DEF Truncated
  <2> QED BY <1>1, <1>2, <1>4, <1>6, <1>7, <2>1 DEF OpenedInv
<1>14. LostOnlyThere
  <2>1. SUFFICES ASSUME NEW q \in 1 .. records, Kept(q) PROVE Kept(q)' \/ Unflushed(q)
    <3>1. inits' # inits /\ \A q \in 1 .. records : q <= records /\ ~ (q > records)
      BY <1>3, <1>8, LoggerAssumption DEF ContentsInv, TypeOK
    <3> QED BY <1>3, <3>1 DEF LostOnlyThere
  <2>2. CASE q \in rotated
    BY <1>1, <1>2, <2>2 DEF Kept
  <2>3. CASE OnDisk(q)
    BY <1>1, <1>2, <2>3 DEF Kept, OnDisk
  <2>4. CASE InCache(q) /\ ~ OnDisk(q) /\ q \notin rotated
    <3>1. PICK n \in DOMAIN caches : q \in Elements(caches[n])
      BY <2>4 DEF InCache
    <3>2. CASE n = file
      BY <2>4, <3>1, <3>2 DEF Unflushed
    <3>3. CASE n # file
      <4>1. n \in DOMAIN c.caches /\ c.caches[n] = caches[n] /\ n # c.file
        BY <1>2, <3>1, <3>3
      <4>2. n \in DOMAIN Truncated(c) /\ Truncated(c)[n] = caches[n]
        BY <4>1 DEF Truncated
      <4> QED BY <1>6, <3>1, <4>1, <4>2 DEF Kept, InCache
    <3> QED BY <3>2, <3>3
  <2> QED BY <2>1, <2>2, <2>3, <2>4 DEF Kept
<1> QED BY <1>10, <1>11, <1>12, <1>13, <1>14 DEF ContentsInv

\* The process ends or starts, or nothing happens: the files stay.
LEMMA ProcessStep ==
    ASSUME ContentsInv, Crash \/ Restart \/ UNCHANGED vars
    PROVE  ContentsInv' /\ LostOnlyThere
<1>1. UNCHANGED <<logs, caches, file, names, inits, records, rotated, mayFail>>
  BY DEF Crash, Restart, vars, process, disk
<1>2. (ready' = FALSE /\ curLen' = 0) \/ UNCHANGED <<ready, curLen>>
  BY DEF Crash, Restart, ProcessEnds, vars, process
<1>3. up' \in BOOLEAN /\ started' \in BOOLEAN /\ timer' \in BOOLEAN
  BY DEF Crash, Restart, ProcessEnds, vars, process, ContentsInv, TypeOK
<1>4. ready' \in BOOLEAN /\ (ready' => ready) /\ curLen' \in Nat
  <2>1. ready \in BOOLEAN /\ curLen \in Nat
    BY DEF ContentsInv, TypeOK
  <2>2. CASE ready' = FALSE /\ curLen' = 0
    <3>1. curLen' \in Nat
      BY <2>2
    <3> QED BY <2>2, <3>1, Zenon
  <2>3. CASE UNCHANGED <<ready, curLen>>
    BY <2>1, <2>3, Zenon
  <2> QED BY <1>2, <2>2, <2>3
<1>5. TypeOK'
  BY <1>1, <1>3, <1>4 DEF ContentsInv, TypeOK
<1>6. OnlyFile' /\ OrdersInv'
  BY <1>1 DEF ContentsInv, OnlyFile, OrdersInv
<1>7. CacheInv'
  <2>1. CASE curLen' = 0
    BY <2>1 DEF CacheInv
  <2>2. CASE UNCHANGED <<ready, curLen>>
    BY <1>1, <2>2 DEF ContentsInv, CacheInv, LogOrder
  <2> QED BY <1>2, <2>1, <2>2
<1>8. OpenedInv'
  BY <1>1, <1>2 DEF ContentsInv, OpenedInv
<1>9. LostOnlyThere
  <2>1. \A r \in 1 .. records : ~ (r > records)
    BY LoggerAssumption DEF ContentsInv, TypeOK
  <2> QED BY <1>1, <2>1 DEF LostOnlyThere, Kept, OnDisk, InCache
<1> QED BY <1>5, <1>6, <1>7, <1>8, <1>9 DEF ContentsInv

LEMMA ContentsInit == ASSUME Init PROVE ContentsInv
<1>1. /\ DOMAIN logs = {} /\ DOMAIN caches = {} /\ records = 0 /\ curLen = 0 /\ ready = FALSE
  BY DEF Init
<1>2. TypeOK
  <2>1. up \in BOOLEAN /\ ready \in BOOLEAN /\ started \in BOOLEAN /\ timer \in BOOLEAN
    BY Zenon DEF Init
  <2>2. curLen \in Nat /\ file \in 0 .. names /\ names \in 0 .. MaxFiles
        /\ inits \in 0 .. MaxInits /\ records \in 0 .. MaxRecords /\ rotated \subseteq Records
    BY LoggerAssumption DEF Init
  <2>3. /\ DOMAIN logs \subseteq Names /\ DOMAIN caches \subseteq Names
        /\ \A n \in DOMAIN logs : logs[n] \in [order : Seq(Records), twice : SUBSET Records]
        /\ \A n \in DOMAIN caches : caches[n] \in Seq(Records)
    BY <1>1
  <2> QED BY <1>1, <2>1, <2>2, <2>3, Zenon DEF TypeOK
<1> QED BY <1>1, <1>2 DEF ContentsInv, OnlyFile, OrdersInv, CacheInv, OpenedInv

LEMMA ContentsNext == ASSUME ContentsInv, [Next]_vars PROVE ContentsInv' /\ LostOnlyThere
<1>1. ASSUME NEW len \in Sizes, WriteLog(len) PROVE ContentsInv' /\ LostOnlyThere
  BY <1>1, WriteLogStep
<1>2. CASE InitCall
  BY <1>2, InitCallStep
<1>3. CASE Crash \/ Restart \/ UNCHANGED vars
  BY <1>3, ProcessStep
<1>4. TypeOK
  BY DEF ContentsInv
<1>5. CASE Flush \/ Close
  <2>1. PICK ok \in Opens : flushCacheFile(ok)
    BY <1>5 DEF Flush, Close
  <2>2. /\ UNCHANGED <<caches, file, names, inits, records, rotated, mayFail>>
        /\ UNCHANGED <<ready, curLen>> \/ (ready' = FALSE /\ curLen' = 0)
        /\ up' \in BOOLEAN /\ started' \in BOOLEAN /\ timer' \in BOOLEAN
    BY <1>4, <1>5 DEF Flush, Close, process, TypeOK
  <2> QED BY <2>1, <2>2, FlushStep
<1>6. CASE TimerFires
  <2>1. /\ UNCHANGED <<caches, file, names, inits, records, rotated, mayFail>>
        /\ UNCHANGED <<ready, curLen>>
        /\ up' \in BOOLEAN /\ started' \in BOOLEAN /\ timer' \in BOOLEAN
    BY <1>4, <1>6 DEF TimerFires, process, TypeOK
  <2>2. CASE ready
    <3>1. PICK ok \in Opens : flushCacheFile(ok)
      BY <1>6, <2>2 DEF TimerFires
    <3> QED BY <2>1, <3>1, FlushStep
  <2>3. CASE ~ ready
    <3>1. UNCHANGED vars
      BY <1>6, <2>3 DEF TimerFires, vars, process, disk
    <3> QED BY <3>1, ProcessStep
  <2> QED BY <2>2, <2>3
<1> QED BY <1>1, <1>2, <1>3, <1>5, <1>6 DEF Next

LEMMA ContentsAlways == Spec => []ContentsInv
<1>1. Init => ContentsInv
  BY ContentsInit
<1>2. ContentsInv /\ [Next]_vars => ContentsInv'
  BY ContentsNext
<1> QED
  BY <1>1, <1>2, PTL DEF Spec

\* The variables have their types; an open logger has the cache file it writes.
THEOREM TypesCorrect == Spec => []TypeOK
<1>1. ContentsInv => TypeOK
  BY DEF ContentsInv
<1> QED
  BY <1>1, ContentsAlways, PTL

\* The first copies of the records that a log file has are in the order they
\* were written, though a flush leaves the cache as it is and the next one
\* writes its records again, though a flush may fail and its records be dropped,
\* and though the process may be killed between any two calls.
THEOREM LogAlwaysInOrder == Spec => []LogInOrder
<1>1. ContentsInv => LogInOrder
  BY DEF ContentsInv, OrdersInv, Increasing, LogInOrder
<1> QED
  BY <1>1, ContentsAlways, PTL

\* A record is lost in two places only: an opening truncates or deletes the
\* cache last in use with what was not flushed of it, or a write starts a full
\* cache again after its flush failed.  Crashes, rotations, flushes and closings
\* keep every record there is, whatever the order of the calls.
THEOREM NothingIsLostElsewhere == Spec => NothingLostElsewhere
<1>1. ContentsInv /\ [Next]_vars => [LostOnlyThere]_vars
  BY ContentsNext
<1> QED
  BY <1>1, ContentsAlways, PTL DEF Spec, NothingLostElsewhere
===============================================================================
