------------------------------ MODULE FileLogger ------------------------------
(***************************************************************************)
(* The app's file logger: the Java singleton NativeFileLogger, the native  *)
(* FileLogger it drives and the two files of each: NAME.log, opened and    *)
(* appended to at every flush, and NAME.cache, mapped shared, that holds   *)
(* the records since the cache was last reset and survives the process.    *)
(*                                                                         *)
(* Every method of the singleton is synchronized, so a call is one step.   *)
(* Records are numbered in the order their calls are served.  A log file   *)
(* is what the properties tell apart of it: the records in the order of    *)
(* their first copies, and the records that have a second copy.            *)
(***************************************************************************)
EXTENDS Integers, Sequences, FiniteSets

CONSTANTS
    CacheSize,   \* mmap_size
    Sizes,       \* lengths that a formatted record may have
    MaxRecords,  \* bounds: records written, log files named, calls of init
    MaxFiles,
    MaxInits

ASSUME LoggerAssumption ==
    /\ CacheSize \in Nat \ {0}
    /\ Sizes \subseteq Nat \ {0}
    /\ MaxRecords \in Nat /\ MaxFiles \in Nat /\ MaxInits \in Nat

VARIABLES
    up,          \* does the process run?
    ready,       \* instance # 0
    curLen,      \* cur_cache_len
    started,     \* handlerThread was started
    timer,       \* FLUSH_WHAT is posted, to be handled within 30 s
    file,        \* the name whose files the instance uses
    logs,        \* the log files that exist: [order, twice] by name
    caches,      \* the cache files that exist: their records, by name
    names, inits, records,   \* names given, calls of init, records written
    rotated,     \* records of log files that were deleted
    mayFail      \* can fopen fail here? chosen once

process == <<up, ready, curLen, started, timer>>
disk    == <<logs, caches>>
vars    == <<process, disk, file, names, inits, records, rotated, mayFail>>

Records == 1 .. MaxRecords
Elements(s) == {s[i] : i \in DOMAIN s}

Init ==
    /\ up = TRUE /\ ready = FALSE /\ curLen = 0 /\ started = FALSE /\ timer = FALSE
    /\ logs = <<>> /\ caches = <<>>
    /\ file = 0 /\ names = 0 /\ inits = 0 /\ records = 0 /\ rotated = {}
    /\ mayFail \in BOOLEAN

-------------------------------------------------------------------------------
(* Native FileLogger                                                       *)

\* The records of s that are not in old, in the order of s.
Fresh(s, old) ==
    LET fresh[i \in 0 .. Len(s)] ==
            IF i = 0 THEN <<>>
            ELSE IF s[i] \in old THEN fresh[i - 1] ELSE Append(fresh[i - 1], s[i])
    IN  fresh[Len(s)]

\* The log file with the cached records appended; "a+" creates it.
Appended(s) ==
    LET old == IF file \in DOMAIN logs THEN logs[file] ELSE [order |-> <<>>, twice |-> {}]
        new == [order |-> old.order \o Fresh(s, Elements(old.order)),
                twice |-> old.twice \cup (Elements(s) \cap Elements(old.order))]
    IN  [n \in DOMAIN logs \cup {file} |-> IF n = file THEN new ELSE logs[n]]

\* fault: the cache is written without its newest record
flushCacheFileShort(ok) ==
    logs' = IF curLen > 0 /\ ok
            THEN Appended(SubSeq(caches[file], 1, Len(caches[file]) - 1)) ELSE logs

\* Writes the whole cache, and resets nothing.
flushCacheFile(ok) ==
    logs' = IF curLen > 0 /\ ok THEN Appended(caches[file]) ELSE logs

\* The results fopen can have.
Opens == IF mayFail THEN BOOLEAN ELSE {TRUE}

NoRoomLate(len) == curLen >= CacheSize          \* fault: the record is not counted
NoRoom(len) == curLen + len >= CacheSize

\* The cache from its start again, or a record after those it holds.
\* fault: what the cache held beyond the record is kept
CacheOnlyStale(r) == [caches EXCEPT ![file] = <<r>> \o SubSeq(@, 2, Len(@))]
CacheOnly(r)  == [caches EXCEPT ![file] = <<r>>]
CachePlus(r)  == [caches EXCEPT ![file] = Append(@, r)]

\* write: a full cache is flushed, and reset whether or not that worked.
write(r, len, ok) ==
    IF NoRoom(len)
    THEN flushCacheFile(ok) /\ caches' = CacheOnly(r) /\ curLen' = len
    ELSE caches' = (IF curLen = 0 THEN CacheOnly(r) ELSE CachePlus(r))
         /\ curLen' = curLen + len /\ UNCHANGED logs

-------------------------------------------------------------------------------
(* NativeFileLogger: writeLog, flush, close, the timer                     *)

WriteLog(len) ==
    /\ up /\ ready
    /\ records < MaxRecords
    /\ records' = records + 1
    /\ \E ok \in Opens : write(records + 1, len, ok)
    /\ UNCHANGED <<up, ready, started, timer, file, names, inits, rotated, mayFail>>

Flush ==
    /\ up /\ ready
    /\ \E ok \in Opens : flushCacheFile(ok)
    /\ UNCHANGED <<process, caches, file, names, inits, records, rotated, mayFail>>

\* handleMessage: flush, then post the next message.
TimerFiresOnce ==                                \* fault: not posted again
    /\ up /\ timer
    /\ IF ready THEN \E ok \in Opens : flushCacheFile(ok) ELSE UNCHANGED logs
    /\ timer' = FALSE
    /\ UNCHANGED <<up, ready, curLen, started, caches, file, names, inits, records, rotated, mayFail>>

TimerFires ==
    /\ up /\ timer
    /\ IF ready THEN \E ok \in Opens : flushCacheFile(ok) ELSE UNCHANGED logs
    /\ UNCHANGED <<process, caches, file, names, inits, records, rotated, mayFail>>

\* close flushes, resets and deletes the native object.
Close ==
    /\ up /\ ready
    /\ \E ok \in Opens : flushCacheFile(ok)
    /\ ready' = FALSE
    /\ curLen' = 0
    /\ UNCHANGED <<up, started, timer, caches, file, names, inits, records, rotated, mayFail>>

-------------------------------------------------------------------------------
(* NativeFileLogger: init and the life of the process                      *)

Without(f, n) == [m \in DOMAIN f \ {n} |-> f[m]]

\* What initFileLogger may do to the directory: the first log file listed is
\* used again, unless it is too big (deleted with its cache) or too old
\* (deleted, its cache left behind); the clock and the sizes are abstracted.
NewFile(newLogs, newCaches, newRotated) ==
    [file |-> names + 1, names |-> names + 1,
     logs |-> newLogs, caches |-> newCaches, rotated |-> newRotated]
Reused(f)  == [file |-> f, names |-> names, logs |-> logs, caches |-> caches, rotated |-> rotated]
TooBig(f)  == NewFile(Without(logs, f), Without(caches, f), rotated \cup Elements(logs[f].order))
TooOld(f)  == NewFile(Without(logs, f), caches, rotated \cup Elements(logs[f].order))

initFileLoggerKeepsOld ==                        \* fault: nothing is deleted
    {Reused(f) : f \in DOMAIN logs} \cup {NewFile(logs, caches, rotated)}
initFileLogger ==
    IF DOMAIN logs = {} THEN {NewFile(logs, caches, rotated)}
    ELSE UNION {{Reused(f), TooBig(f), TooOld(f)} : f \in DOMAIN logs}

\* fault: the file is not created
TruncatedAbsent(c) == Without(c.caches, c.file)

\* The cache file is opened with "wb+": what it held is gone.
Truncated(c) == [n \in DOMAIN c.caches \cup {c.file} |-> IF n = c.file THEN <<>> ELSE c.caches[n]]

\* native_init returns 0, before or after the cache was truncated.
InitFails(c) ==
    /\ mayFail
    /\ caches' \in {c.caches, Truncated(c)}
    /\ ready' = FALSE
    /\ curLen' = 0
    /\ UNCHANGED <<up, started, timer>>

InitSucceeds(c) ==
    /\ ~started
    /\ caches' = Truncated(c)
    /\ ready' = TRUE /\ curLen' = 0 /\ started' = TRUE /\ timer' = TRUE
    /\ UNCHANGED up

ProcessEnds == up' = FALSE /\ ready' = FALSE /\ curLen' = 0 /\ started' = FALSE /\ timer' = FALSE

\* A thread cannot be started twice: handlerThread.start() throws in onCreate,
\* where nothing catches it, after the cache was truncated.
InitKills(c) ==
    /\ started
    /\ caches' = Truncated(c)
    /\ ProcessEnds

InitCall ==
    /\ up
    /\ inits < MaxInits
    /\ inits' = inits + 1
    /\ \E c \in initFileLogger :
        /\ c.names <= MaxFiles
        /\ file' = c.file /\ names' = c.names /\ logs' = c.logs /\ rotated' = c.rotated
        /\ InitFails(c) \/ InitSucceeds(c) \/ InitKills(c)
    /\ UNCHANGED <<records, mayFail>>

\* The process is killed, or crashes; the mapped pages are the kernel's.
Crash ==
    /\ up
    /\ ProcessEnds
    /\ UNCHANGED <<disk, file, names, inits, records, rotated, mayFail>>

Restart ==
    /\ ~up
    /\ up' = TRUE
    /\ UNCHANGED <<ready, curLen, started, timer, disk, file, names, inits, records, rotated, mayFail>>

Next ==
    \/ \E len \in Sizes : WriteLog(len)
    \/ Flush \/ TimerFires \/ Close \/ InitCall \/ Crash \/ Restart

Spec == Init /\ [][Next]_vars

\* The looper of a running process delivers the posted message at last.
FairSpec == Spec /\ WF_vars(TimerFires)

\* Runs in which no process opens the logger again once it has it open.
CarefulSpec == Init /\ [][Next /\ (InitCall => ~started)]_vars

-------------------------------------------------------------------------------
(* Properties                                                              *)

OnDisk(r)  == \E n \in DOMAIN logs : r \in Elements(logs[n].order)
InCache(r) == \E n \in DOMAIN caches : r \in Elements(caches[n])

Names      == 1 .. MaxFiles

\* Type invariant; an open logger has the cache file it writes to.
TypeOK ==
    /\ up \in BOOLEAN /\ ready \in BOOLEAN /\ started \in BOOLEAN /\ timer \in BOOLEAN
    /\ curLen \in Nat
    /\ ready => file \in DOMAIN caches
    /\ file \in 0 .. names /\ names \in 0 .. MaxFiles
    /\ inits \in 0 .. MaxInits /\ records \in 0 .. MaxRecords
    /\ rotated \subseteq Records
    /\ DOMAIN logs \subseteq Names /\ DOMAIN caches \subseteq Names
    /\ \A n \in DOMAIN logs : logs[n] \in [order : Seq(Records), twice : SUBSET Records]
    /\ \A n \in DOMAIN caches : caches[n] \in Seq(Records)

\* memcpy never writes past the mapping, for records shorter than it.
CacheNotOverrun == curLen <= CacheSize

\* The first copies of the records that a log file has are in the order in which
\* the records were served, whatever was flushed twice, failed to be flushed or
\* was cut off by a crash.  That no record is missing is not said here.
LogInOrder ==
    \A n \in DOMAIN logs :
        LET s == logs[n].order
        IN  \A i, j \in DOMAIN s : i < j => s[i] < s[j]

\* There is one log file at most: the scan that looks at the first file only
\* (the loop breaks) therefore sees every file there is to rotate.
OneLogFile == Cardinality(DOMAIN logs) <= 1

\* While the logger is open its flush is posted: the message is posted again by
\* every handling of it, and close and crash do not leave a logger without it.
OpenLoggerHasTimer == ready => up /\ started /\ timer

\* A record is kept in a log file, in a cache file, or was rotated away.
Kept(r) == OnDisk(r) \/ InCache(r) \/ r \in rotated

\* The cache last in use has the only copy of the record.
Unflushed(r) == file \in DOMAIN caches /\ r \in Elements(caches[file]) /\ ~OnDisk(r) /\ r \notin rotated

\* A full cache is started again though its flush could not open the log file.
CacheDropped == mayFail /\ records' # records /\ logs' = logs /\ caches' = CacheOnly(records')

\* A record that was written is lost in two places only, from the cache last in
\* use before a flush: an opening truncates or deletes that cache, or a write
\* starts it again after a flush that failed.  No other step loses one, the
\* death of the process and the rotation of an old file included.
LostOnlyThere ==
    \A r \in 1 .. records' :
        r > records \/ Kept(r) =>
            Kept(r)' \/ (r <= records /\ Unflushed(r) /\ (inits' # inits \/ CacheDropped))
NothingLostElsewhere == [][LostOnlyThere]_vars

\* The timed flush brings every record of an open logger to the log file, if
\* files open and the process lives.
RecordReachesDisk ==
    \A r \in Records :
        (~mayFail /\ ready /\ r \in Elements(caches[file])) ~> (OnDisk(r) \/ ~up)

-------------------------------------------------------------------------------
(* What comments of the code say and the code does not do                  *)

\* The logger is made so that a killed or crashing process loses no record; the
\* opening in the next process is an ordinary one.
NothingLost == ~mayFail => \A r \in 1 .. records : Kept(r)

\* "Flush to disk periodically": a record is brought to the disk by it once.
RecordFlushedOnce == \A n \in DOMAIN logs : logs[n].twice = {}
===============================================================================
