# A TLA+ verification of new_demo1

new_demo1 is an Android project of many small programs: a main app with native
code (`src/app`), a multi-process messaging demo (`src/multi-process`), demos of
RxJava, Retrofit, OkHttp and Flutter, and two native libraries. It has no
design document and no tests beyond the templates of Android Studio. The claims
that the code makes about itself are its comments, most of them in Chinese.

This directory holds TLA+ models of the parts that have logic of their own, the
configurations TLC checks them with, and proofs that TLAPS checks. Section 1 is
the inventory, section 2 the plan, sections 3 to 5 describe the models, the
properties and runs, and the proofs; section 6 says what was found, section 7
what is left out.

## 1. Inventory

Paths are below `src/`; `app/java` is `app/src/main/java/com/zw/new_demo1`.

| component | state it keeps | operations | who calls whom |
|---|---|---|---|
| **ThreadPool** `app/src/main/cpp/src/threadpool.cpp` | ring of tasks, counts of live, busy and exiting threads, thread slots, shutdown flag, two mutexes, two conditions | `threadPoolCreate`, `threadPoolAdd`, `threadPoolDestroy`; threads `worker` and `manager` | producers, workers and the manager share the pool; tasks are callbacks |
| **NativeFileLogger / FileLogger** `app/java/util/NativeFileLogger.java`, `app/src/main/cpp/src/FileLogger.cpp`, `java_NativeFileLogger.cpp` | the singleton, its handler thread and posted flush; the native instance and the length of its cache; a log file and a mapped cache file on disk | `init`, `v d i w e`, `flush`, `close`, the timed flush | activities call the singleton, it calls the native object through JNI; the handler thread calls it back |
| **stream framing** `app/src/main/cpp/src/stream_send_receive.cpp` | a socket | `sendMsg`, `recvMsg` over `writen`, `readn` | two processes over a byte stream |
| **message queue** `multi-process/.../service/`, started by `app/java/activity1/MicroServiceActivity.java` | the callbacks registered with MQService; CollectService's reference to it and its thread; SaveService's | `sendData`, `registerCallback`, dispatch, start, bind, connect | CollectService's thread calls MQService through its binder, MQService calls SaveService back; the system starts, stops and restarts the services |
| **HTTP parser** `server/src/main/cpp/third/http_parser.c` | `struct http_parser`: state, header state, flags, content length, bytes read of the head | `http_parser_init`, `http_parser_execute`, `http_parser_pause`, `http_should_keep_alive`, `http_parser_parse_url` | the owner of a connection feeds it bytes, it calls the owner's callbacks; the server's stubs do not call it yet |
| MappedByteBufferUtil, FileLogger (Java), MMap, FileUtil `app/java/util` | a mapped buffer, its length; files | `put`, `flush`, open, close, `write` | called by activities |
| RetryWithDelay and the Rx tests `rxjava_demo/.../activity` | a retry counter; subjects | `apply` on each error | RxJava calls it back |
| handler loops and services `app/java/activity1/Demo1Activity.java`, `device/ShellActivity.java`, `service/` | posted messages, job ids, a bound service | activity life cycle, `handleMessage`, `onStartJob`, bind and unbind | the main looper calls them back |
| retrofit factories `retrofit_demo` | chains of converter and adapter factories | `responseBodyConverter`, `get`, `intercept` | Retrofit calls them back |
| server, mylibrary | none | stubs that return constants | JNI |
| screens, device information, JavaScript bridge, OkHttp and Flutter demos | none of their own | wiring of frameworks | - |

What is hard, and what makes each part correct:

* **ThreadPool.** Threads meet in one mutex and two conditions, and part of the
  code does not take the mutex: the shutdown flag, the signals of the manager and
  of the destroyer, a thread's slot, the frees. The manager decides on copies of
  the counts read one after the other. Correct means: the ring is a FIFO that
  neither loses nor repeats a task, the counters count what their names say,
  liveNum keeps its bounds, no wakeup is lost, nobody uses the pool after it is
  freed.
* **NativeFileLogger.** The cache is a file mapped shared, so that a crash of the
  process loses no record; crash, restart, opening again, rotation, a full cache,
  a failing `fopen` and a periodic flush meet. Correct means: no record is lost
  or repeated, records keep their order, the cache is never overrun, an open
  logger always has its flush posted, old files are rotated.
* **Stream framing.** `send` and `recv` may move any part of what is asked and
  the stream may end or fail anywhere. Correct means: what `recvMsg` delivers is
  what was given to `sendMsg`, whole and in order, and failure is reported.
* **Message queue.** `RemoteCallbackList` admits one broadcast at a time and
  throws otherwise; callbacks register while a broadcast runs; a CollectService
  that the system stops leaves its thread behind, and the next one starts
  another; the process dies and its services come back in any order. Correct
  means: nobody throws, a datum reaches each callback that was registered, once
  and in order, and a started SaveService is registered at last.
* **HTTP parser.** It is fed a connection in pieces cut anywhere and keeps nothing
  between the calls but its struct, a string that goes over the cut included; a
  callback may fail or pause it in the middle of anything; the headers decide
  where a message ends, and they may contradict each other. Correct means: what
  the callbacks get is what was sent, whole and in order and however it was cut,
  each message ends where RFC 7230 says, ambiguous ones are refused, numbers and
  heads that are too long are found, and no call returns for ever without
  progress.
* **The others.** A counter that is never reset, messages posted again without an
  end, a source offset taken from the wrong place. They are small.

PROJECT.json lists each of these dangers with its line and the properties that
watch it.

## 2. Plan

| order | module | what it is | state |
|---|---|---|---|
| 1 | `TaskPool` | abstract specification: a bounded FIFO, a set of running tasks, a switch | done |
| 2 | `ThreadPool`, `MCThreadPool` | the pool with all its threads; implements `TaskPool` | done |
| 3 | `ThreadPoolProofs` | theorems about `ThreadPool`: types, mutex, bounds, wakeups and counters; the ring and the refinement | done |
| 4 | `FileLogger` | the logger, its process and its disk | done |
| 5 | `MessageChannel`, `StreamFraming` | abstract specification: a channel of whole messages; sender, receiver and connection, which implement it | done |
| 6 | `MessageQueue` | MQService, collecting threads and SaveService in one process | done |
| 7 | `HttpUrl`, `HttpParser` | the parser of the server library, with the application around it, and its URL automata | done |
| 8 | `HttpMessages`, `MCHttpParser` | an independent reference: messages, what they are on the wire and what a receiver has to be told of them; the connections of the run | done |
| 9 | `FileLoggerProofs`, `StreamFramingProofs`, `MessageQueueProofs`, `HttpParserProofs`, `HttpParserDelivery`, `HttpUrlProofs` | theorems about `FileLogger`, `StreamFraming`, `MessageQueue`, `HttpParser` and `HttpUrl` | done |
| - | `SetInduction` | induction and recursion for the proofs about data | done |
| 10 | `RxPipelines` | the pipelines of the Rx demos: what a source emits, the hops between schedulers, retry, timers, subjects and disposal (RxJava itself external); `RetryWithDelay` with two subscriptions that share an instance | next |
| 11 | `MappedBuffer` | `init`, `write`, `flush` and the offsets of MappedByteBufferUtil, unlike the native logger called without a lock | planned |
| 12 | `HandlerLoops` | one process with its activities and services: messages posted again over the activity life cycle, job ids over restarts, binding and unbinding, `System.exit` two seconds after a bind | planned |
| 13 | `FactoryChain` | which Retrofit factory answers for a type | planned |

Abstract specifications: `TaskPool`, which `ThreadPool` implements, and
`MessageChannel`, which `StreamFraming` implements. Both refinements are checked
and proved.

Proved are, of the safety properties that passing runs check, all of `ThreadPool`,
`FileLogger`, `StreamFraming` and `MessageQueue`, and those of `HttpParser` that do
not compare with the sender's message (section 5).

## 3. The models

### ThreadPool

A worker is named by its slot in `threadIDs`. The manager gives a new thread the
lowest free slots and the thread clears its slot in `threadExit`, so slot `w`
holds 0 exactly when `wpc[w] = "none"`, and no second name is needed.

| model | code (`threadpool.cpp`) |
|---|---|
| `taskQ, queueSize, queueFront, queueRear` | the ring, fields of the same names |
| `mutexPool` | whether the mutex is held over a visible step |
| `liveNum, busyNum, exitNum, shutdown` | the fields of the same names |
| `wpc[w]`, `task[w]` | where the worker is in `worker`, its local `task` |
| `ppc[p]`, `arg[p]` | where a producer is in `threadPoolAdd`, its argument |
| `mpc`, `snap`, `signals` | where the manager is, its locals, signals sent this round |
| `dpc`, `sent` | where `threadPoolDestroy` is, signals sent |

One action is one critical section, or one access made outside of any. Joining a
critical section into one step is sound where no code outside the lock reads or
writes what it touches in its middle. It does not hold for two places, and there
the lock is visible: between the test of the queue and `pthread_cond_wait`
(place `"gap"`), because `shutdown` is written and the conditions are signalled
without the lock, and between a wakeup and the next test (place `"test"`), for
the same reason. Everything the code does unlocked is a step of its own:
`DestroyCall` writes `shutdown`, `ManagerSignal` and `DestroySignal` send one
signal each, `DestroySignal` reads `liveNum` afresh, `threadExit` clears the
slot after the mutex was released.

Two conditions: `notEmpty` is waited on by workers, `notFull` by producers.
`WakeOne` is `pthread_cond_signal`: any one waiter, or nobody. Waits may return
without a signal. The loop around the wait is `while` in both functions, so a
woken thread tests again; a worker first looks at `exitNum`.

After `DestroyFree` the pool's memory is gone and any further use of it is
undefined, so the model has no such step; only the code of a task, which uses
nothing of the pool, still runs. `WorkersLeaveBeforeFree` says what the code
does not ensure.

A task is a member of a set. A producer adds a task only while no queue, call or
worker holds it, because the worker frees the argument it was given.

### FileLogger

Every public method of the singleton is `synchronized` and the handler's flush
calls such a method, so a call is one step. The state is the process (`up`,
`ready` for `instance != 0`, `curLen`, `started`, `timer`), the disk (`logs`,
`caches`, by file name) and the bounds' counters. A crash ends the process and
leaves the disk, the mapped cache included; `Restart` starts with the class
freshly loaded. A name is the number of the file, a record the number of its
call, a length a member of `Sizes`. Of a log the model keeps the records in the
order of their first copies and the set of those that have a second copy, which
is what the properties tell apart; without that the periodic flush would make
the files grow for ever. `Fresh` picks the first copies out of what a flush
appends. Which file is too big or too old is a choice (`initFileLogger`), since it
depends on the clock and on lengths of lines. Whether `fopen` can fail is chosen
once (`mayFail`).

`init` of a singleton whose handler thread was started throws: `InitKills`. The
app calls it from `onCreate` of an activity, where nothing catches it.

### StreamFraming

`sendMsg` and `recvMsg` are the two ends of one connection. A byte is told apart
by message and position, a byte of the header by its digit. The header has
`HeaderLen` digits of base `Base` (4 and 256 in the code), the most significant
first (`htonl`); an incomplete header leaves the remaining digits of `len` at
their initial 0 (`HeaderValue`). `SendSome(k)` and `RecvHeader(k)`, `RecvBody(k)`
move any number of bytes that one call of `send` or `recv` may move. `writen`
closes the socket when `send` fails, and `recvMsg` when the body is short. The
connection may be closed by the sender between messages or reset at any moment.
`recv` failing once and then working again (a signal, a receive timeout) is not
modelled.

`MessageChannel` is what the two calls promise together. `StreamFraming` implements
it with `sent` as the payloads of `lens`, `received` as what the calls of `recvMsg`
with a positive result returned, and `ended` as whether one had another result.

### MessageQueue

The manifest gives no service a process of its own, so `MQ.Stub.asInterface`
returns the object itself: `sendData` is a plain call on the collecting thread,
`onDispatchData` a plain call from it, and nobody's `binderDied` is ever called
while the process lives. What is concurrent is the main thread, which starts
services and handles connections, and the thread of each CollectService.

| model | code |
|---|---|
| `live`, `conn` | the service instances that exist; for each, whether it was bound and whether `onServiceConnected` ran (`mq # null`) |
| `callbacks`, `count`, `active` | `mCallBacks`: what is registered, `mBroadcastCount`, `mActiveBroadcast` |
| `thread`, `n`, `num`, `i` | the thread of a CollectService and its locals |
| `to`, `got` | history: who was registered when a broadcast began, what each callback was called with |

`RemoteCallbackList` is the platform's. Its methods take its lock, so each call
is a step: `beginBroadcast` throws while a broadcast of callbacks is under way
and copies the registered ones, in any order since they are kept by hash,
`getBroadcastItem` reads the array,
`finishBroadcast` throws outside of a broadcast and clears the array. In
`dispatchData` only the calls of the items are in a `try`, so the two other
exceptions end the process.

The system may stop a service (`SystemStops`; none has an `onDestroy`, so its
thread, connection and callback stay) and create another instance, kill the
process, and start again, in a new one, those services it had not stopped.
At most one instance of a class is live; `Collectors` and `Savers` bound the
instances of a process, `MaxRounds` is the code's 1000.

### HttpParser

The unit of input is a symbol: a byte that the code looks at for itself, or one
that stands for a class it treats alike, or the rest of a literal that it
compares byte by byte (`"t"` then `"ransfer-encoding"`). So a literal can be cut
in one place, and a state with its index and matched literal is one state of the
model. A string in a callback is an event per symbol, with its place in the
connection, so that a byte handed over twice is told from an equal one.

| model | code (`http_parser.c`) |
|---|---|
| `parser` | `struct http_parser` |
| `run` | the locals of `http_parser_execute`: `at` is `p`, `end` the end of the piece, `mark` the five mark pointers, `nread`, `start` of the inner loops; `pc` is where the call is: top of the loop, in the switch, after an inner loop, on its way out, or `"idle"` between calls |
| `log`, `pauses` | what the callbacks were given; how often one paused |
| `stream` | the connection: its symbols, and what the reference says of it |

One action is one case of the big `switch`. Those cases, or branches, that only
set the next state are rows of the sets `Moves` and are taken by `Move`; what a
case refuses is in `ErrorOf`. The loop itself is `NextByte` (the count of
header bytes), `ScanEnds` (where the inner loops over a header's name and value
count theirs) and `EndOfData` (the marks handed over, `RETURN(len)`).
`CALLBACK_NOTIFY`, `CALLBACK_DATA` and their variants are `Notify`, `NotifyAgain`
and `Data`: the callback returns 0, fails, or pauses the parser, and in the last
two cases the call returns to the place the macro names, with `nread` stored or
not as it does. `HTTP_PARSER_STRICT` is 1, as in the build.

The application is the environment: it sets every callback, feeds what is left
from the offset that a call returned, unpauses a paused parser, stops at an error
or when a message was an upgrade, and signals the end of the connection once.
`on_headers_complete` returns 0, 1 or 2, once for a connection.

The inner loops over a general header's name and value look at no more than
`MIN(left, max_header_size)` bytes at a time (lines 1267 and 1512), which the model
leaves out. In a name it has no effect: the outer loop goes on with the next byte. In a
value the outer loop steps over the byte behind that many without looking at it; the
head is then too long and is refused when the inner loop is counted, unless an earlier
byte or a callback ends the call first. No value in the runs is that long. What the
theorems say of longer ones they say of a loop that looks at every byte.

`HttpMessages` knows nothing of the parser. It composes requests and responses
from headers, each with what it says (a length, chunked, close), decides by RFC
7230, 3.3.3, where a message ends and whether the connection goes on, and from
that both the symbols and the events a receiver should see.

### TaskPool

The promise of the pool to its callers. `ThreadPool` implements it with `pending`
as the ring read from `queueFront`, `active` as the tasks in the workers' hands
and `closed` as `shutdown`; steps of locks, waits, counters and the manager are
stutters.

## 4. Properties and runs

The operators marked `fault:` in the modules are seeded bugs. Nothing uses them;
each replaces the definition below it to see that a property notices.

| run | question | bounds |
|---|---|---|
| `pool_safety` | are lock, ring, counters and wakeups right in every interleaving, and is the whole a bounded FIFO? | 3 tasks, 2 producers, a ring of 2 cells, 1 to 2 workers, rounds of 2 |
| `pool_fixed_size` | with no thread to send away: is every task taken, does every call return, can the pool be destroyed? | 2 tasks, 1 producer, 1 cell, 2 workers |
| `pool_revived` | does a pool that may shrink to nothing come back for a task? | 2 tasks, 1 cell, 0 to 1 workers |
| `pool_lost_task` | the same for a pool of 1 to 2 workers: no | 2 tasks, 2 cells, rounds of 2 |
| `pool_freed_in_use` | have the workers left when the pool is freed? no | 1 task, 1 worker |
| `logger_disk` | are the files well formed and the flush posted over crashes and rotations, where can a record be lost, and does one reach the disk? | 4 records of length 1 or 3 in a cache of 4, 3 files, 3 inits |
| `logger_crash_loss` | does a record in the cache survive a crash and the one `init` of the next process? no | 2 records, 1 file, 2 inits, at most one a process |
| `logger_flushed_twice` | is a record written to the log once? no | 2 records, 1 file, 1 init |
| `framing_order` | does the receiver get what was sent, as over a channel of whole messages, and get it at last? | 3 messages of 1 to 8 bytes, 2 digits of base 3, 3 bytes in flight |
| `http_stream` | is what the callbacks get what was sent, however it is cut, paused or broken off? | 183 connections of up to 3 messages; pieces of 1, 3 or all symbols; 1 pause; numbers to 255; heads of at most 32 symbols |
| `http_paused_at_limit` | is a head refused as too long only if it is? no | 4 connections with a head of exactly 32 symbols; 1 pause |
| `mq_dispatch` | does a datum reach whom it should, in order, and does sending never throw, over stopped services and new processes? | 2 CollectServices, 2 SaveServices, 2 rounds of each thread |

Why the bounds are enough. Two cells and three tasks fill the ring, wrap it and
leave a producer waiting, and a second producer makes the signal of `notFull` a
choice. Two workers with a minimum of one are the least pool in which an exit
request can be obeyed or refused, and two signals a round leave a request over.
Four records of lengths 1 and 3 fill a cache of 4 exactly, overflow it and
start it again. Three inits allow a crash or a failed open, a second start and a
double start; three names allow each kind of rotation twice.
`NothingLostElsewhere` holds over all of that, failing opens included: it names the
two steps that lose a record, and that they lose it from the cache last in use.
`LogInOrder` is about the first copies that did reach a log, and says nothing of
records that are missing. `logger_crash_loss` is run with `CarefulSpec`, in which no
process calls `init` on a logger that was started, so that what is lost is lost by a
crash and an ordinary start; with one file name the start finds the same log again.
Two digits of base 3
make headers of two bytes that `recv` can split, with lengths whose first, second
or both digits matter, and messages longer than what fits in flight.

Two CollectServices are what it takes for two threads to meet in `dispatchData`,
and two callbacks for one to register between the call of the other and the end
of the broadcast; two rounds let an item of an earlier broadcast be confused with
one of a later. Three properties of `mq_dispatch` speak of one sending thread.
The other case is in the model and happens: the stopped service's thread and the
new one's meet, one throws or loses what it sent. `OneCollectorNeverThrows` says
that nothing else leads there. `GotInOrder` says of two threads that order is kept
all the same but not that nothing comes twice: with three callbacks one thread may
have the array copied again, longer, under the other's index.

The connections of `http_stream` are each one use of the protocol: messages that
follow each other with and without keep-alive, each way a body can be delimited,
chunks with sizes, parameters and trailers, upgrades, CONNECT, contradicting or
malformed lengths, heads of exactly the limit (`HeadsAtLimit`, one of them by the trailer
that is counted to it) and of one symbol more, URLs of every shape;
three of them with every symbol replaced by `":"`, some by LF, and broken off after
every third symbol. A piece of one symbol cuts everywhere at once, of all symbols nowhere,
and a choice before each call makes every mixture; one of three lets the inner
loops, the marks and the body go over a cut in the middle. The limit of 255 is
passed by a third digit, that of a head by one header more. One pause is enough to
stop in any callback once, and the state after it is the state between any calls.
A head of exactly the limit is accepted except after a pause in
`on_headers_complete`, the case that `EndsAsSent` leaves out (`PausedAtLimit`) and
`http_paused_at_limit` shows.
`HeadWithinLimit` leaves out paused parsers because a pause does not store the count
of header bytes, and what `EndsAsSent` says of heads that are too long counts a
trailer to the head that follows, both as the code does. Two properties say on any bytes what others say of
messages: `HandedOverInOrder`, that the bytes which the callbacks get are in order,
none twice, and the pieces of a string adjoin, whatever the connection is cut into;
`HeadWithinLimit`, that a call neither announces the first head nor asks for more of
it beyond the limit. A third does for URLs: `UrlPartsInOrder`, that a head is accepted
only with a URL that the automaton of `http_parser_parse_url` gets through as well, and
that the parts it is cut into lie in it, apart and in order. It leaves out longer URLs
than a `uint16_t` counts, whose offsets the code cuts off and the model too (`Wrapped`);
no URL of the run is that long. `CallsProgress` is what keeps a call from running for
ever, without fairness: `Ahead` says how many states may still come at one byte, and
each step goes to a later byte or lowers it. `Finishes` is the same promise for the
whole connection, the application included.

`CHECK_DEADLOCK FALSE` is there where the system may stop: a destroyed pool runs
no further, and a closed connection has nothing left to do. So
has the parser when the connection has ended or was refused. `FileLogger` and
`MessageQueue` never stop and are checked for deadlock. Symmetry is used in `pool_safety` only, which
checks no liveness.

Fairness. A thread that can run does run: each worker's and producer's steps are
strongly fair, because they compete for a mutex that is free again and again and
the scheduler lets every thread lock it at last; so is the manager, whose loop
locks it too. The code of a task returns (weak fairness of `WorkerRuns`) and
`threadPoolDestroy` goes on once called. Nothing makes a producer call, a wait
return without a signal or anyone destroy the pool. For the logger only the
looper is fair (`TimerFires`): a posted message is handled at last. For the stream,
`writen` and `readn` go on while they can and the receiver calls again after each
message; nothing makes the sender send. For the message queue a collecting
thread goes on with the broadcast it is in and with its next round (weak fairness
of `ThreadStep`; `run` has no wait but a sleep), and the main looper handles the
connection of a bound service (`SaverConnected`). For the parser, a call runs to its
end and the application goes on feeding and unpausing (weak fairness of `Next`:
there is one thread). Nothing makes the user press a
button or the system stop, kill or restart anything.

## 5. What is proved

`ThreadPoolProofs` proves for every `Tasks`, `Producers`, `MinNum`, `MaxNum`, `Capacity` and `NUMBER` that satisfy
`PoolAssumption` (a ring of at least one cell, rounds of at least one, minimum not
above maximum):

| theorem | argument |
|---|---|
| `TypeCorrect` | inductive as it stands; one lemma per thread. The upper bound of the queue needs the test for a full ring, the lower one that for an empty one |
| `MutexPoolIsExclusive` | what `BlockedAddAlwaysHasHope` rests on; inductive with the types: who enters found the mutex free, who leaves frees it |
| `LiveNumStaysInBounds` | inductive with the types: an exit needs a surplus, read under the lock, and the scan of the slots stops at `maxNum` read under the lock; the stale copies only decide whether it starts |
| `BlockedAddAlwaysHasHope` | needs `GapInv`: while a producer is between its test and its wait the ring is still full, and while a worker is, still empty, because both hold the mutex. So a producer starts to wait only on a full ring, and each removal wakes one |
| `FixedPoolNeverSleepsOnATask` | assumes `MinNum = MaxNum`; needs `GapInv`, and `FixedPoolInv`: then no worker leaves before shutdown. The worker that starts to wait sees an empty ring, and each insertion wakes one |
| `CountersAreRight` | inductive with the types. `CountSteps` lists the six ways in which a step can change who is busy, who is alive and the two counters; lemmas on cardinality do the rest. After the shutdown `liveNum` is only an upper bound, since `WorkerQuit` does not count |
| `RingAlwaysIsQueue` | needs `TasksApart`: a task is in one cell, one call or one worker's hands. Without it a task that a call carries could be stored twice. Remainders are replaced by a case distinction first (`RingIndex`) |
| `PoolImplementsTaskPool` | `WorkerTake` is `Start`, `AddPut` is `Accept`, `WorkerRuns` is `Finish`, `DestroyCall` is `Close`, all else a stutter. `Start` needs room for one more active task: the taking worker holds none (`RoomForOneMore`) |

The assumption of `FixedPoolNeverSleepsOnATask` is needed: `pool_lost_task` is a
counterexample for a pool of one to two workers.

`FileLoggerProofs` proves for every set of files, every cache and every number of
records and starts (`LoggerAssumption`):

| theorem | argument |
|---|---|
| `CacheIsNeverOverrun` | assumes that no record is longer than the cache, as the code needs; inductive with the length's range: the test for room comes before the copy, and a cache without room is started again |
| `OnlyOneLogFile` | needs `OnlyFile`: the file that exists is the instance's own, so the one that a rotation removes is the only other |
| `OpenLoggerAlwaysHasTimer` | inductive: a flush is posted by the same step that opens the logger, posts itself again, and ends with the process or with `close` |
| `TypesCorrect`, `LogAlwaysInOrder`, `NothingIsLostElsewhere` | one invariant, `ContentsInv`. Order alone is not inductive: a flush appends whatever the cache has, so `CacheInv` says that the cache of an open logger increases and that what the log does not have of it is newer than all that the log has; a failed flush keeps that, a full cache starts again with the newest record. The last is proved step by step from the invariant (`LostOnlyThere`): a write that starts the cache again comes after a flush of all of it, or after one that failed, or on a cache that is empty because its opening truncated it (`OpenedInv`); an opening touches no cache but the last in use, since a new name has none |

Except for `CacheIsNeverOverrun` the theorems do not ask how long a record is. What
the code writes past the mapping for longer ones is outside the model.

`StreamFramingProofs` proves for every base, header length, connection and number of
messages (`FramingAssumption`):

| theorem | argument |
|---|---|
| `TypesCorrect`, `DeliveredAlwaysInOrder` | one invariant, `Inv`. Its heart is `InFlight`: what the receiver read of a frame followed by the bytes in flight is the beginning of the frames not received yet, and the rest is in `out` or, after a failure, lost. So a full header is the next message's (`HeaderComplete`) and a full body its payload (`BodyComplete`). `PhaseInv` says that the length in use is the next message's or that the stream has failed and ended, `ResultsInv` that failures come last, `EndsInv` what is empty after an end |
| `AlwaysInStep` | from the same invariant: nothing is lost while nothing failed |
| `SocketIsChannel` | `SendCall` is `Send`, a complete body `Deliver`, a call that returns 0 or -1 `End`, all else a stutter. `Deliver` needs `ResultsInv`: whoever still reads bytes has seen no failure |

They rest on what the recursive functions compute. `HeaderValueOfHeader` proves that
`ntohl` undoes `htonl`: `HeaderValue(Header(n)) = n` for every `n` up to `MaxLen`, by
induction over the digits; `FramesAfterNext` and `FramesAfterAppend` that the frames
left over lose their first frame when a message is received and gain one at the end
when one is sent; `PrefixOfConcat` that a stream can be cut in one way only.

`SetInduction` makes such proofs possible without the library's induction theorems,
whose predicate is an operator and beyond the provers. The set of the numbers with
the property takes the predicate's place, and the least number outside of it
(`LeastElement`, from the library's theorem that `<` on `Nat` is well-founded) gives
the contradiction. `RecursionExists` proves in the same way that a function defined
by a value at 0 and a step exists, which is what unfolds `Power`, `HeaderValue`,
`FramesAfter` and `Fresh`.

`MessageQueueProofs` proves for every finite set of instances and every number of
rounds (`QueueAssumption`):

| theorem | argument |
|---|---|
| `TypeCorrect` | the rounds keep below their bound because a dispatch starts only with one left; the array is at most as long as there are callbacks |
| `OneSenderNeverThrows` | needs `CountOfOne`: with one thread `mBroadcastCount` is its `num` while it dispatches and -1 while it does not |
| `CallsAlwaysInOrder` | needs that the rounds in `got` are at most the thread's own (`RoundsInv`), that the array has no callback twice, and that those called in this broadcast are before the index (`ArrayInv`), the last two for one thread |
| `DispatchAlwaysReachesAll` | needs `ReachInv`: a lone thread's array holds everybody who was registered (an injection between sets of one size is onto), and those before the index have heard |

`HttpParserProofs` proves for every set of connections, symbol sequences that need
not be HTTP at all, every cutting into pieces, every place and number of pauses and
failing callbacks, and every limit on the head (`ParserAssumption`: the width of
`content_length` holds more than a hexadecimal digit, a connection is a sequence of
symbols with a parser type):

| theorem | argument |
|---|---|
| `CallbacksOrdered` | not inductive: the order does not say what may come next. `LineFits`, `HeadFits` and `BodyFits` give for each state the callbacks that can have been the last, in a trailer others than in a head, so a callback made in that state may follow them. Once the connection is closed nothing follows |
| `MarksResumable` | `MarksOK`: while the loop runs, the marks but that of the body are `MarkedAtEntry` of the state, and the body is marked only in the states that read one. Every step to a state that reads a string marks it, each step out of it hands it over |
| `AssertionsNeverFail` | `Asserted`, state by state, and `CountOK`: whoever goes to `s_chunk_size_start` has set `nread` to 0, and keeps it there over a return, a pause and the next call. `content_length` stays below its maximum because `TooLong` is asked before a digit is added |
| `TypesCorrect` | with the same invariant: the offset stays in the piece because the body takes no more than is left of it, and an inner loop starts no later than where it is |

`ParserInvariant` is the conjunction, proved with one lemma per state's code. They
rest on lemmas for what a byte can be left with: `GoStep` (break, REEXECUTE),
`MarkStep` (MARK), `NotifyStep` and `DataStep` (callbacks that go on, fail or
pause), `RefuseStep`; and on lemmas that give for each class of states what the
invariant asks of it (`StartIs` to `MessageDoneIs`), used both when a state is
entered and, as `Was`, when it is left.

`HttpParserDelivery` proves, from the same assumption and on the same connections,
what was handed over and counted when a call was cut or paused anywhere, and that the
call ends:

| theorem | argument |
|---|---|
| `BytesInOrder` | not inductive: it does not say where the next byte comes from. `Handed` does: every byte in the log is from before the one under way and from before every mark, and a string whose state goes on and whose callback was the last ended right before its mark or, between two calls, right before the next byte. `s_message_done` is the exception, because the last byte of a body is executed again after it was handed over (`Beyond`). A folded header value skips the fold, so of it only the order is said |
| `FirstHeadWithinLimit` | needs `Counting`: until the first head is announced and as long as nothing has paused, `nread` is the number of bytes read, one less at the top of the loop, and in an inner loop that of the byte where it began (`start`), and was within the limit when it was last compared. Every other step than `HeadersAlmostDone` is `Plain`: it announces nothing, and pauses only with that error |
| `CallsEnd` | one lemma per part of the code, from the two invariants: a step that keeps the byte goes to a state with fewer `Turns` left, and an inner loop is left where it began only when its byte does not belong to it. No step of a call changes nothing (`ProgressStep` speaks of `Next`, not of `[Next]_vars`). Since a piece is finite no call loops, whatever the bytes, and whatever the callbacks return |

All rest on `TextInvariant`, proved with one lemma per action from those of
`HttpParserProofs`; `PieceText` says what a piece adds to the log, `HandedOn` when a
step keeps what was handed over, and `NoticeText` and `DataText` do it for the
callbacks.

`HttpUrlProofs` proves about URLs, the first theorem for every string and every width of
the offsets (`UrlAssumption`: at least one byte), the others on the same connections:

| theorem | argument |
|---|---|
| `UrlPartsApart` | by induction over the bytes (`RecursionExists` unfolds the scans). The automaton reads the parts in one direction (`Ascends`: the part of a state never goes back, and a part that was left is not entered again), so a part goes on at the end of all that was read or starts behind it (`GrowSorted`). The host part is cut again by a second automaton; `HostParted` says that user information, host and port lie in it and after each other, so they may take its place among the others (`CutSorted`) |
| `UrlInvariant` | `UrlHeld`: while a URL is read, what was handed over of it followed by the bytes from its mark to the one under way has been scanned to the state of the parser, which `http_parser_parse_url` starts in as well: after CONNECT at the server, else before the URL. Most steps are an `Aside`: they leave both alone. Between two calls nothing is marked and what was handed over is all |
| `UrlCuts` | when the head ends the URL was handed over whole (`Holds`), was never refused, and is a string to which `UrlPartsApart` applies |

Only model-checked: liveness, which needs fairness and ENABLED and is out of the
prover's reach; and of `HttpParser` what is compared with the message the sender
composed, which says whether the bytes are the right ones and the end the right
place: `DeliversInOrder`, `EndsAsSent` and `UrlFieldsAsComposed`.

## 6. What was found

* `pool_lost_task`: the manager's exit requests outlive the round that made them.
  `threadPoolAdd` signals one worker; that worker may take an old request and
  leave, and no other is woken. The task waits for ever beside a waiting worker,
  and the manager grows the pool only when there are more tasks than workers.
* `pool_freed_in_use`: `threadPoolDestroy` joins the manager only. Workers that
  wait, run a task or are on their way out use the pool after it is freed.
* `logger_crash_loss`: the cache file survives the crash it is made for, and the
  `init` of the next process truncates it without writing its records to the log. (A
  second `init` in one process truncates it too, and ends the process.)
* `logger_flushed_twice`: a flush does not reset the cache, so each later flush
  appends the same records again.
* `http_paused_at_limit`: a pause in `on_headers_complete` stores the count of header
  bytes with the last LF in it and leaves the LF to the next call, which counts it
  again: a head of exactly `max_header_size` is refused as too long.

Two more disagreements were met, which no run is for. The comment on `recvMsg`
promises -1 on failure; the result of `readn` for the header is not looked at
(`RecvHeaderEnds`), so at the end of the stream the call returns 0 and an allocated
empty message, and `ImplementsChannel` takes a result of 0 for the end as well. And a
folded line sets the header state to `h_general`, which forgets a `close` or `chunked`
read before the fold (`HeaderValueStart`): the connection goes on. A fold after such a
token is not among the connections of `http_stream`.

## 7. Not modelled

* Failing `malloc`, `pthread_create`, mutex or condition initialisation in the
  pool; what happens to memory after it was freed; sizes of records at or above
  the size of the cache, which the code copies past the mapping.
* Two senders on one socket: `writen` takes no lock, but nothing in the repository
  calls `sendMsg` from two threads.
* `unRegisterCallback`, which nobody calls, `binderDied`, which local binders never
  call, and UploadService, DataWrap and the queue of MQService, which nothing uses.
* In the HTTP parser: `http_parser_version`, `http_body_is_final`, the names of
  methods, statuses and errors, `http_parser_set_max_header_size` while a head is
  read, callbacks that are not set, a `Content-Length` in a response of status
  1xx, 204 or 304 (where the code departs from the RFC and reads a body), methods
  beyond those whose spelling or meaning the code treats in a way of its own.
* The components that the plan has not reached, and those that hold no logic of
  their own (see PROJECT.json): stubs, screens and one-shot queries of the
  platform.
