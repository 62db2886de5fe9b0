------------------------------ MODULE ThreadPool ------------------------------
(***************************************************************************)
(* The pthread pool of app/src/main/cpp/src/threadpool.cpp: workers, the   *)
(* manager that grows and shrinks them, producers inside threadPoolAdd and *)
(* one caller of threadPoolDestroy.                                        *)
(*                                                                         *)
(* A worker is named by its index in pool->threadIDs: the code gives every *)
(* thread one slot and the thread clears it just before it exits, so slot  *)
(* w holds 0 exactly when wpc[w] = "none".                                 *)
(*                                                                         *)
(* mutexPool is held over a visible step only between a test of the queue  *)
(* and the pthread_cond_wait that follows it ("gap"), and between a wakeup *)
(* and the next test ("test"); every other critical section reads and      *)
(* writes nothing that code outside the lock can change in its middle, so  *)
(* it is one step.  Accesses that the code makes without the lock (the     *)
(* shutdown flag, the manager's and the destroyer's signals, liveNum in    *)
(* threadPoolDestroy, the thread slots, the frees) are steps of their own. *)
(***************************************************************************)
EXTENDS Integers, Sequences, FiniteSets

CONSTANTS
    Tasks,      \* the (function, arg) pairs given to threadPoolAdd
    NoTask,     \* content of a slot or of a local that was never written
    Producers,  \* threads that call threadPoolAdd
    MinNum,     \* arguments of threadPoolCreate
    MaxNum,
    Capacity,
    NUMBER      \* threads created, or told to exit, in one round of the manager

ASSUME PoolAssumption ==
    /\ NoTask \notin Tasks
    /\ MinNum \in Nat
    /\ MaxNum \in Nat
    /\ MinNum <= MaxNum
    /\ Capacity \in Nat \ {0}
    /\ NUMBER \in Nat \ {0}

Slots == 1 .. MaxNum
Cells == 0 .. Capacity - 1

VARIABLES
    taskQ, queueSize, queueFront, queueRear,   \* the ring of waiting tasks
    mutexPool,                                 \* is the pool's mutex held?
    liveNum, busyNum, exitNum,
    shutdown,
    wpc, task,      \* workers: where each is, and its local variable task
    ppc, arg,       \* producers: where each is, and the task of its call
    mpc, snap, signals,   \* manager: where it is, its locals, signals sent
    dpc, sent             \* threadPoolDestroy: where it is, signals sent

ring     == <<taskQ, queueSize, queueFront, queueRear>>
worker   == <<wpc, task>>
producer == <<ppc, arg>>
manager  == <<mpc, snap, signals>>
destroy  == <<dpc, sent, shutdown>>
counts   == <<liveNum, busyNum, exitNum>>
vars     == <<ring, mutexPool, counts, worker, producer, manager, destroy>>

-------------------------------------------------------------------------------
(* Conditions and helpers                                                  *)

Freed == dpc = "freed"

\* Definitions marked "fault:" are seeded bugs: no definition uses them.  Each
\* takes the place of the one that follows it to show that a property notices.
QueueFullLate == queueSize > Capacity              \* fault: off by one
QueueFull == queueSize = Capacity

SurplusOffByOne == liveNum >= MinNum               \* fault: off by one
Surplus == liveNum > MinNum

AdvanceNoWrap(i) == i + 1                          \* fault: no wrap-around
Advance(i) == (i + 1) % Capacity

Newest == taskQ[(queueRear + Capacity - 1) % Capacity]   \* fault: LIFO
Oldest == taskQ[queueFront]

\* The waiting tasks, oldest first.
Pending == [i \in 1 .. queueSize |-> taskQ[(queueFront + i - 1) % Capacity]]

\* pthread_cond_signal: wakes one of the threads that wait, if there is one.
WakeOne(pc) ==
    LET waiting == {x \in DOMAIN pc : pc[x] = "waiting"}
    IN  IF waiting = {} THEN {pc} ELSE {[pc EXCEPT ![x] = "woken"] : x \in waiting}

NotFullForgotten == ppc' = ppc                     \* fault: no signal
NotFullSignalled == ppc' \in WakeOne(ppc)

NotEmptyForgotten == wpc' = wpc                    \* fault: no signal
NotEmptySignalled == wpc' \in WakeOne(wpc)

\* The thread is at the loop's test with the mutex, or can lock it now.
AtTest(pc, x) == pc[x] = "test" \/ (pc[x] = "lock" /\ ~mutexPool)

-------------------------------------------------------------------------------
(* threadPoolCreate                                                        *)

Init ==
    /\ taskQ = [c \in Cells |-> NoTask]
    /\ queueSize = 0 /\ queueFront = 0 /\ queueRear = 0
    /\ mutexPool = FALSE
    /\ liveNum = MinNum /\ busyNum = 0 /\ exitNum = 0
    /\ shutdown = FALSE
    /\ wpc = [w \in Slots |-> IF w <= MinNum THEN "lock" ELSE "none"]
    /\ task = [w \in Slots |-> NoTask]
    /\ ppc = [p \in Producers |-> "idle"]
    /\ arg = [p \in Producers |-> NoTask]
    /\ mpc = "loop" /\ signals = 0
    /\ snap = [size |-> 0, live |-> 0, busy |-> 0]
    /\ dpc = "idle" /\ sent = 0

-------------------------------------------------------------------------------
(* worker and threadExit                                                   *)

\* Queue not empty, pool open: take the oldest task, signal notFull, unlock.
WorkerTake(w) ==
    /\ AtTest(wpc, w)
    /\ queueSize # 0
    /\ ~shutdown
    /\ task' = [task EXCEPT ![w] = Oldest]
    /\ queueFront' = Advance(queueFront)
    /\ queueSize' = queueSize - 1
    /\ NotFullSignalled
    /\ mutexPool' = FALSE
    /\ wpc' = [wpc EXCEPT ![w] = "taken"]
    /\ UNCHANGED <<taskQ, queueRear, counts, arg, manager, destroy>>

\* The pool was shut down: unlock and leave.
WorkerQuit(w) ==
    /\ AtTest(wpc, w)
    /\ shutdown
    /\ mutexPool' = FALSE
    /\ wpc' = [wpc EXCEPT ![w] = "exiting"]
    /\ UNCHANGED <<ring, counts, task, producer, manager, destroy>>

\* fault: the mutex is released before the wait
WorkerFindsEmptyUnlocked(w) ==
    /\ AtTest(wpc, w) /\ queueSize = 0 /\ ~shutdown
    /\ mutexPool' = FALSE
    /\ wpc' = [wpc EXCEPT ![w] = "gap"]
    /\ UNCHANGED <<ring, counts, task, producer, manager, destroy>>

\* Queue empty and shutdown read as 0: go to wait, the mutex still held.
WorkerFindsEmpty(w) ==
    /\ AtTest(wpc, w)
    /\ queueSize = 0
    /\ ~shutdown
    /\ mutexPool' = TRUE
    /\ wpc' = [wpc EXCEPT ![w] = "gap"]
    /\ UNCHANGED <<ring, counts, task, producer, manager, destroy>>

\* pthread_cond_wait(notEmpty): start to wait and release the mutex at once.
WorkerSleep(w) ==
    /\ wpc[w] = "gap"
    /\ mutexPool' = FALSE
    /\ wpc' = [wpc EXCEPT ![w] = "waiting"]
    /\ UNCHANGED <<ring, counts, task, producer, manager, destroy>>

\* The wait returns with the mutex; an exit request is counted down, and
\* followed only by a thread above the minimum.
WorkerWakes(w) ==
    /\ wpc[w] = "woken"
    /\ ~mutexPool
    /\ exitNum' = IF exitNum > 0 THEN exitNum - 1 ELSE 0
    /\ \/ /\ exitNum > 0 /\ Surplus
          /\ liveNum' = liveNum - 1
          /\ wpc' = [wpc EXCEPT ![w] = "exiting"]
          /\ UNCHANGED mutexPool
       \/ /\ ~(exitNum > 0 /\ Surplus)
          /\ wpc' = [wpc EXCEPT ![w] = "test"]
          /\ mutexPool' = TRUE
          /\ UNCHANGED liveNum
    /\ UNCHANGED <<ring, busyNum, task, producer, manager, destroy>>

\* A wait may return without a signal.
WorkerWakesSpuriously(w) ==
    /\ wpc[w] = "waiting"
    /\ wpc' = [wpc EXCEPT ![w] = "woken"]
    /\ UNCHANGED <<ring, mutexPool, counts, task, producer, manager, destroy>>

\* busyNum is counted under mutexBusy, after mutexPool was released.
WorkerBusy(w) ==
    /\ wpc[w] = "taken"
    /\ busyNum' = busyNum + 1
    /\ wpc' = [wpc EXCEPT ![w] = "running"]
    /\ UNCHANGED <<ring, mutexPool, liveNum, exitNum, task, producer, manager, destroy>>

\* task.function(task.arg) returns and the argument is freed.  The code of
\* a task touches nothing of the pool.
WorkerRuns(w) ==
    /\ wpc[w] = "running"
    /\ task' = [task EXCEPT ![w] = NoTask]
    /\ wpc' = [wpc EXCEPT ![w] = "finished"]
    /\ UNCHANGED <<ring, mutexPool, counts, producer, manager, destroy>>

WorkerIdle(w) ==
    /\ wpc[w] = "finished"
    /\ busyNum' = busyNum - 1
    /\ wpc' = [wpc EXCEPT ![w] = "lock"]
    /\ UNCHANGED <<ring, mutexPool, liveNum, exitNum, task, producer, manager, destroy>>

\* threadExit: the thread clears its slot, without the mutex, and is gone.
threadExit(w) ==
    /\ wpc[w] = "exiting"
    /\ wpc' = [wpc EXCEPT ![w] = "none"]
    /\ UNCHANGED <<ring, mutexPool, counts, task, producer, manager, destroy>>

-------------------------------------------------------------------------------
(* threadPoolAdd                                                           *)

\* Tasks that are neither waiting, nor carried by a call or by a worker: the
\* worker frees the argument, so a caller owns it in none of these places.
Unused(t) ==
    /\ \A i \in 1 .. queueSize : Pending[i] # t
    /\ \A p \in Producers : arg[p] # t
    /\ \A w \in Slots : task[w] # t

AddCall(p, t) ==
    /\ ppc[p] = "idle"
    /\ Unused(t)
    /\ arg' = [arg EXCEPT ![p] = t]
    /\ ppc' = [ppc EXCEPT ![p] = "lock"]
    /\ UNCHANGED <<ring, mutexPool, counts, worker, manager, destroy>>

\* The call is about to test the queue: it locks, or its wait returns.
AddAtTest(p) == ppc[p] \in {"lock", "woken"} /\ ~mutexPool

\* Room in the ring: store the task, signal notEmpty, unlock, return.
AddPut(p) ==
    /\ AddAtTest(p)
    /\ ~QueueFull
    /\ ~shutdown
    /\ taskQ' = [taskQ EXCEPT ![queueRear] = arg[p]]
    /\ queueRear' = Advance(queueRear)
    /\ queueSize' = queueSize + 1
    /\ NotEmptySignalled
    /\ arg' = [arg EXCEPT ![p] = NoTask]
    /\ ppc' = [ppc EXCEPT ![p] = "idle"]
    /\ UNCHANGED <<queueFront, mutexPool, counts, task, manager, destroy>>

\* The pool was shut down: the task is not accepted.
AddRefused(p) ==
    /\ AddAtTest(p)
    /\ shutdown
    /\ arg' = [arg EXCEPT ![p] = NoTask]
    /\ ppc' = [ppc EXCEPT ![p] = "idle"]
    /\ UNCHANGED <<ring, mutexPool, counts, worker, manager, destroy>>

AddFindsFull(p) ==
    /\ AddAtTest(p)
    /\ QueueFull
    /\ ~shutdown
    /\ mutexPool' = TRUE
    /\ ppc' = [ppc EXCEPT ![p] = "gap"]
    /\ UNCHANGED <<ring, counts, worker, arg, manager, destroy>>

AddSleep(p) ==
    /\ ppc[p] = "gap"
    /\ mutexPool' = FALSE
    /\ ppc' = [ppc EXCEPT ![p] = "waiting"]
    /\ UNCHANGED <<ring, counts, worker, arg, manager, destroy>>

AddWakesSpuriously(p) ==
    /\ ppc[p] = "waiting"
    /\ ppc' = [ppc EXCEPT ![p] = "woken"]
    /\ UNCHANGED <<ring, mutexPool, counts, worker, arg, manager, destroy>>

-------------------------------------------------------------------------------
(* manager                                                                 *)

\* fault: the flag is not tested
ManagerLoopForever ==
    /\ mpc = "loop"
    /\ mpc' = "sample"
    /\ UNCHANGED <<ring, mutexPool, counts, worker, producer, snap, signals, destroy>>

ManagerLoop ==
    /\ mpc = "loop"
    /\ mpc' = IF shutdown THEN "ended" ELSE "sample"
    /\ UNCHANGED <<ring, mutexPool, counts, worker, producer, snap, signals, destroy>>

\* After sleep(3): queueSize and liveNum are copied under mutexPool ...
ManagerSample ==
    /\ mpc = "sample"
    /\ ~mutexPool
    /\ snap' = [snap EXCEPT !.size = queueSize, !.live = liveNum]
    /\ mpc' = "busy"
    /\ UNCHANGED <<ring, mutexPool, counts, worker, producer, signals, destroy>>

\* ... and busyNum, later, under mutexBusy.
ManagerSampleBusy ==
    /\ mpc = "busy"
    /\ snap' = [snap EXCEPT !.busy = busyNum]
    /\ mpc' = "grow"
    /\ UNCHANGED <<ring, mutexPool, counts, worker, producer, signals, destroy>>

WantsMoreLate == snap.size > snap.live + 1 /\ snap.live < MaxNum   \* fault: off by one
WantsMore  == snap.size > snap.live /\ snap.live < MaxNum
WantsFewer == snap.busy * 2 < snap.live /\ snap.live > MinNum

FreeSlots == {i \in Slots : wpc[i] = "none"}

\* The scan of threadIDs gives threads to the lowest free slots, and ends when
\* every slot was seen, NUMBER threads were created or liveNum is MaxNum.
ScanGivesThreadsTo(S) ==
    /\ Cardinality(S) <= NUMBER
    /\ liveNum + Cardinality(S) <= MaxNum
    /\ \/ S = FreeSlots
       \/ Cardinality(S) = NUMBER
       \/ liveNum + Cardinality(S) = MaxNum
    /\ \A i \in S, j \in FreeSlots \ S : i < j

LiveNumByRound(n) == liveNum + NUMBER             \* fault: a full round assumed
LiveNumGrown(n) == liveNum + n

ManagerGrow ==
    /\ mpc = "grow"
    /\ WantsMore
    /\ ~mutexPool
    /\ \E S \in SUBSET FreeSlots :
        /\ ScanGivesThreadsTo(S)
        /\ wpc' = [w \in Slots |-> IF w \in S THEN "lock" ELSE wpc[w]]
        /\ liveNum' = LiveNumGrown(Cardinality(S))
    /\ mpc' = "shrink"
    /\ UNCHANGED <<ring, mutexPool, busyNum, exitNum, task, producer, snap, signals, destroy>>

ManagerNoGrow ==
    /\ mpc = "grow"
    /\ ~WantsMore
    /\ mpc' = "shrink"
    /\ UNCHANGED <<ring, mutexPool, counts, worker, producer, snap, signals, destroy>>

ManagerShrink ==
    /\ mpc = "shrink"
    /\ WantsFewer
    /\ ~mutexPool
    /\ exitNum' = NUMBER
    /\ mpc' = "signal"
    /\ UNCHANGED <<ring, mutexPool, liveNum, busyNum, worker, producer, snap, signals, destroy>>

\* The locals of the round are dead here; they are reset.
ManagerRoundOver ==
    /\ mpc' = "loop"
    /\ snap' = [size |-> 0, live |-> 0, busy |-> 0]
    /\ signals' = 0

ManagerNoShrink ==
    /\ mpc = "shrink"
    /\ ~WantsFewer
    /\ ManagerRoundOver
    /\ UNCHANGED <<ring, mutexPool, counts, worker, producer, destroy>>

\* NUMBER signals, sent without the mutex.
ManagerSignal ==
    /\ mpc = "signal"
    /\ signals < NUMBER
    /\ wpc' \in WakeOne(wpc)
    /\ signals' = signals + 1
    /\ UNCHANGED <<ring, mutexPool, counts, task, producer, mpc, snap, destroy>>

ManagerSignalsSent ==
    /\ mpc = "signal"
    /\ signals = NUMBER
    /\ ManagerRoundOver
    /\ UNCHANGED <<ring, mutexPool, counts, worker, producer, destroy>>

-------------------------------------------------------------------------------
(* threadPoolDestroy                                                       *)

\* shutdown = 1, without the mutex.
DestroyCall ==
    /\ dpc = "idle"
    /\ shutdown' = TRUE
    /\ dpc' = "join"
    /\ UNCHANGED <<ring, mutexPool, counts, worker, producer, manager, sent>>

\* pthread_join(managerID).
DestroyJoin ==
    /\ dpc = "join"
    /\ mpc = "ended"
    /\ dpc' = "signal"
    /\ UNCHANGED <<ring, mutexPool, counts, worker, producer, manager, sent, shutdown>>

\* One signal per live thread; liveNum is read again before each.
DestroySignal ==
    /\ dpc = "signal"
    /\ sent < liveNum
    /\ wpc' \in WakeOne(wpc)
    /\ sent' = sent + 1
    /\ UNCHANGED <<ring, mutexPool, counts, task, producer, manager, dpc, shutdown>>

\* The queue, the slots, the mutexes, the conditions and the pool are freed.
DestroyFree ==
    /\ dpc = "signal"
    /\ sent >= liveNum
    /\ dpc' = "freed"
    /\ UNCHANGED <<ring, mutexPool, counts, worker, producer, manager, sent, shutdown>>

-------------------------------------------------------------------------------
(* Whoever touches the pool after it was freed has undefined behaviour: no *)
(* such step is in the model.  Only a task's own code still runs.          *)

WorkerStep(w) ==
    \/ WorkerTake(w) \/ WorkerQuit(w) \/ WorkerFindsEmpty(w) \/ WorkerSleep(w)
    \/ WorkerWakes(w) \/ WorkerBusy(w) \/ WorkerIdle(w) \/ threadExit(w)

AddStep(p) == AddPut(p) \/ AddRefused(p) \/ AddFindsFull(p) \/ AddSleep(p)

ManagerStep ==
    \/ ManagerLoop \/ ManagerSample \/ ManagerSampleBusy
    \/ ManagerGrow \/ ManagerNoGrow \/ ManagerShrink \/ ManagerNoShrink
    \/ ManagerSignal \/ ManagerSignalsSent

DestroyStep == DestroyJoin \/ DestroySignal \/ DestroyFree

Next ==
    \/ /\ ~Freed
       /\ \/ \E w \in Slots : WorkerStep(w) \/ WorkerWakesSpuriously(w)
          \/ \E p \in Producers : AddStep(p) \/ AddWakesSpuriously(p)
          \/ \E p \in Producers, t \in Tasks : AddCall(p, t)
          \/ ManagerStep
          \/ DestroyCall
          \/ DestroyStep
    \/ \E w \in Slots : WorkerRuns(w)

Spec == Init /\ [][Next]_vars

(* Every thread that can run keeps running, a thread that finds mutexPool  *)
(* free again and again locks it at last, and a task's code returns.  No   *)
(* call is ever promised, no spurious wakeup, no shutdown.                 *)
Fairness ==
    /\ \A w \in Slots : SF_vars(~Freed /\ WorkerStep(w)) /\ WF_vars(WorkerRuns(w))
    /\ \A p \in Producers : SF_vars(~Freed /\ AddStep(p))
    /\ SF_vars(~Freed /\ ManagerStep)
    /\ WF_vars(~Freed /\ DestroyStep)

FairSpec == Spec /\ Fairness

-------------------------------------------------------------------------------
(* Properties                                                              *)

WorkerPlaces == {"none", "lock", "gap", "waiting", "woken", "test",
                 "taken", "running", "finished", "exiting"}
AddPlaces == {"idle", "lock", "gap", "waiting", "woken"}

\* Type invariant: every variable of threadpool.h stays in its range.
TypeOK ==
    /\ taskQ \in [Cells -> Tasks \cup {NoTask}]
    /\ queueSize \in 0 .. Capacity /\ queueFront \in Cells /\ queueRear \in Cells
    /\ mutexPool \in BOOLEAN
    /\ liveNum \in Nat /\ busyNum \in Int /\ exitNum \in 0 .. NUMBER
    /\ shutdown \in BOOLEAN
    /\ wpc \in [Slots -> WorkerPlaces]
    /\ task \in [Slots -> Tasks \cup {NoTask}]
    /\ ppc \in [Producers -> AddPlaces]
    /\ arg \in [Producers -> Tasks \cup {NoTask}]
    /\ mpc \in {"loop", "sample", "busy", "grow", "shrink", "signal", "ended"}
    /\ snap \in [size : 0 .. Capacity, live : Nat, busy : Int]
    /\ signals \in 0 .. NUMBER
    /\ dpc \in {"idle", "join", "signal", "freed"}
    /\ sent \in Nat

\* liveNum never leaves minNum..maxNum, although the manager acts on a copy
\* of it and exit requests outlive the round that made them.
LiveNumInBounds == MinNum <= liveNum /\ liveNum <= MaxNum

\* Threads that threadIDs records and that have not left the worker loop.
Alive == {w \in Slots : wpc[w] \notin {"none", "exiting"}}

\* The counters that the manager compares count what they are named for:
\* busyNum the workers between their two critical sections of mutexBusy,
\* liveNum the threads in the worker loop, while threads clear their slots
\* without the mutex; a shut down pool no longer counts those that quit.
CountersCountThreads ==
    /\ busyNum = Cardinality({w \in Slots : wpc[w] \in {"running", "finished"}})
    /\ IF shutdown THEN Cardinality(Alive) <= liveNum ELSE Cardinality(Alive) = liveNum

\* The three indices of the ring agree, and every waiting cell holds a task of
\* its own that no worker has taken: nothing is overwritten or run twice.
RingIsQueue ==
    /\ queueRear = (queueFront + queueSize) % Capacity
    /\ \A i \in 1 .. queueSize : Pending[i] # NoTask
    /\ \A i, j \in 1 .. queueSize : i # j => Pending[i] # Pending[j]
    /\ \A i \in 1 .. queueSize, w \in Slots : Pending[i] # task[w]

\* With no surplus thread to send away, a waiting task always has a worker
\* awake that will find it: the signal of threadPoolAdd is never lost between
\* a worker's test of the queue and its wait.
TaskHasAwakeWorker ==
    queueSize > 0 /\ ~shutdown /\ MinNum > 0 =>
        \E w \in Alive : wpc[w] # "waiting"

\* A producer blocked on a full queue is never stranded: a task is still
\* waiting, whose removal will signal notFull, or a producer was woken.
BlockedAddHasHope ==
    (\E p \in Producers : ppc[p] = "waiting") /\ ~shutdown =>
        queueSize > 0 \/ \E p \in Producers : ppc[p] = "woken"

\* The pool is a bounded FIFO of tasks run by at most MaxNum workers.
Pool == INSTANCE TaskPool WITH
            pending <- Pending,
            active <- {task[w] : w \in Slots} \ {NoTask},
            closed <- shutdown
ImplementsTaskPool == Pool!Spec

\* In a pool that never shrinks, every waiting task is taken, unless the pool
\* is shut down first.
WaitingTaskIsTaken ==
    \A t \in Tasks :
        (\E i \in 1 .. queueSize : Pending[i] = t)
            ~> (shutdown \/ \A i \in 1 .. queueSize : Pending[i] # t)

\* A call of threadPoolAdd returns, unless the pool is shut down meanwhile.
AddReturns == \A p \in Producers : (ppc[p] # "idle") ~> (ppc[p] = "idle" \/ shutdown)

\* threadPoolDestroy returns: the manager sees the flag and no loop is endless.
DestroyReturns == shutdown ~> Freed

-------------------------------------------------------------------------------
(* What comments of the code say and the code does not do                  *)

\* A worker tests "whether the pool was closed" and leaves through threadExit,
\* which reads the pool: every worker has left when the pool is freed.
WorkersLeaveBeforeFree == Freed => \A w \in Slots : wpc[w] = "none"
===============================================================================
