--------------------------- MODULE ThreadPoolProofs ---------------------------
(* Theorems about ThreadPool for all pools, queues and sets of threads.    *)
EXTENDS ThreadPool, FiniteSetTheorems, SequenceTheorems, TLAPS

\* What it means to signal a condition is visible in every proof.
USE DEF NotFullSignalled, NotEmptySignalled

LEMMA SlotsAreFinite == ASSUME NEW S \in SUBSET Slots
                        PROVE  IsFiniteSet(S) /\ Cardinality(S) \in Nat
<1>1. IsFiniteSet(Slots)
  BY FS_Interval, PoolAssumption DEF Slots
<1> QED
  BY <1>1, FS_Subset, FS_CardinalityType

\* A step round the ring, without the remainder.
LEMMA AdvanceInRing == ASSUME NEW i \in Cells
                       PROVE  /\ Advance(i) = (IF i + 1 = Capacity THEN 0 ELSE i + 1)
                              /\ Advance(i) \in Cells
  BY PoolAssumption DEF Cells, Advance

\* Signalling a condition changes no thread but one that waits.
LEMMA WakeOneWakes ==
    ASSUME NEW T, NEW P, NEW pc \in [T -> P], "woken" \in P, NEW pc2 \in WakeOne(pc)
    PROVE  /\ pc2 \in [T -> P]
           /\ \A x \in T : pc2[x] = pc[x] \/ (pc[x] = "waiting" /\ pc2[x] = "woken")
           /\ (\E x \in T : pc[x] = "waiting") => \E x \in T : pc2[x] = "woken"
  BY DEF WakeOne

LEMMA WakeWorkers ==
    ASSUME TypeOK, wpc' \in WakeOne(wpc)
    PROVE  /\ wpc' \in [Slots -> WorkerPlaces]
           /\ \A w \in Slots : wpc'[w] = wpc[w] \/ (wpc[w] = "waiting" /\ wpc'[w] = "woken")
           /\ (\E w \in Slots : wpc[w] = "waiting") => \E w \in Slots : wpc'[w] = "woken"
<1>1. wpc \in [Slots -> WorkerPlaces] /\ "woken" \in WorkerPlaces
  BY DEF TypeOK, WorkerPlaces
<1> QED
  BY <1>1, WakeOneWakes

LEMMA WakeAdds ==
    ASSUME TypeOK, ppc' \in WakeOne(ppc)
    PROVE  /\ ppc' \in [Producers -> AddPlaces]
           /\ \A p \in Producers : ppc'[p] = ppc[p] \/ (ppc[p] = "waiting" /\ ppc'[p] = "woken")
           /\ (\E p \in Producers : ppc[p] = "waiting") => \E p \in Producers : ppc'[p] = "woken"
<1>1. ppc \in [Producers -> AddPlaces] /\ "woken" \in AddPlaces
  BY DEF TypeOK, AddPlaces
<1> QED
  BY <1>1, WakeOneWakes

-------------------------------------------------------------------------------
(* Type correctness, one lemma per thread                                  *)

LEMMA WorkerTypes ==
    ASSUME TypeOK, NEW w \in Slots,
           WorkerStep(w) \/ WorkerWakesSpuriously(w) \/ WorkerRuns(w)
    PROVE  TypeOK'
<1> USE TypeOK DEF TypeOK, manager, destroy, counts, producer, ring
<1>1. CASE WorkerTake(w)
  <2>1. queueSize - 1 \in 0 .. Capacity /\ Advance(queueFront) \in Cells
    BY <1>1, PoolAssumption, AdvanceInRing DEF WorkerTake
  <2>2. Oldest \in Tasks \cup {NoTask}
    BY DEF Oldest
  <2>3. wpc' \in [Slots -> WorkerPlaces] /\ ppc' \in [Producers -> AddPlaces]
    BY <1>1, WakeAdds DEF WorkerTake, WorkerPlaces
  <2> QED
    BY <1>1, <2>1, <2>2, <2>3 DEF WorkerTake
<1>2. CASE WorkerQuit(w)
  BY <1>2 DEF WorkerQuit, WorkerPlaces
<1>3. CASE WorkerFindsEmpty(w)
  BY <1>3 DEF WorkerFindsEmpty, WorkerPlaces
<1>4. CASE WorkerSleep(w)
  BY <1>4 DEF WorkerSleep, WorkerPlaces
<1>5. CASE WorkerWakes(w)
  <2>1. exitNum' \in 0 .. NUMBER /\ liveNum' \in Nat
    BY <1>5, PoolAssumption DEF WorkerWakes, Surplus
  <2> QED
    BY <1>5, <2>1 DEF WorkerWakes, WorkerPlaces
<1>6. CASE WorkerBusy(w)
  BY <1>6 DEF WorkerBusy, WorkerPlaces
<1>7. CASE WorkerIdle(w)
  BY <1>7 DEF WorkerIdle, WorkerPlaces
<1>8. CASE threadExit(w)
  BY <1>8 DEF threadExit, WorkerPlaces
<1>9. CASE WorkerWakesSpuriously(w)
  BY <1>9 DEF WorkerWakesSpuriously, WorkerPlaces
<1>10. CASE WorkerRuns(w)
  BY <1>10 DEF WorkerRuns, WorkerPlaces
<1> QED
  BY <1>1, <1>2, <1>3, <1>4, <1>5, <1>6, <1>7, <1>8, <1>9, <1>10 DEF WorkerStep

LEMMA AddTypes ==
    ASSUME TypeOK, NEW p \in Producers,
           AddStep(p) \/ AddWakesSpuriously(p) \/ \E t \in Tasks : AddCall(p, t)
    PROVE  TypeOK'
<1> USE TypeOK DEF TypeOK, manager, destroy, counts, worker, ring
<1>1. CASE AddPut(p)
  <2>1. queueSize + 1 \in 0 .. Capacity /\ Advance(queueRear) \in Cells
    BY <1>1, PoolAssumption, AdvanceInRing DEF AddPut, QueueFull
  <2>2. wpc' \in [Slots -> WorkerPlaces] /\ ppc' \in [Producers -> AddPlaces]
    BY <1>1, WakeWorkers DEF AddPut, AddPlaces
  <2> QED
    BY <1>1, <2>1, <2>2 DEF AddPut
<1>2. CASE AddRefused(p)
  BY <1>2 DEF AddRefused, AddPlaces
<1>3. CASE AddFindsFull(p)
  BY <1>3 DEF AddFindsFull, AddPlaces
<1>4. CASE AddSleep(p)
  BY <1>4 DEF AddSleep, AddPlaces
<1>5. CASE AddWakesSpuriously(p)
  BY <1>5 DEF AddWakesSpuriously, AddPlaces
<1>6. CASE \E t \in Tasks : AddCall(p, t)
  BY <1>6 DEF AddCall, AddPlaces
<1> QED
  BY <1>1, <1>2, <1>3, <1>4, <1>5, <1>6 DEF AddStep

LEMMA ManagerTypes == ASSUME TypeOK, ManagerStep PROVE TypeOK'
<1> USE TypeOK DEF TypeOK, destroy, counts, worker, producer, ring
<1>0. 0 \in 0 .. NUMBER /\ NUMBER \in 0 .. NUMBER /\ 0 \in 0 .. Capacity
  BY PoolAssumption
<1>1. CASE ManagerLoop
  BY <1>1 DEF ManagerLoop
<1>2. CASE ManagerSample
  BY <1>2 DEF ManagerSample
<1>3. CASE ManagerSampleBusy
  BY <1>3 DEF ManagerSampleBusy
<1>4. CASE ManagerGrow
  <2>1. PICK S \in SUBSET FreeSlots :
            /\ wpc' = [w \in Slots |-> IF w \in S THEN "lock" ELSE wpc[w]]
            /\ liveNum' = LiveNumGrown(Cardinality(S))
    BY <1>4 DEF ManagerGrow
  <2>2. liveNum' \in Nat
    BY <2>1, SlotsAreFinite DEF LiveNumGrown, FreeSlots
  <2>3. wpc' \in [Slots -> WorkerPlaces]
    BY <2>1 DEF WorkerPlaces
  <2> QED
    BY <1>4, <2>2, <2>3 DEF ManagerGrow
<1>5. CASE ManagerNoGrow
  BY <1>5 DEF ManagerNoGrow
<1>6. CASE ManagerShrink
  BY <1>0, <1>6 DEF ManagerShrink
<1>7. CASE ManagerNoShrink
  BY <1>0, <1>7 DEF ManagerNoShrink, ManagerRoundOver
<1>8. CASE ManagerSignal
  <2>1. wpc' \in [Slots -> WorkerPlaces] /\ signals' \in 0 .. NUMBER
    BY <1>8, WakeWorkers, PoolAssumption DEF ManagerSignal
  <2> QED
    BY <1>8, <2>1 DEF ManagerSignal
<1>9. CASE ManagerSignalsSent
  BY <1>0, <1>9 DEF ManagerSignalsSent, ManagerRoundOver
<1> QED
  BY <1>1, <1>2, <1>3, <1>4, <1>5, <1>6, <1>7, <1>8, <1>9, ManagerStep DEF ManagerStep

LEMMA DestroyTypes == ASSUME TypeOK, DestroyCall \/ DestroyStep PROVE TypeOK'
<1> USE TypeOK DEF TypeOK, manager, counts, worker, producer, ring
<1>1. CASE DestroyCall
  BY <1>1 DEF DestroyCall
<1>2. CASE DestroyJoin
  BY <1>2 DEF DestroyJoin
<1>3. CASE DestroySignal
  <2>1. wpc' \in [Slots -> WorkerPlaces]
    BY <1>3, WakeWorkers DEF DestroySignal
  <2> QED
    BY <1>3, <2>1 DEF DestroySignal
<1>4. CASE DestroyFree
  BY <1>4 DEF DestroyFree
<1> QED
  BY <1>1, <1>2, <1>3, <1>4 DEF DestroyStep

\* Every variable of the pool stays in its range: the indices inside the ring,
\* the queue within its capacity, the exit requests within NUMBER.
THEOREM TypeCorrect == Spec => []TypeOK
<1>1. ASSUME Init PROVE TypeOK
  <2>1. 0 \in Cells /\ 0 \in 0 .. Capacity /\ 0 \in 0 .. NUMBER /\ MinNum \in Nat
    BY PoolAssumption DEF Cells
  <2>2. wpc \in [Slots -> WorkerPlaces] /\ ppc \in [Producers -> AddPlaces]
    BY <1>1 DEF Init, WorkerPlaces, AddPlaces
  <2>3. snap \in [size : 0 .. Capacity, live : Nat, busy : Int]
    BY <1>1, <2>1 DEF Init
  <2> QED
    BY <1>1, <2>1, <2>2, <2>3 DEF Init, TypeOK
<1>2. ASSUME TypeOK, [Next]_vars PROVE TypeOK'
  <2>1. CASE UNCHANGED vars
    BY <2>1, TypeOK DEF vars, ring, counts, worker, producer, manager, destroy, TypeOK
  <2>2. CASE Next
    BY <2>2, TypeOK, WorkerTypes, AddTypes, ManagerTypes, DestroyTypes DEF Next
  <2> QED
    BY <1>2, <2>1, <2>2
<1> QED
  BY <1>1, <1>2, PTL DEF Spec

-------------------------------------------------------------------------------
(* The mutex                                                               *)

\* At most one thread is inside a critical section of mutexPool, and the mutex
\* is held exactly then: every path of worker and threadPoolAdd unlocks once,
\* the ones that leave through threadExit or an early return included.
WorkersInside == {w \in Slots : wpc[w] \in {"gap", "test"}}
AddsInside == {p \in Producers : ppc[p] = "gap"}
MutexPoolExclusive ==
    /\ mutexPool <=> WorkersInside \cup AddsInside # {}
    /\ \A v, w \in WorkersInside : v = w
    /\ \A p, q \in AddsInside : p = q
    /\ WorkersInside = {} \/ AddsInside = {}

LEMMA MutexStep ==
    ASSUME TypeOK, MutexPoolExclusive, [Next]_vars
    PROVE  MutexPoolExclusive'
<1> DEFINE Quiet == UNCHANGED <<mutexPool, WorkersInside, AddsInside>>
<1>0. ASSUME Quiet PROVE MutexPoolExclusive'
  BY <1>0 DEF MutexPoolExclusive
<1>1. ASSUME NEW w \in Slots, WorkerTake(w) PROVE MutexPoolExclusive'
  <2>1. AddsInside' = AddsInside
    BY <1>1, WakeAdds DEF WorkerTake, AddsInside
  <2>2. WorkersInside' = WorkersInside \ {w}
    BY <1>1 DEF WorkerTake, WorkersInside, TypeOK
  <2>3. w \in WorkersInside \/ ~mutexPool
    BY <1>1 DEF WorkerTake, AtTest, WorkersInside
  <2> QED
    BY <1>1, <2>1, <2>2, <2>3 DEF MutexPoolExclusive, WorkerTake
<1>2. ASSUME NEW w \in Slots, WorkerQuit(w) \/ WorkerSleep(w) PROVE MutexPoolExclusive'
  <2>1. AddsInside' = AddsInside /\ mutexPool' = FALSE
    BY <1>2 DEF WorkerQuit, WorkerSleep, AddsInside, producer
  <2>2. WorkersInside' = WorkersInside \ {w}
    BY <1>2 DEF WorkerQuit, WorkerSleep, WorkersInside, TypeOK
  <2>3. w \in WorkersInside \/ ~mutexPool
    BY <1>2 DEF WorkerQuit, WorkerSleep, AtTest, WorkersInside
  <2> QED
    BY <1>2, <2>1, <2>2, <2>3 DEF MutexPoolExclusive
<1>3. ASSUME NEW w \in Slots, WorkerFindsEmpty(w) PROVE MutexPoolExclusive'
  <2>1. AddsInside' = AddsInside /\ mutexPool' = TRUE
    BY <1>3 DEF WorkerFindsEmpty, AddsInside, producer
  <2>2. WorkersInside' = WorkersInside \cup {w}
    BY <1>3 DEF WorkerFindsEmpty, WorkersInside, TypeOK
  <2>3. w \in WorkersInside \/ ~mutexPool
    BY <1>3 DEF WorkerFindsEmpty, AtTest, WorkersInside
  <2> QED
    BY <2>1, <2>2, <2>3 DEF MutexPoolExclusive
<1>4. ASSUME NEW w \in Slots, WorkerWakes(w) PROVE MutexPoolExclusive'
  <2>1. AddsInside' = AddsInside /\ ~mutexPool
    BY <1>4 DEF WorkerWakes, AddsInside, producer
  <2>2. \/ WorkersInside' = WorkersInside /\ mutexPool' = mutexPool
        \/ WorkersInside' = WorkersInside \cup {w} /\ mutexPool' = TRUE
    BY <1>4 DEF WorkerWakes, WorkersInside, TypeOK
  <2> QED
    BY <2>1, <2>2 DEF MutexPoolExclusive
<1>5. ASSUME NEW w \in Slots,
             \/ WorkerBusy(w) \/ WorkerIdle(w) \/ threadExit(w)
             \/ WorkerWakesSpuriously(w) \/ WorkerRuns(w)
      PROVE  MutexPoolExclusive'
  <2>1. Quiet
    BY <1>5 DEF WorkerBusy, WorkerIdle, threadExit, WorkerWakesSpuriously, WorkerRuns,
                WorkersInside, AddsInside, TypeOK, producer
  <2> QED
    BY <1>0, <2>1
<1>6. ASSUME NEW p \in Producers, AddPut(p) PROVE MutexPoolExclusive'
  <2>1. WorkersInside' = WorkersInside
    BY <1>6, WakeWorkers DEF AddPut, WorkersInside
  <2>2. AddsInside' = AddsInside /\ UNCHANGED mutexPool
    BY <1>6 DEF AddPut, AddAtTest, AddsInside, TypeOK
  <2> QED
    BY <1>0, <2>1, <2>2
<1>7. ASSUME NEW p \in Producers,
             AddRefused(p) \/ AddWakesSpuriously(p) \/ \E t \in Tasks : AddCall(p, t)
      PROVE  MutexPoolExclusive'
  <2>1. Quiet
    BY <1>7 DEF AddRefused, AddWakesSpuriously, AddCall, AddAtTest,
                WorkersInside, AddsInside, TypeOK, worker
  <2> QED
    BY <1>0, <2>1
<1>8. ASSUME NEW p \in Producers, AddFindsFull(p) PROVE MutexPoolExclusive'
  <2>1. WorkersInside' = WorkersInside /\ ~mutexPool /\ mutexPool' = TRUE
    BY <1>8 DEF AddFindsFull, AddAtTest, WorkersInside, worker
  <2>2. AddsInside' = AddsInside \cup {p}
    BY <1>8 DEF AddFindsFull, AddsInside, TypeOK
  <2> QED
    BY <2>1, <2>2 DEF MutexPoolExclusive
<1>9. ASSUME NEW p \in Producers, AddSleep(p) PROVE MutexPoolExclusive'
  <2>1. WorkersInside' = WorkersInside /\ mutexPool' = FALSE
    BY <1>9 DEF AddSleep, WorkersInside, worker
  <2>2. AddsInside' = AddsInside \ {p} /\ p \in AddsInside
    BY <1>9 DEF AddSleep, AddsInside, TypeOK
  <2> QED
    BY <2>1, <2>2 DEF MutexPoolExclusive
<1>10. CASE ManagerStep
  <2>1. CASE ManagerGrow
    BY <1>0, <2>1 DEF ManagerGrow, FreeSlots, WorkersInside, AddsInside, TypeOK, producer
  <2>2. CASE ManagerSignal
    BY <1>0, <2>2, WakeWorkers DEF ManagerSignal, WorkersInside, AddsInside, producer
  <2>3. CASE ~ManagerGrow /\ ~ManagerSignal
    BY <1>0, <1>10, <2>3
       DEF ManagerStep, ManagerLoop, ManagerSample, ManagerSampleBusy, ManagerNoGrow,
           ManagerShrink, ManagerNoShrink, ManagerSignalsSent, WorkersInside, AddsInside,
           worker, producer
  <2> QED
    BY <2>1, <2>2, <2>3
<1>11. CASE DestroyCall \/ DestroyStep
  <2>1. CASE DestroySignal
    BY <1>0, <2>1, WakeWorkers DEF DestroySignal, WorkersInside, AddsInside, producer
  <2>2. CASE DestroyCall \/ DestroyJoin \/ DestroyFree
    BY <1>0, <2>2 DEF DestroyCall, DestroyJoin, DestroyFree, WorkersInside, AddsInside,
                      worker, producer
  <2> QED
    BY <1>11, <2>1, <2>2 DEF DestroyStep
<1>12. CASE UNCHANGED vars
  BY <1>0, <1>12 DEF vars, WorkersInside, AddsInside, worker, producer
<1> QED
  BY <1>1, <1>2, <1>3, <1>4, <1>5, <1>6, <1>7, <1>8, <1>9, <1>10, <1>11, <1>12
     DEF Next, WorkerStep, AddStep

\* The mutex is held by exactly one thread, or by none when it is free: no path
\* of worker or threadPoolAdd leaves it locked or unlocks it for another.
THEOREM MutexPoolIsExclusive == Spec => []MutexPoolExclusive
<1>1. Init => MutexPoolExclusive
  BY DEF Init, MutexPoolExclusive, WorkersInside, AddsInside
<1> QED
  BY <1>1, MutexStep, TypeCorrect, PTL DEF Spec

-------------------------------------------------------------------------------
(* Steps that leave the variables of an invariant alone                    *)

\* liveNum is changed only by a worker that is asked to exit and by the manager.
LEMMA LiveNumSteps ==
    ASSUME [Next]_vars
    PROVE  \/ UNCHANGED liveNum
           \/ Surplus /\ liveNum' = liveNum - 1
           \/ ManagerGrow
<1> USE DEF counts
<1>1. ASSUME NEW w \in Slots, WorkerStep(w) \/ WorkerWakesSpuriously(w) \/ WorkerRuns(w)
      PROVE  UNCHANGED liveNum \/ (Surplus /\ liveNum' = liveNum - 1)
  BY <1>1 DEF WorkerStep, WorkerTake, WorkerQuit, WorkerFindsEmpty, WorkerSleep, WorkerWakes,
              WorkerBusy, WorkerIdle, threadExit, WorkerWakesSpuriously, WorkerRuns
<1>2. ASSUME NEW p \in Producers,
             AddStep(p) \/ AddWakesSpuriously(p) \/ \E t \in Tasks : AddCall(p, t)
      PROVE  UNCHANGED liveNum
  BY <1>2 DEF AddStep, AddPut, AddRefused, AddFindsFull, AddSleep, AddWakesSpuriously, AddCall
<1>3. ASSUME ManagerStep, ~ManagerGrow PROVE UNCHANGED liveNum
  BY <1>3 DEF ManagerStep, ManagerLoop, ManagerSample, ManagerSampleBusy, ManagerNoGrow,
              ManagerShrink, ManagerNoShrink, ManagerSignal, ManagerSignalsSent
<1>4. ASSUME DestroyCall \/ DestroyStep PROVE UNCHANGED liveNum
  BY <1>4 DEF DestroyStep, DestroyCall, DestroyJoin, DestroySignal, DestroyFree
<1> QED
  BY <1>1, <1>2, <1>3, <1>4 DEF Next, vars

\* The number of live threads stays between the two arguments of
\* threadPoolCreate, although the manager decides on a copy of it that is stale
\* when it acts and requests to exit outlive the round that made them.
THEOREM LiveNumStaysInBounds == Spec => []LiveNumInBounds
<1>1. Init => LiveNumInBounds
  BY PoolAssumption DEF Init, LiveNumInBounds
<1>2. ASSUME TypeOK, LiveNumInBounds, [Next]_vars PROVE LiveNumInBounds'
  <2>1. CASE UNCHANGED liveNum
    BY <1>2, <2>1 DEF LiveNumInBounds
  <2>2. CASE Surplus /\ liveNum' = liveNum - 1
    BY <1>2, <2>2, PoolAssumption DEF Surplus, LiveNumInBounds, TypeOK
  <2>3. CASE ManagerGrow
    <3>1. PICK S \in SUBSET FreeSlots :
              ScanGivesThreadsTo(S) /\ liveNum' = LiveNumGrown(Cardinality(S))
      BY <2>3 DEF ManagerGrow
    <3>2. Cardinality(S) \in Nat
      BY SlotsAreFinite DEF FreeSlots
    <3> QED
      BY <1>2, <3>1, <3>2, PoolAssumption
         DEF ScanGivesThreadsTo, LiveNumGrown, LiveNumInBounds, TypeOK
  <2> QED
    BY <1>2, <2>1, <2>2, <2>3, LiveNumSteps
<1> QED
  BY <1>1, <1>2, TypeCorrect, PTL DEF Spec

-------------------------------------------------------------------------------
(* No signal is lost between a test and the wait that follows it           *)

\* A thread about to wait still holds the mutex, so what it tested is true.
GapInv ==
    /\ \A w \in Slots : wpc[w] = "gap" => queueSize = 0
    /\ \A p \in Producers : ppc[p] = "gap" => QueueFull

LEMMA GapStep ==
    ASSUME TypeOK, MutexPoolExclusive, GapInv, [Next]_vars
    PROVE  GapInv'
<1> USE TypeOK, GapInv DEF GapInv, QueueFull
<1>0. ASSUME UNCHANGED queueSize,
             \A w \in Slots : wpc'[w] = "gap" => wpc[w] = "gap" \/ queueSize = 0,
             \A p \in Producers : ppc'[p] = "gap" => ppc[p] = "gap" \/ QueueFull
      PROVE  GapInv'
  BY <1>0
<1>1. ASSUME NEW w \in Slots, WorkerTake(w) PROVE GapInv'
  <2>1. \A v \in Slots : wpc'[v] # "gap"
    BY <1>1, MutexPoolExclusive
       DEF WorkerTake, AtTest, MutexPoolExclusive, WorkersInside, TypeOK
  <2>2. \A p \in Producers : ppc'[p] # "gap"
    BY <1>1, MutexPoolExclusive, WakeAdds
       DEF WorkerTake, AtTest, MutexPoolExclusive, WorkersInside, AddsInside
  <2> QED
    BY <2>1, <2>2
<1>2. ASSUME NEW w \in Slots,
             (WorkerStep(w) /\ ~WorkerTake(w)) \/ WorkerWakesSpuriously(w) \/ WorkerRuns(w)
      PROVE  GapInv'
  BY <1>0, <1>2
     DEF WorkerStep, WorkerQuit, WorkerFindsEmpty, WorkerSleep, WorkerWakes, WorkerBusy,
         WorkerIdle, threadExit, WorkerWakesSpuriously, WorkerRuns, TypeOK, ring, producer
<1>3. ASSUME NEW p \in Producers, AddPut(p) PROVE GapInv'
  <2>1. \A w \in Slots : wpc'[w] # "gap"
    BY <1>3, MutexPoolExclusive, WakeWorkers
       DEF AddPut, AddAtTest, MutexPoolExclusive, WorkersInside
  <2>2. \A q \in Producers : ppc'[q] # "gap"
    BY <1>3, MutexPoolExclusive DEF AddPut, AddAtTest, MutexPoolExclusive, AddsInside, TypeOK
  <2> QED
    BY <2>1, <2>2
<1>4. ASSUME NEW p \in Producers,
             \/ AddStep(p) /\ ~AddPut(p)
             \/ AddWakesSpuriously(p) \/ \E t \in Tasks : AddCall(p, t)
      PROVE  GapInv'
  BY <1>0, <1>4
     DEF AddStep, AddRefused, AddFindsFull, AddSleep, AddWakesSpuriously, AddCall, TypeOK,
         ring, worker
<1>5. CASE ManagerStep
  <2>1. CASE ManagerGrow
    BY <1>0, <2>1 DEF ManagerGrow, TypeOK, producer, ring
  <2>2. CASE ManagerSignal
    BY <1>0, <2>2, WakeWorkers DEF ManagerSignal, producer, ring
  <2>3. CASE ~ManagerGrow /\ ~ManagerSignal
    BY <1>0, <1>5, <2>3
       DEF ManagerStep, ManagerLoop, ManagerSample, ManagerSampleBusy, ManagerNoGrow,
           ManagerShrink, ManagerNoShrink, ManagerSignalsSent, worker, producer, ring
  <2> QED
    BY <2>1, <2>2, <2>3
<1>6. CASE DestroyCall \/ DestroyStep
  <2>1. CASE DestroySignal
    BY <1>0, <2>1, WakeWorkers DEF DestroySignal, producer, ring
  <2>2. CASE DestroyCall \/ DestroyJoin \/ DestroyFree
    BY <1>0, <2>2 DEF DestroyCall, DestroyJoin, DestroyFree, worker, producer, ring
  <2> QED
    BY <1>6, <2>1, <2>2 DEF DestroyStep
<1>7. CASE UNCHANGED vars
  BY <1>0, <1>7 DEF vars, worker, producer, ring
<1> QED
  BY <1>1, <1>2, <1>3, <1>4, <1>5, <1>6, <1>7 DEF Next, AddStep, WorkerStep

LEMMA GapAlways == Spec => []GapInv
<1>1. Init => GapInv
  BY DEF Init, GapInv
<1> QED
  BY <1>1, GapStep, TypeCorrect, MutexPoolIsExclusive, PTL DEF Spec

\* A producer blocked on a full queue is not stranded: a task is still waiting,
\* whose removal will signal notFull, or a producer was woken already.
THEOREM BlockedAddAlwaysHasHope == Spec => []BlockedAddHasHope
<1> DEFINE Inv == TypeOK /\ GapInv /\ BlockedAddHasHope
<1>1. Init => BlockedAddHasHope
  BY DEF Init, BlockedAddHasHope
<1>2. ASSUME Inv, [Next]_vars PROVE BlockedAddHasHope'
  <2> USE <1>2 DEF BlockedAddHasHope, TypeOK
  <2>0. ASSUME UNCHANGED <<queueSize, ppc>>, shutdown' = shutdown \/ shutdown'
        PROVE  BlockedAddHasHope'
    BY <2>0
  <2>1. ASSUME NEW w \in Slots, WorkerTake(w) PROVE BlockedAddHasHope'
    <3>1. \A p \in Producers : ppc'[p] = "waiting" => ppc[p] = "waiting"
      BY <2>1, WakeAdds DEF WorkerTake
    <3>2. (\E p \in Producers : ppc[p] = "waiting") => \E p \in Producers : ppc'[p] = "woken"
      BY <2>1, WakeAdds DEF WorkerTake
    <3> QED
      BY <3>1, <3>2
  <2>2. ASSUME NEW w \in Slots,
               (WorkerStep(w) /\ ~WorkerTake(w)) \/ WorkerWakesSpuriously(w) \/ WorkerRuns(w)
        PROVE  BlockedAddHasHope'
    BY <2>0, <2>2
       DEF WorkerStep, WorkerQuit, WorkerFindsEmpty, WorkerSleep, WorkerWakes, WorkerBusy,
           WorkerIdle, threadExit, WorkerWakesSpuriously, WorkerRuns, ring, producer, destroy
  <2>3. ASSUME NEW p \in Producers, AddPut(p) PROVE BlockedAddHasHope'
    BY <2>3 DEF AddPut
  <2>4. ASSUME NEW p \in Producers, AddRefused(p) PROVE BlockedAddHasHope'
    BY <2>4 DEF AddRefused, destroy
  <2>5. ASSUME NEW p \in Producers, AddFindsFull(p) \/ AddSleep(p) PROVE BlockedAddHasHope'
    <3>1. queueSize > 0
      BY <2>5, PoolAssumption DEF AddFindsFull, AddSleep, QueueFull, GapInv
    <3>2. queueSize' = queueSize
      BY <2>5 DEF AddFindsFull, AddSleep, ring
    <3> QED
      BY <3>1, <3>2
  <2>6. ASSUME NEW p \in Producers, AddWakesSpuriously(p) PROVE BlockedAddHasHope'
    BY <2>6 DEF AddWakesSpuriously
  <2>7. ASSUME NEW p \in Producers, NEW t \in Tasks, AddCall(p, t) PROVE BlockedAddHasHope'
    BY <2>7 DEF AddCall, ring, destroy
  <2>8. ASSUME ManagerStep \/ DestroyCall \/ DestroyStep \/ UNCHANGED vars
        PROVE  BlockedAddHasHope'
    BY <2>0, <2>8
       DEF ManagerStep, ManagerLoop, ManagerSample, ManagerSampleBusy, ManagerGrow,
           ManagerNoGrow, ManagerShrink, ManagerNoShrink, ManagerSignal, ManagerSignalsSent,
           DestroyCall, DestroyStep, DestroyJoin, DestroySignal, DestroyFree, vars,
           ring, producer, destroy
  <2> QED
    BY <2>1, <2>2, <2>3, <2>4, <2>5, <2>6, <2>7, <2>8 DEF Next, AddStep, WorkerStep
<1> QED
  BY <1>1, <1>2, TypeCorrect, GapAlways, PTL DEF Spec

\* In a pool of fixed size no worker leaves before the pool is shut down.
FixedPoolInv == liveNum = MinNum /\ (~shutdown => Alive = Slots)

LEMMA FixedPoolStep ==
    ASSUME MinNum = MaxNum, TypeOK, TypeOK', LiveNumInBounds', FixedPoolInv, [Next]_vars
    PROVE  FixedPoolInv'
<1>1. liveNum' = MinNum
  BY PoolAssumption DEF LiveNumInBounds, TypeOK
<1>2. ASSUME ~shutdown' PROVE Alive' = Slots
  <2> USE FixedPoolInv DEF FixedPoolInv, Alive, TypeOK
  <2>1. ASSUME NEW w \in Slots, WorkerStep(w) \/ WorkerWakesSpuriously(w) \/ WorkerRuns(w)
        PROVE  Alive' = Slots
    <3>1. shutdown' = shutdown
      BY <2>1 DEF WorkerStep, WorkerTake, WorkerQuit, WorkerFindsEmpty, WorkerSleep, WorkerWakes,
                  WorkerBusy, WorkerIdle, threadExit, WorkerWakesSpuriously, WorkerRuns, destroy
    <3>2. ~Surplus /\ ~threadExit(w)
      BY <1>2, <3>1, PoolAssumption DEF Surplus, threadExit
    <3> QED
      BY <1>2, <2>1, <3>1, <3>2
         DEF WorkerStep, WorkerTake, WorkerQuit, WorkerFindsEmpty, WorkerSleep, WorkerWakes,
             WorkerBusy, WorkerIdle, WorkerWakesSpuriously, WorkerRuns
  <2>2. ASSUME NEW p \in Producers,
               AddStep(p) \/ AddWakesSpuriously(p) \/ \E t \in Tasks : AddCall(p, t)
        PROVE  Alive' = Slots
    <3>1. CASE AddPut(p)
      BY <1>2, <3>1, WakeWorkers DEF AddPut, destroy
    <3> QED
      BY <1>2, <2>2, <3>1
         DEF AddStep, AddRefused, AddFindsFull, AddSleep, AddWakesSpuriously, AddCall,
             worker, destroy
  <2>3. CASE ManagerStep
    <3>1. CASE ManagerGrow
      BY <1>2, <3>1 DEF ManagerGrow, destroy
    <3>2. CASE ManagerSignal
      BY <1>2, <3>2, WakeWorkers DEF ManagerSignal, destroy
    <3> QED
      BY <1>2, <2>3, <3>1, <3>2
         DEF ManagerStep, ManagerLoop, ManagerSample, ManagerSampleBusy, ManagerNoGrow,
             ManagerShrink, ManagerNoShrink, ManagerSignalsSent, worker, destroy
  <2>4. CASE DestroyCall \/ DestroyStep
    <3>1. CASE DestroySignal
      BY <1>2, <3>1, WakeWorkers DEF DestroySignal
    <3> QED
      BY <1>2, <2>4, <3>1 DEF DestroyStep, DestroyCall, DestroyJoin, DestroyFree, worker
  <2>5. CASE UNCHANGED vars
    BY <1>2, <2>5 DEF vars, worker, destroy
  <2> QED
    BY <2>1, <2>2, <2>3, <2>4, <2>5 DEF Next
<1> QED
  BY <1>1, <1>2 DEF FixedPoolInv

\* threadPoolAdd never loses its signal in a pool of fixed size: while a task
\* waits, some worker is awake, and will test the queue before it waits again.
\* The assumption is needed: with MinNum < MaxNum the property is false.
THEOREM FixedPoolNeverSleepsOnATask ==
    ASSUME MinNum = MaxNum
    PROVE  Spec => []TaskHasAwakeWorker
<1> DEFINE Inv == FixedPoolInv /\ TaskHasAwakeWorker
<1>1. ASSUME Init PROVE Inv
  BY <1>1, PoolAssumption DEF Init, FixedPoolInv, TaskHasAwakeWorker, Alive, Slots
<1>2. ASSUME TypeOK, TypeOK', LiveNumInBounds', GapInv, Inv, [Next]_vars
      PROVE  TaskHasAwakeWorker'
  <2> SUFFICES ASSUME queueSize' > 0, ~shutdown', MinNum > 0
               PROVE  \E w \in Slots : wpc'[w] # "waiting"
    <3>1. ~shutdown' => Alive' = Slots
      BY <1>2, FixedPoolStep DEF FixedPoolInv
    <3> QED
      BY <3>1 DEF TaskHasAwakeWorker
  <2> USE <1>2 DEF TypeOK
  <2>1. ASSUME NEW p \in Producers, AddPut(p) PROVE \E w \in Slots : wpc'[w] # "waiting"
    <3>1. MinNum \in Slots
      BY PoolAssumption DEF Slots
    <3>2. \A w \in Slots : wpc'[w] = "waiting" => wpc[w] = "waiting"
      BY <2>1, WakeWorkers DEF AddPut
    <3>3. (\E w \in Slots : wpc[w] = "waiting") => \E w \in Slots : wpc'[w] = "woken"
      BY <2>1, WakeWorkers DEF AddPut
    <3> QED
      BY <3>1, <3>2, <3>3
  <2>2. ASSUME NEW w \in Slots, WorkerStep(w) \/ WorkerWakesSpuriously(w) \/ WorkerRuns(w)
        PROVE  wpc'[w] # "waiting"
    BY <2>2 DEF WorkerStep, WorkerTake, WorkerQuit, WorkerFindsEmpty, WorkerSleep, WorkerWakes,
                WorkerBusy, WorkerIdle, threadExit, WorkerWakesSpuriously, WorkerRuns,
                GapInv, ring
  <2>3. ASSUME queueSize' = queueSize, shutdown' = FALSE => shutdown = FALSE,
               \A w \in Slots : wpc'[w] = "waiting" => wpc[w] = "waiting"
        PROVE  \E w \in Slots : wpc'[w] # "waiting"
    BY <2>3 DEF TaskHasAwakeWorker, Alive
  <2>4. ASSUME NEW p \in Producers,
               \/ AddStep(p) /\ ~AddPut(p)
               \/ AddWakesSpuriously(p) \/ \E t \in Tasks : AddCall(p, t)
        PROVE  \E w \in Slots : wpc'[w] # "waiting"
    BY <2>3, <2>4
       DEF AddStep, AddRefused, AddFindsFull, AddSleep, AddWakesSpuriously, AddCall,
           worker, destroy, ring
  <2>5. CASE ManagerStep
    <3>1. CASE ManagerGrow
      BY <2>3, <3>1 DEF ManagerGrow, destroy, ring
    <3>2. CASE ManagerSignal
      BY <2>3, <3>2, WakeWorkers DEF ManagerSignal, destroy, ring
    <3> QED
      BY <2>3, <2>5, <3>1, <3>2
         DEF ManagerStep, ManagerLoop, ManagerSample, ManagerSampleBusy, ManagerNoGrow,
             ManagerShrink, ManagerNoShrink, ManagerSignalsSent, worker, destroy, ring
  <2>6. CASE DestroyCall \/ DestroyStep
    <3>1. CASE DestroySignal
      BY <2>3, <3>1, WakeWorkers DEF DestroySignal, ring
    <3> QED
      BY <2>3, <2>6, <3>1 DEF DestroyStep, DestroyCall, DestroyJoin, DestroyFree, worker, ring
  <2>7. CASE UNCHANGED vars
    BY <2>3, <2>7 DEF vars, worker, destroy, ring
  <2> QED
    BY <2>1, <2>2, <2>4, <2>5, <2>6, <2>7 DEF Next, AddStep
<1>3. TypeOK /\ TypeOK' /\ LiveNumInBounds' /\ GapInv /\ Inv /\ [Next]_vars => Inv'
  BY <1>2, FixedPoolStep
<1> QED
  BY <1>1, <1>3, TypeCorrect, LiveNumStaysInBounds, GapAlways, PTL DEF Spec

-------------------------------------------------------------------------------
(* The counters count what their names say.                                *)

\* Busy workers: between the two critical sections of mutexBusy.
Busy == {w \in Slots : wpc[w] \in {"running", "finished"}}

LEMMA OneMore == ASSUME NEW S \in SUBSET Slots, NEW w \in Slots \ S
                 PROVE  Cardinality(S \cup {w}) = Cardinality(S) + 1
  BY SlotsAreFinite, FS_AddElement

LEMMA OneLess == ASSUME NEW S \in SUBSET Slots, NEW w \in S
                 PROVE  Cardinality(S \ {w}) = Cardinality(S) - 1
  BY SlotsAreFinite, FS_RemoveElement

LEMMA SomeMore == ASSUME NEW S \in SUBSET Slots, NEW T \in SUBSET Slots, S \cap T = {}
                  PROVE  Cardinality(S \cup T) = Cardinality(S) + Cardinality(T)
<1>1. /\ IsFiniteSet(S) /\ IsFiniteSet(T)
      /\ Cardinality(S) \in Nat /\ Cardinality(T) \in Nat
  BY SlotsAreFinite
<1>2. Cardinality(S \cap T) = 0
  BY FS_EmptySet
<1>3. Cardinality(S \cup T) = Cardinality(S) + Cardinality(T) - Cardinality(S \cap T)
  BY <1>1, FS_Union
<1> QED
  BY <1>1, <1>2, <1>3

\* Who is busy, who is alive and the counters change together or not at all.
Counted == <<Busy, Alive, liveNum, busyNum, shutdown>>

\* The steps that change them, and how.
LEMMA CountSteps ==
    ASSUME TypeOK, [Next]_vars
    PROVE  \/ UNCHANGED Counted
           \/ \E w \in Slots \ Busy :
                 /\ Busy' = Busy \cup {w} /\ busyNum' = busyNum + 1
                 /\ UNCHANGED <<Alive, liveNum, shutdown>>
           \/ \E w \in Busy :
                 /\ Busy' = Busy \ {w} /\ busyNum' = busyNum - 1
                 /\ UNCHANGED <<Alive, liveNum, shutdown>>
           \/ \E w \in Alive :
                 /\ Alive' = Alive \ {w}
                 /\ liveNum' = liveNum - 1 \/ (shutdown /\ liveNum' = liveNum)
                 /\ UNCHANGED <<Busy, busyNum, shutdown>>
           \/ \E S \in SUBSET (Slots \ Alive) :
                 /\ Alive' = Alive \cup S
                 /\ liveNum' = liveNum + Cardinality(S)
                 /\ UNCHANGED <<Busy, busyNum, shutdown>>
           \/ shutdown' /\ UNCHANGED <<Busy, Alive, liveNum, busyNum>>
<1> USE DEF destroy, counts, worker
<1>1. ASSUME NEW w \in Slots, WorkerBusy(w)
      PROVE  /\ w \notin Busy /\ Busy' = Busy \cup {w} /\ busyNum' = busyNum + 1
             /\ UNCHANGED <<Alive, liveNum, shutdown>>
  BY <1>1 DEF WorkerBusy, Busy, Alive, TypeOK
<1>2. ASSUME NEW w \in Slots, WorkerIdle(w)
      PROVE  /\ w \in Busy /\ Busy' = Busy \ {w} /\ busyNum' = busyNum - 1
             /\ UNCHANGED <<Alive, liveNum, shutdown>>
  BY <1>2 DEF WorkerIdle, Busy, Alive, TypeOK
<1>3. ASSUME NEW w \in Slots, WorkerQuit(w)
      PROVE  /\ w \in Alive /\ Alive' = Alive \ {w} /\ shutdown
             /\ UNCHANGED <<Busy, liveNum, busyNum, shutdown>>
  BY <1>3 DEF WorkerQuit, AtTest, Busy, Alive, TypeOK
<1>4. ASSUME NEW w \in Slots, WorkerWakes(w)
      PROVE  \/ UNCHANGED Counted
             \/ /\ w \in Alive /\ Alive' = Alive \ {w} /\ liveNum' = liveNum - 1
                /\ UNCHANGED <<Busy, busyNum, shutdown>>
  BY <1>4 DEF WorkerWakes, Counted, Busy, Alive, TypeOK
<1>5. ASSUME NEW w \in Slots,
             \/ WorkerTake(w) \/ WorkerFindsEmpty(w) \/ WorkerSleep(w) \/ threadExit(w)
             \/ WorkerWakesSpuriously(w) \/ WorkerRuns(w)
      PROVE  UNCHANGED Counted
  BY <1>5 DEF WorkerTake, WorkerFindsEmpty, WorkerSleep, threadExit, WorkerWakesSpuriously,
              WorkerRuns, AtTest, Counted, Busy, Alive, TypeOK
<1>6. ASSUME NEW p \in Producers,
             AddStep(p) \/ AddWakesSpuriously(p) \/ \E t \in Tasks : AddCall(p, t)
      PROVE  UNCHANGED Counted
  <2>1. CASE AddPut(p)
    BY <2>1, WakeWorkers DEF AddPut, NotEmptySignalled, Counted, Busy, Alive
  <2> QED
    BY <1>6, <2>1 DEF AddStep, AddRefused, AddFindsFull, AddSleep, AddWakesSpuriously, AddCall,
                      Counted, Busy, Alive
<1>7. CASE ManagerStep
  <2>1. CASE ManagerGrow
    <3>1. PICK S \in SUBSET FreeSlots :
              /\ wpc' = [w \in Slots |-> IF w \in S THEN "lock" ELSE wpc[w]]
              /\ liveNum' = LiveNumGrown(Cardinality(S))
      BY <2>1 DEF ManagerGrow
    <3>2. S \in SUBSET (Slots \ Alive) /\ Alive' = Alive \cup S /\ Busy' = Busy
      BY <3>1 DEF FreeSlots, Alive, Busy
    <3> QED
      BY <2>1, <3>1, <3>2 DEF ManagerGrow, LiveNumGrown
  <2>2. CASE ManagerSignal
    BY <2>2, WakeWorkers DEF ManagerSignal, Counted, Busy, Alive
  <2>3. CASE ~ManagerGrow /\ ~ManagerSignal
    BY <1>7, <2>3
       DEF ManagerStep, ManagerLoop, ManagerSample, ManagerSampleBusy, ManagerNoGrow,
           ManagerShrink, ManagerNoShrink, ManagerSignalsSent, Counted, Busy, Alive
  <2> QED
    BY <2>1, <2>2, <2>3
<1>8. CASE DestroyCall
  BY <1>8 DEF DestroyCall, Busy, Alive
<1>9. CASE DestroyStep
  <2>1. CASE DestroySignal
    BY <2>1, WakeWorkers DEF DestroySignal, Counted, Busy, Alive
  <2> QED
    BY <1>9, <2>1 DEF DestroyStep, DestroyJoin, DestroyFree, Counted, Busy, Alive
<1>10. CASE UNCHANGED vars
  BY <1>10 DEF vars, Counted, Busy, Alive
<1> QED
  BY <1>1, <1>2, <1>3, <1>4, <1>5, <1>6, <1>7, <1>8, <1>9, <1>10 DEF Next, WorkerStep

LEMMA BusyAndAliveAreSlots == Busy \subseteq Slots /\ Alive \subseteq Slots
  BY DEF Busy, Alive

\* What the manager decides on is true when it is read: busyNum is the number
\* of workers between their two critical sections of mutexBusy, and liveNum the
\* number of threads in the worker loop, whatever the manager did on stale
\* copies, and after the shutdown never less than that.
THEOREM CountersAreRight == Spec => []CountersCountThreads
<1>1. ASSUME Init PROVE CountersCountThreads
  <2>1. {w \in Slots : wpc[w] \in {"running", "finished"}} = {}
    BY <1>1 DEF Init
  <2>2. Alive = 1 .. MinNum
    BY <1>1, PoolAssumption DEF Init, Alive, Slots
  <2>3. Cardinality(1 .. MinNum) = MinNum
    BY PoolAssumption, FS_Interval
  <2> QED
    BY <1>1, <2>1, <2>2, <2>3, FS_EmptySet DEF Init, CountersCountThreads
<1>2. ASSUME TypeOK, CountersCountThreads, [Next]_vars PROVE CountersCountThreads'
  <2>1. busyNum = Cardinality(Busy)
    BY <1>2 DEF CountersCountThreads, Busy
  <2>2. busyNum' = Cardinality(Busy')
    <3>1. CASE UNCHANGED <<Busy, busyNum>>
      BY <2>1, <3>1
    <3>2. ASSUME NEW w \in Slots \ Busy, Busy' = Busy \cup {w}, busyNum' = busyNum + 1
          PROVE  busyNum' = Cardinality(Busy')
      BY <2>1, <3>2, OneMore, BusyAndAliveAreSlots
    <3>3. ASSUME NEW w \in Busy, Busy' = Busy \ {w}, busyNum' = busyNum - 1
          PROVE  busyNum' = Cardinality(Busy')
      BY <2>1, <3>3, OneLess, BusyAndAliveAreSlots
    <3> QED
      BY <1>2, <3>1, <3>2, <3>3, CountSteps DEF Counted
  <2> DEFINE LiveCounts ==
        IF shutdown THEN Cardinality(Alive) <= liveNum ELSE Cardinality(Alive) = liveNum
  <2>3. LiveCounts
    BY <1>2 DEF CountersCountThreads
  <2>4. LiveCounts'
    <3>0. liveNum \in Nat /\ shutdown \in BOOLEAN /\ Cardinality(Alive) \in Nat
      BY <1>2, SlotsAreFinite, BusyAndAliveAreSlots DEF TypeOK
    <3>1. CASE UNCHANGED <<Alive, liveNum, shutdown>>
      BY <2>3, <3>1
    <3>2. ASSUME NEW w \in Alive, Alive' = Alive \ {w}, shutdown' = shutdown,
                 liveNum' = liveNum - 1 \/ (shutdown /\ liveNum' = liveNum)
          PROVE  LiveCounts'
      <4>1. Cardinality(Alive') = Cardinality(Alive) - 1
        BY <3>2, OneLess, BusyAndAliveAreSlots
      <4> QED
        BY <2>3, <3>0, <3>2, <4>1
    <3>3. ASSUME NEW S \in SUBSET (Slots \ Alive), Alive' = Alive \cup S, shutdown' = shutdown,
                 liveNum' = liveNum + Cardinality(S)
          PROVE  LiveCounts'
      <4>1. Cardinality(Alive') = Cardinality(Alive) + Cardinality(S) /\ Cardinality(S) \in Nat
        BY <3>3, SomeMore, SlotsAreFinite, BusyAndAliveAreSlots
      <4> QED
        BY <2>3, <3>0, <3>3, <4>1
    <3>4. CASE shutdown' /\ UNCHANGED <<Alive, liveNum>>
      BY <2>3, <3>0, <3>4
    <3> QED
      BY <1>2, <3>1, <3>2, <3>3, <3>4, CountSteps DEF Counted
  <2> QED
    BY <2>2, <2>4 DEF CountersCountThreads, Busy
<1> QED
  BY <1>1, <1>2, TypeCorrect, PTL DEF Spec

-------------------------------------------------------------------------------
(* The ring of ThreadPool is a queue, and the pool implements TaskPool.    *)

\* A task is in one place: the ring, one call of threadPoolAdd or one worker.
\* A caller holds its task until its call returns, a worker from its lock to
\* the end of the run.
TasksApart ==
    /\ \A i \in 1 .. queueSize, p \in Producers : Pending[i] # arg[p]
    /\ \A p \in Producers, w \in Slots : arg[p] = task[w] => arg[p] = NoTask
    /\ \A p, q \in Producers : arg[p] = arg[q] => p = q \/ arg[p] = NoTask
    /\ \A v, w \in Slots : task[v] = task[w] => v = w \/ task[v] = NoTask
    /\ \A p \in Producers : ppc[p] # "idle" => arg[p] # NoTask
    /\ \A w \in Slots : task[w] # NoTask <=> wpc[w] \in {"taken", "running"}

-------------------------------------------------------------------------------
(* The ring, read from queueFront                                          *)

\* The cell k steps after f, without the remainder.
LEMMA RingIndex ==
    ASSUME NEW f \in Cells, NEW k \in 0 .. Capacity
    PROVE  /\ (f + k) % Capacity = (IF f + k < Capacity THEN f + k ELSE f + k - Capacity)
           /\ (f + k) % Capacity \in Cells
  BY PoolAssumption DEF Cells

\* Pending, of the ring in this state or in the next.
Queue(n, f, q) == [i \in 1 .. n |-> q[(f + i - 1) % Capacity]]

LEMMA QueueFrom ==
    ASSUME NEW T, NEW n \in 0 .. Capacity, NEW f \in Cells, NEW q \in [Cells -> T]
    PROVE  /\ Queue(n, f, q) \in Seq(T) /\ Len(Queue(n, f, q)) = n
           /\ \A i \in 1 .. n :
                 Queue(n, f, q)[i] = q[IF f + i - 1 < Capacity THEN f + i - 1
                                       ELSE f + i - 1 - Capacity]
<1>1. ASSUME NEW i \in 1 .. n
      PROVE  /\ (f + i - 1) % Capacity \in Cells
             /\ (f + i - 1) % Capacity = (IF f + i - 1 < Capacity THEN f + i - 1
                                          ELSE f + i - 1 - Capacity)
  <2>1. i - 1 \in 0 .. Capacity /\ f + i - 1 = f + (i - 1)
    BY PoolAssumption DEF Cells
  <2> QED
    BY <2>1, RingIndex
<1>2. Queue(n, f, q) \in [1 .. n -> T]
  BY <1>1 DEF Queue
<1> QED
  BY <1>1, <1>2 DEF Queue

LEMMA PendingIs ==
    ASSUME TypeOK
    PROVE  /\ Pending \in Seq(Tasks \cup {NoTask}) /\ Len(Pending) = queueSize
           /\ \A i \in 1 .. queueSize :
                 Pending[i] = taskQ[IF queueFront + i - 1 < Capacity
                                    THEN queueFront + i - 1
                                    ELSE queueFront + i - 1 - Capacity]
<1>1. Pending = Queue(queueSize, queueFront, taskQ)
  BY DEF Pending, Queue
<1> QED
  BY <1>1, QueueFrom, SMTT(30) DEF TypeOK

LEMMA PendingIsNext ==
    ASSUME TypeOK'
    PROVE  /\ Pending' \in Seq(Tasks \cup {NoTask}) /\ Len(Pending') = queueSize'
           /\ \A i \in 1 .. queueSize' :
                 Pending'[i] = taskQ'[IF queueFront' + i - 1 < Capacity
                                      THEN queueFront' + i - 1
                                      ELSE queueFront' + i - 1 - Capacity]
<1>1. Pending' = Queue(queueSize', queueFront', taskQ')
  BY DEF Pending, Queue
<1>2. queueSize' \in 0 .. Capacity /\ queueFront' \in Cells
      /\ taskQ' \in [Cells -> Tasks \cup {NoTask}]
  BY DEF TypeOK
<1> QED
  BY <1>1, <1>2, QueueFrom

\* Taking removes the first task of the queue.
LEMMA TakePending ==
    ASSUME TypeOK, TypeOK', NEW w \in Slots, WorkerTake(w)
    PROVE  /\ queueSize > 0 /\ queueSize' = queueSize - 1
           /\ task' = [task EXCEPT ![w] = Pending[1]]
           /\ \A i \in 1 .. queueSize' : Pending'[i] = Pending[i + 1]
           /\ queueRear = (queueFront + queueSize) % Capacity
                 => queueRear' = (queueFront' + queueSize') % Capacity
<1> USE DEF WorkerTake, Cells
<1>1. queueSize \in 1 .. Capacity /\ queueFront \in Cells /\ queueFront' \in Cells
  BY DEF TypeOK
<1>2. queueFront' = IF queueFront + 1 = Capacity THEN 0 ELSE queueFront + 1
  BY <1>1, AdvanceInRing
<1>3. Pending[1] = Oldest
  BY <1>1, PendingIs, PoolAssumption DEF Oldest
<1>4. ASSUME NEW i \in 1 .. queueSize' PROVE Pending'[i] = Pending[i + 1]
  <2>1. Pending'[i] = taskQ[IF queueFront' + i - 1 < Capacity THEN queueFront' + i - 1
                            ELSE queueFront' + i - 1 - Capacity]
    BY PendingIsNext
  <2>2. i + 1 \in 1 .. queueSize
    BY <1>1
  <2> QED
    BY <1>1, <1>2, <2>1, <2>2, PendingIs, PoolAssumption
<1>5. ASSUME queueRear = (queueFront + queueSize) % Capacity
      PROVE  queueRear' = (queueFront' + queueSize') % Capacity
  <2>1. queueSize \in 0 .. Capacity /\ queueSize' \in 0 .. Capacity
    BY <1>1, PoolAssumption
  <2>2. queueRear = IF queueFront + queueSize < Capacity THEN queueFront + queueSize
                    ELSE queueFront + queueSize - Capacity
    BY <1>1, <1>5, <2>1, RingIndex
  <2>3. (queueFront' + queueSize') % Capacity =
            IF queueFront' + queueSize' < Capacity THEN queueFront' + queueSize'
            ELSE queueFront' + queueSize' - Capacity
    BY <1>1, <2>1, RingIndex
  <2>4. queueSize' = queueSize - 1 /\ queueRear' = queueRear
    OBVIOUS
  <2> QED
    BY <1>1, <1>2, <2>2, <2>3, <2>4, PoolAssumption
<1> QED
  BY <1>1, <1>3, <1>4, <1>5

\* Putting appends a task to the queue.
LEMMA PutPending ==
    ASSUME TypeOK, TypeOK', NEW p \in Producers, AddPut(p),
           queueRear = (queueFront + queueSize) % Capacity
    PROVE  /\ queueSize < Capacity /\ queueSize' = queueSize + 1
           /\ \A i \in 1 .. queueSize : Pending'[i] = Pending[i]
           /\ Pending'[queueSize + 1] = arg[p]
           /\ queueRear' = (queueFront' + queueSize') % Capacity
<1> USE DEF AddPut, Cells
<1>1. queueSize \in 0 .. Capacity /\ queueFront \in Cells /\ queueRear \in Cells
  BY DEF TypeOK
<1>2. queueRear' = IF queueRear + 1 = Capacity THEN 0 ELSE queueRear + 1
  BY <1>1, AdvanceInRing
<1>3. queueRear = IF queueFront + queueSize < Capacity THEN queueFront + queueSize
                  ELSE queueFront + queueSize - Capacity
  BY <1>1, RingIndex
<1>4. queueSize < Capacity
  BY <1>1, PoolAssumption DEF QueueFull
<1>5. taskQ' = [taskQ EXCEPT ![queueRear] = arg[p]] /\ taskQ \in [Cells -> Tasks \cup {NoTask}]
  BY DEF TypeOK
<1>6. \A i \in 1 .. queueSize' :
          Pending'[i] = taskQ'[IF queueFront + i - 1 < Capacity THEN queueFront + i - 1
                               ELSE queueFront + i - 1 - Capacity]
  BY PendingIsNext
<1>7. ASSUME NEW i \in 1 .. queueSize PROVE Pending'[i] = Pending[i]
  <2> DEFINE c == IF queueFront + i - 1 < Capacity THEN queueFront + i - 1
                  ELSE queueFront + i - 1 - Capacity
  <2>1. i \in 1 .. queueSize'
    BY <1>1
  <2>2. c \in Cells /\ c # queueRear
    BY <1>1, <1>3, <1>4, PoolAssumption
  <2>3. Pending'[i] = taskQ'[c] /\ Pending[i] = taskQ[c]
    BY <1>6, <2>1, PendingIs
  <2> HIDE DEF c
  <2> QED
    BY <1>5, <2>2, <2>3
<1>8. Pending'[queueSize + 1] = arg[p]
  <2>1. queueSize + 1 \in 1 .. queueSize'
    BY <1>1
  <2>2. Pending'[queueSize + 1] = taskQ'[queueRear]
    BY <1>1, <1>3, <1>6, <2>1
  <2> QED
    BY <1>1, <1>3, <1>5, <2>1, <2>2
<1>9. queueRear' = (queueFront' + queueSize') % Capacity
  <2>1. queueSize' \in 0 .. Capacity
    BY <1>1, <1>4, PoolAssumption
  <2>2. (queueFront' + queueSize') % Capacity =
            IF queueFront' + queueSize' < Capacity THEN queueFront' + queueSize'
            ELSE queueFront' + queueSize' - Capacity
    BY <1>1, <2>1, RingIndex
  <2>3. queueSize' = queueSize + 1 /\ queueFront' = queueFront
    OBVIOUS
  <2> QED
    BY <1>1, <1>2, <1>3, <1>4, <2>2, <2>3, PoolAssumption
<1> QED
  BY <1>4, <1>7, <1>8, <1>9

-------------------------------------------------------------------------------
(* The invariant                                                           *)

\* Steps that move no task.
LEMMA TasksStay ==
    ASSUME RingIsQueue, TasksApart, UNCHANGED <<ring, task, arg>>,
           \A p \in Producers : ppc'[p] # "idle" => ppc[p] # "idle",
           \A w \in Slots : wpc'[w] \in {"taken", "running"} <=> wpc[w] \in {"taken", "running"}
    PROVE  RingIsQueue' /\ TasksApart'
<1>1. Pending' = Pending /\ UNCHANGED <<queueSize, queueFront, queueRear, task, arg>>
  BY DEF Pending, ring
<1>2. RingIsQueue'
  BY <1>1 DEF RingIsQueue
<1>3. TasksApart'
  BY <1>1 DEF TasksApart
<1> QED
  BY <1>2, <1>3

LEMMA TakeMoves ==
    ASSUME TypeOK, TypeOK', RingIsQueue, TasksApart, NEW w \in Slots, WorkerTake(w)
    PROVE  RingIsQueue' /\ TasksApart'
<1>1. /\ queueSize \in Nat /\ queueSize > 0 /\ queueSize' = queueSize - 1
      /\ \A i \in 1 .. queueSize' : Pending'[i] = Pending[i + 1]
      /\ queueRear' = (queueFront' + queueSize') % Capacity
  BY TakePending DEF RingIsQueue, TypeOK
<1>2. /\ task' = [task EXCEPT ![w] = Pending[1]] /\ task \in [Slots -> Tasks \cup {NoTask}]
      /\ wpc' = [wpc EXCEPT ![w] = "taken"] /\ wpc \in [Slots -> WorkerPlaces]
      /\ arg' = arg
      /\ \A p \in Producers : ppc'[p] # "idle" => ppc[p] # "idle"
  BY TakePending, WakeAdds DEF WorkerTake, NotFullSignalled, TypeOK
<1>3. 1 \in 1 .. queueSize /\ \A i \in 1 .. queueSize' : i + 1 \in 1 .. queueSize /\ i + 1 # 1
  BY <1>1
<1>4. RingIsQueue'
  BY <1>1, <1>2, <1>3 DEF RingIsQueue
<1>5. TasksApart'
  <2>1. \A i \in 1 .. queueSize', q \in Producers : Pending'[i] # arg'[q]
    BY <1>1, <1>2, <1>3 DEF RingIsQueue, TasksApart
  <2>2. \A q \in Producers, v \in Slots : arg'[q] = task'[v] => arg'[q] = NoTask
    BY <1>1, <1>2, <1>3 DEF RingIsQueue, TasksApart
  <2>3. \A q, r \in Producers : arg'[q] = arg'[r] => q = r \/ arg'[q] = NoTask
    BY <1>1, <1>2, <1>3 DEF TasksApart
  <2>4. \A u, v \in Slots : task'[u] = task'[v] => u = v \/ task'[u] = NoTask
    BY <1>1, <1>2, <1>3 DEF RingIsQueue, TasksApart
  <2>5. \A q \in Producers : ppc'[q] # "idle" => arg'[q] # NoTask
    BY <1>1, <1>2, <1>3 DEF TasksApart
  <2>6. \A v \in Slots : task'[v] # NoTask <=> wpc'[v] \in {"taken", "running"}
    BY <1>1, <1>2, <1>3 DEF RingIsQueue, TasksApart
  <2> QED
    BY <2>1, <2>2, <2>3, <2>4, <2>5, <2>6 DEF TasksApart
<1> QED
  BY <1>4, <1>5

LEMMA PutMoves ==
    ASSUME TypeOK, TypeOK', RingIsQueue, TasksApart, NEW p \in Producers, AddPut(p)
    PROVE  RingIsQueue' /\ TasksApart'
<1>1. /\ queueSize \in Nat /\ queueSize' = queueSize + 1
      /\ \A i \in 1 .. queueSize : Pending'[i] = Pending[i]
      /\ Pending'[queueSize'] = arg[p]
      /\ queueRear' = (queueFront' + queueSize') % Capacity
  BY PutPending DEF RingIsQueue, TypeOK
<1>2. /\ arg' = [arg EXCEPT ![p] = NoTask] /\ arg \in [Producers -> Tasks \cup {NoTask}]
      /\ ppc' = [ppc EXCEPT ![p] = "idle"] /\ ppc \in [Producers -> AddPlaces]
      /\ task' = task
      /\ \A w \in Slots : wpc'[w] = wpc[w] \/ (wpc[w] = "waiting" /\ wpc'[w] = "woken")
  BY WakeWorkers DEF AddPut, NotEmptySignalled, TypeOK
<1>3. arg[p] # NoTask
  BY DEF AddPut, AddAtTest, TasksApart
<1>4. \A i \in 1 .. queueSize' : i \in 1 .. queueSize \/ i = queueSize'
  BY <1>1
<1>5. RingIsQueue'
  BY <1>1, <1>2, <1>3, <1>4 DEF RingIsQueue, TasksApart
<1>6. TasksApart'
  <2>1. \A i \in 1 .. queueSize', q \in Producers : Pending'[i] # arg'[q]
    BY <1>1, <1>2, <1>3, <1>4 DEF RingIsQueue, TasksApart
  <2>2. \A q \in Producers, v \in Slots : arg'[q] = task'[v] => arg'[q] = NoTask
    BY <1>1, <1>2, <1>3, <1>4 DEF RingIsQueue, TasksApart
  <2>3. \A q, r \in Producers : arg'[q] = arg'[r] => q = r \/ arg'[q] = NoTask
    BY <1>1, <1>2, <1>3, <1>4 DEF TasksApart
  <2>4. \A u, v \in Slots : task'[u] = task'[v] => u = v \/ task'[u] = NoTask
    BY <1>1, <1>2, <1>3, <1>4 DEF RingIsQueue, TasksApart
  <2>5. \A q \in Producers : ppc'[q] # "idle" => arg'[q] # NoTask
    BY <1>1, <1>2, <1>3, <1>4 DEF TasksApart
  <2>6. \A v \in Slots : task'[v] # NoTask <=> wpc'[v] \in {"taken", "running"}
    BY <1>1, <1>2, <1>3, <1>4 DEF RingIsQueue, TasksApart
  <2> QED
    BY <2>1, <2>2, <2>3, <2>4, <2>5, <2>6 DEF TasksApart
<1> QED
  BY <1>5, <1>6

\* The other steps that move a task: a call begins or is refused, a run ends.
LEMMA OthersMove ==
    ASSUME TypeOK, RingIsQueue, TasksApart,
           \/ \E p \in Producers, t \in Tasks : AddCall(p, t)
           \/ \E p \in Producers : AddRefused(p)
           \/ \E w \in Slots : WorkerRuns(w)
    PROVE  RingIsQueue' /\ TasksApart'
<1>1. UNCHANGED ring
  BY DEF AddCall, AddRefused, WorkerRuns
<1>2. Pending' = Pending /\ UNCHANGED <<queueSize, queueFront, queueRear>>
  BY <1>1 DEF Pending, ring
<1>3. ASSUME NEW p \in Producers, NEW t \in Tasks, AddCall(p, t)
      PROVE  RingIsQueue' /\ TasksApart'
  BY <1>2, <1>3, PoolAssumption DEF AddCall, Unused, worker, RingIsQueue, TasksApart, TypeOK
<1>4. ASSUME NEW p \in Producers, AddRefused(p) PROVE RingIsQueue' /\ TasksApart'
  BY <1>2, <1>4 DEF AddRefused, worker, RingIsQueue, TasksApart, TypeOK
<1>5. ASSUME NEW w \in Slots, WorkerRuns(w) PROVE RingIsQueue' /\ TasksApart'
  BY <1>2, <1>5 DEF WorkerRuns, producer, RingIsQueue, TasksApart, TypeOK
<1> QED
  BY <1>3, <1>4, <1>5

LEMMA RingStep ==
    ASSUME TypeOK, TypeOK', RingIsQueue, TasksApart, [Next]_vars
    PROVE  RingIsQueue' /\ TasksApart'
<1> USE TypeOK DEF producer, worker
<1>1. ASSUME NEW w \in Slots, (WorkerStep(w) /\ ~WorkerTake(w)) \/ WorkerWakesSpuriously(w)
      PROVE  RingIsQueue' /\ TasksApart'
  BY <1>1, TasksStay
     DEF WorkerStep, WorkerQuit, WorkerFindsEmpty, WorkerSleep, WorkerWakes, WorkerBusy,
         WorkerIdle, threadExit, WorkerWakesSpuriously, AtTest, TypeOK
<1>2. ASSUME NEW p \in Producers, AddFindsFull(p) \/ AddSleep(p) \/ AddWakesSpuriously(p)
      PROVE  RingIsQueue' /\ TasksApart'
  BY <1>2, TasksStay DEF AddFindsFull, AddSleep, AddWakesSpuriously, AddAtTest, TypeOK
<1>3. CASE ManagerStep
  <2>1. CASE ManagerGrow
    BY <2>1, TasksStay DEF ManagerGrow, FreeSlots, TypeOK
  <2>2. CASE ManagerSignal
    BY <2>2, WakeWorkers, TasksStay DEF ManagerSignal
  <2>3. CASE ~ManagerGrow /\ ~ManagerSignal
    BY <1>3, <2>3, TasksStay
       DEF ManagerStep, ManagerLoop, ManagerSample, ManagerSampleBusy, ManagerNoGrow,
           ManagerShrink, ManagerNoShrink, ManagerSignalsSent
  <2> QED
    BY <2>1, <2>2, <2>3
<1>4. CASE DestroyCall \/ DestroyStep
  <2>1. CASE DestroySignal
    BY <2>1, WakeWorkers, TasksStay DEF DestroySignal
  <2>2. CASE DestroyCall \/ DestroyJoin \/ DestroyFree
    BY <2>2, TasksStay DEF DestroyCall, DestroyJoin, DestroyFree
  <2> QED
    BY <1>4, <2>1, <2>2 DEF DestroyStep
<1>5. CASE UNCHANGED vars
  BY <1>5, TasksStay DEF vars
<1> QED
  BY <1>1, <1>2, <1>3, <1>4, <1>5, TakeMoves, PutMoves, OthersMove
     DEF Next, WorkerStep, AddStep

\* The ring is a queue: its indices agree, every waiting cell holds a task of
\* its own, and none that a worker has taken.  It needs TasksApart: a task that
\* a call carries is stored once, in a cell of its own.
THEOREM RingAlwaysIsQueue == Spec => [](RingIsQueue /\ TasksApart)
<1>1. ASSUME Init PROVE RingIsQueue /\ TasksApart
  <2>1. /\ queueSize = 0 /\ queueFront = 0 /\ queueRear = 0
        /\ queueRear = (queueFront + queueSize) % Capacity
    BY <1>1, RingIndex, PoolAssumption DEF Init, Cells
  <2>2. 1 .. queueSize = {}
    BY <2>1
  <2> QED
    BY <1>1, <2>1, <2>2 DEF Init, RingIsQueue, TasksApart
<1> QED
  BY <1>1, RingStep, TypeCorrect, PTL DEF Spec

-------------------------------------------------------------------------------
(* Each step is a step of TaskPool or a stutter                            *)

\* The tasks in the workers' hands: active of TaskPool.
Active == {task[w] : w \in Slots} \ {NoTask}

\* A worker with no task leaves fewer than MaxNum tasks to the others.
LEMMA RoomForOneMore ==
    ASSUME NEW w \in Slots, task[w] = NoTask
    PROVE  Cardinality(Active) < MaxNum
<1> DEFINE others == Slots \ {w}
           held == {task[v] : v \in others}
<1>1. IsFiniteSet(Slots) /\ Cardinality(Slots) = MaxNum
  BY FS_Interval, PoolAssumption DEF Slots
<1>2. IsFiniteSet(others) /\ Cardinality(others) = MaxNum - 1
  BY <1>1, FS_RemoveElement
<1>3. IsFiniteSet(held) /\ Cardinality(held) <= MaxNum - 1
  <2>1. [v \in others |-> task[v]] \in Surjection(others, held)
    BY DEF Surjection
  <2> QED
    BY <1>2, <2>1, FS_Surjection
<1>4. Active \subseteq held
  BY DEF Active
<1>5. Cardinality(Active) <= Cardinality(held) /\ IsFiniteSet(Active)
  BY <1>3, <1>4, FS_Subset
<1> QED
  BY <1>3, <1>5, FS_CardinalityType, PoolAssumption

\* WorkerTake is Start.
LEMMA TakeStarts ==
    ASSUME TypeOK, TypeOK', RingIsQueue, TasksApart, NEW w \in Slots, WorkerTake(w)
    PROVE  Pool!Start
<1>1. /\ queueSize > 0 /\ queueSize' = queueSize - 1
      /\ task' = [task EXCEPT ![w] = Pending[1]]
      /\ \A i \in 1 .. queueSize' : Pending'[i] = Pending[i + 1]
  BY TakePending
<1>2. /\ Pending \in Seq(Tasks \cup {NoTask}) /\ Len(Pending) = queueSize
      /\ Pending' \in Seq(Tasks \cup {NoTask}) /\ Len(Pending') = queueSize'
  BY PendingIs, PendingIsNext
<1>3. Pending # <<>> /\ Head(Pending) = Pending[1]
  BY <1>1, <1>2, EmptySeq
<1>4. Pending' = Tail(Pending)
  <2>1. /\ Tail(Pending) \in Seq(Tasks \cup {NoTask}) /\ Len(Tail(Pending)) = queueSize'
        /\ \A i \in 1 .. queueSize' : Tail(Pending)[i] = Pending[i + 1]
    BY <1>1, <1>2, <1>3, HeadTailProperties
  <2> QED
    BY <1>1, <1>2, <2>1, SeqEqual
<1>5. task[w] = NoTask /\ Pending[1] # NoTask
  <2>1. wpc[w] \notin {"taken", "running"} /\ 1 \in 1 .. queueSize
    BY <1>1 DEF WorkerTake, AtTest, TypeOK
  <2> QED
    BY <2>1 DEF RingIsQueue, TasksApart
<1>6. Active' = Active \cup {Head(Pending)}
  BY <1>1, <1>3, <1>5, SMTT(30) DEF Active, TypeOK
<1>7. ~shutdown /\ shutdown' = shutdown
  BY DEF WorkerTake, destroy
<1>8. Pool!Cardinality(Active) < MaxNum
  <2>1. Pool!Cardinality(Active) = Cardinality(Active)
    BY DEF Pool!Cardinality, Cardinality
  <2> QED
    BY <1>5, <2>1, RoomForOneMore
<1> QED
  BY <1>3, <1>4, <1>6, <1>7, <1>8 DEF Pool!Start, Active

\* AddPut is Accept of the task that the call carries.
LEMMA PutAccepts ==
    ASSUME TypeOK, TypeOK', RingIsQueue, TasksApart, NEW p \in Producers, AddPut(p)
    PROVE  Pool!Accept(arg[p]) /\ arg[p] \in Tasks
<1>1. /\ queueSize < Capacity /\ queueSize' = queueSize + 1 /\ queueSize \in Nat
      /\ \A i \in 1 .. queueSize : Pending'[i] = Pending[i]
      /\ Pending'[queueSize + 1] = arg[p]
  BY PutPending DEF RingIsQueue, TypeOK
<1>2. /\ Pending \in Seq(Tasks \cup {NoTask}) /\ Len(Pending) = queueSize
      /\ Pending' \in Seq(Tasks \cup {NoTask}) /\ Len(Pending') = queueSize'
  BY PendingIs, PendingIsNext
<1>3. arg[p] # NoTask /\ arg[p] \in Tasks
  BY DEF AddPut, AddAtTest, TasksApart, TypeOK
<1>4. Pending' = Append(Pending, arg[p])
  <2>1. /\ Append(Pending, arg[p]) \in Seq(Tasks \cup {NoTask})
        /\ Len(Append(Pending, arg[p])) = queueSize'
        /\ \A i \in 1 .. queueSize : Append(Pending, arg[p])[i] = Pending[i]
        /\ Append(Pending, arg[p])[queueSize + 1] = arg[p]
    BY <1>1, <1>2, <1>3, AppendProperties
  <2>2. \A i \in 1 .. queueSize' : i \in 1 .. queueSize \/ i = queueSize + 1
    BY <1>1
  <2> QED
    BY <1>1, <1>2, <2>1, <2>2, SeqEqual
<1>5. arg[p] \notin Active /\ \A i \in 1 .. queueSize : Pending[i] # arg[p]
  BY <1>3 DEF Active, TasksApart
<1>6. Active' = Active /\ ~shutdown /\ shutdown' = shutdown
  BY DEF AddPut, destroy, Active
<1> QED
  BY <1>1, <1>2, <1>3, <1>4, <1>5, <1>6 DEF Pool!Accept, Active

\* A run that ends is Finish.
LEMMA RunFinishes ==
    ASSUME TypeOK, TasksApart, NEW w \in Slots, WorkerRuns(w)
    PROVE  Pool!Finish(task[w]) /\ task[w] \in Tasks
<1>1. task[w] # NoTask /\ task[w] \in Tasks
  BY DEF WorkerRuns, TasksApart, TypeOK
<1>2. UNCHANGED <<taskQ, queueSize, queueFront, shutdown>>
  BY DEF WorkerRuns, ring, destroy
<1>3. Active' = Active \ {task[w]} /\ task[w] \in Active
  BY <1>1 DEF WorkerRuns, Active, TasksApart, TypeOK
<1> QED
  BY <1>1, <1>2, <1>3 DEF Pool!Finish, Active, Pending

\* threadPoolDestroy sets the flag once.
CalledOnce == dpc = "idle" => ~shutdown

LEMMA CalledOnceStep == ASSUME CalledOnce, [Next]_vars PROVE CalledOnce'
<1>1. CASE DestroyCall \/ DestroyStep
  BY <1>1 DEF DestroyCall, DestroyStep, DestroyJoin, DestroySignal, DestroyFree, CalledOnce
<1>2. CASE UNCHANGED destroy
  BY <1>2 DEF destroy, CalledOnce
<1>3. ASSUME NEW w \in Slots, WorkerStep(w) \/ WorkerWakesSpuriously(w) \/ WorkerRuns(w)
      PROVE  UNCHANGED destroy
  BY <1>3 DEF WorkerStep, WorkerTake, WorkerQuit, WorkerFindsEmpty, WorkerSleep, WorkerWakes,
              WorkerBusy, WorkerIdle, threadExit, WorkerWakesSpuriously, WorkerRuns
<1>4. ASSUME NEW p \in Producers,
             AddStep(p) \/ AddWakesSpuriously(p) \/ \E t \in Tasks : AddCall(p, t)
      PROVE  UNCHANGED destroy
  BY <1>4 DEF AddStep, AddPut, AddRefused, AddFindsFull, AddSleep, AddWakesSpuriously, AddCall
<1>5. ASSUME ManagerStep PROVE UNCHANGED destroy
  BY <1>5 DEF ManagerStep, ManagerLoop, ManagerSample, ManagerSampleBusy, ManagerGrow,
              ManagerNoGrow, ManagerShrink, ManagerNoShrink, ManagerSignal, ManagerSignalsSent
<1> QED
  BY <1>1, <1>2, <1>3, <1>4, <1>5 DEF Next, vars

\* Every other step leaves the ring, the workers' tasks and the flag alone.
LEMMA OthersStutter ==
    ASSUME TypeOK, [Next]_vars, ~DestroyCall,
           \A w \in Slots : ~WorkerTake(w) /\ ~WorkerRuns(w),
           \A p \in Producers : ~AddPut(p)
    PROVE  UNCHANGED <<Pending, Active, shutdown>>
<1> USE DEF destroy, worker
<1>0. ASSUME UNCHANGED <<ring, task, shutdown>> PROVE UNCHANGED <<Pending, Active, shutdown>>
  BY <1>0 DEF ring, Pending, Active
<1>1. ASSUME NEW w \in Slots, WorkerStep(w) \/ WorkerWakesSpuriously(w)
      PROVE  UNCHANGED <<ring, task, shutdown>>
  BY <1>1 DEF WorkerStep, WorkerQuit, WorkerFindsEmpty, WorkerSleep, WorkerWakes,
              WorkerBusy, WorkerIdle, threadExit, WorkerWakesSpuriously
<1>2. ASSUME NEW p \in Producers,
             AddStep(p) \/ AddWakesSpuriously(p) \/ \E t \in Tasks : AddCall(p, t)
      PROVE  UNCHANGED <<ring, task, shutdown>>
  BY <1>2 DEF AddStep, AddRefused, AddFindsFull, AddSleep, AddWakesSpuriously, AddCall
<1>3. ASSUME ManagerStep PROVE UNCHANGED <<ring, task, shutdown>>
  BY <1>3 DEF ManagerStep, ManagerLoop, ManagerSample, ManagerSampleBusy, ManagerGrow,
              ManagerNoGrow, ManagerShrink, ManagerNoShrink, ManagerSignal, ManagerSignalsSent
<1>4. ASSUME DestroyStep PROVE UNCHANGED <<ring, task, shutdown>>
  BY <1>4 DEF DestroyStep, DestroyJoin, DestroySignal, DestroyFree
<1>5. CASE UNCHANGED vars
  BY <1>0, <1>5 DEF vars
<1> QED
  BY <1>0, <1>1, <1>2, <1>3, <1>4, <1>5 DEF Next

\* The pool is a bounded FIFO: threadPoolAdd appends a task, a worker takes the
\* oldest and runs it once, at most MaxNum at a time, and nothing is accepted
\* or started after the shutdown.  Every other step of the threads is a stutter.
THEOREM PoolImplementsTaskPool == Spec => ImplementsTaskPool
<1>1. ASSUME Init PROVE Pool!Init /\ CalledOnce
  <2>1. Pending = <<>>
    BY <1>1 DEF Init, Pending
  <2>2. Active = {}
    BY <1>1 DEF Init, Active
  <2> QED
    BY <1>1, <2>1, <2>2 DEF Init, Pool!Init, CalledOnce, Active
<1>2. ASSUME TypeOK, TypeOK', RingIsQueue, TasksApart, CalledOnce, [Next]_vars
      PROVE  [Pool!Next]_Pool!vars
  <2>1. ASSUME NEW w \in Slots, WorkerTake(w) PROVE Pool!Next
    BY <1>2, <2>1, TakeStarts DEF Pool!Next
  <2>2. ASSUME NEW w \in Slots, WorkerRuns(w) PROVE Pool!Next
    <3>1. PICK t \in Tasks : t = task[w]
      BY <1>2, <2>2, RunFinishes
    <3>2. Pool!Finish(t)
      BY <1>2, <2>2, <3>1, RunFinishes DEF Pool!Finish
    <3> QED
      BY <3>2 DEF Pool!Next
  <2>3. ASSUME NEW p \in Producers, AddPut(p) PROVE Pool!Next
    BY <1>2, <2>3, PutAccepts DEF Pool!Next
  <2>4. CASE DestroyCall
    <3>1. Pool!Close
      BY <1>2, <2>4 DEF DestroyCall, CalledOnce, Pool!Close, ring, worker, Pending
    <3> QED
      BY <3>1 DEF Pool!Next
  <2>5. ASSUME UNCHANGED <<Pending, Active, shutdown>> PROVE UNCHANGED Pool!vars
    BY <2>5 DEF Pool!vars, Active
  <2> QED
    BY <1>2, <2>1, <2>2, <2>3, <2>4, <2>5, OthersStutter
<1> QED
  BY <1>1, <1>2, CalledOnceStep, TypeCorrect, RingAlwaysIsQueue, PTL
     DEF Spec, ImplementsTaskPool, Pool!Spec
===============================================================================
