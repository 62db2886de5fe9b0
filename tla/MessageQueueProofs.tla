--------------------------- MODULE MessageQueueProofs ---------------------------
(* Theorems about MessageQueue for all sets of services and any number of  *)
(* rounds.                                                                 *)
EXTENDS MessageQueue, FiniteSetTheorems, TLAPS

\* The one thread that sends, if any.
Alone(c) == \A d \in Collectors \ {c} : thread[d] = "none"

\* Two threads, or the thread of c alone.
LEMMA CreatedAlone ==
    ASSUME NEW c \in Collectors, thread[c] # "none"
    PROVE  Cardinality(Created) > 1 <=> ~Alone(c)
<1>1. IsFiniteSet(Created) /\ c \in Created
  BY QueueAssumption, FS_Subset DEF Created
<1>2. CASE Alone(c)
  <2>1. Created = {c}
    BY <1>1, <1>2 DEF Alone, Created
  <2> QED
    BY <1>2, <2>1, FS_Singleton
<1>3. CASE ~Alone(c)
  <2>1. PICK d \in Created : d # c
    BY <1>3 DEF Alone, Created
  <2>2. IsFiniteSet(Created \ {c}) /\ Cardinality(Created \ {c}) = Cardinality(Created) - 1
    BY <1>1, FS_RemoveElement
  <2>3. Cardinality(Created \ {c}) \in Nat /\ Cardinality(Created) \in Nat
    BY <1>1, <2>2, FS_CardinalityType
  <2>4. Cardinality(Created \ {c}) # 0
    BY <2>1, <2>2, FS_EmptySet
  <2> QED
    BY <1>3, <2>2, <2>3, <2>4
<1> QED
  BY <1>2, <1>3

LEMMA CallbacksCounted == ASSUME callbacks \subseteq Savers
                          PROVE  Cardinality(callbacks) \in Nat
  BY QueueAssumption, FS_Subset, FS_CardinalityType

-------------------------------------------------------------------------------
(* Type correctness                                                        *)

TypeInv == TypeOK /\ \A c \in Collectors : thread[c] = "dispatch" => n[c] < MaxRounds

LEMMA SaversBounded ==
    ASSUME NEW S \in SUBSET Savers
    PROVE  Cardinality(S) \in 0 .. Cardinality(Savers) /\ Cardinality(Savers) \in Nat
  BY QueueAssumption, FS_Subset, FS_CardinalityType

LEMMA SeqOfLength == ASSUME NEW S, NEW k \in Nat, NEW f \in [1 .. k -> S]
                     PROVE  f \in Seq(S) /\ Len(f) = k
  OBVIOUS

LEMMA TypeSteps ==
    ASSUME TypeInv, [Next]_vars
    PROVE  TypeInv'
<1> USE QueueAssumption DEF TypeInv, TypeOK, Services, services, list, threads
<1>1. ASSUME NEW c \in Collectors, StartCollect(c) \/ CollectorConnected(c)
      PROVE  TypeInv'
  BY <1>1 DEF StartCollect, bindMQService, CollectorConnected
<1>9. ASSUME NEW c \in Collectors, RoundWithoutQueue(c)
      PROVE  TypeInv'
  BY <1>9 DEF RoundWithoutQueue, RoundLeft
<1>2. ASSUME NEW c \in Collectors, BeginThrows(c) \/ FinishThrows(c)
      PROVE  TypeInv'
  BY <1>2 DEF BeginThrows, FinishThrows, Throws
<1>3. ASSUME NEW c \in Collectors, beginBroadcast(c)
      PROVE  TypeInv'
  <2>1. Cardinality(callbacks) \in 0 .. Cardinality(Savers) /\ Cardinality(Savers) \in Nat
    BY SaversBounded
  <2>2. active' \in Seq(Savers \cup {NoCallback}) /\ Len(active') <= Cardinality(Savers)
    <3>1. CASE callbacks = {}
      BY <1>3, <3>1 DEF beginBroadcast
    <3>2. CASE callbacks # {}
      <4>1. active' \in [1 .. Cardinality(callbacks) -> callbacks]
        BY <1>3, <3>2 DEF beginBroadcast, SetToSeqs
      <4>2. active' \in [1 .. Cardinality(callbacks) -> Savers \cup {NoCallback}]
        BY <4>1
      <4>3. active' \in Seq(Savers \cup {NoCallback}) /\ Len(active') = Cardinality(callbacks)
        BY <2>1, <4>2, SeqOfLength
      <4> QED
        BY <2>1, <4>3
    <3> QED
      BY <3>1, <3>2
  <2> QED
    BY <1>3, <2>1, <2>2 DEF beginBroadcast, RoundLeft
<1>4. ASSUME NEW c \in Collectors, onDispatchData(c)
      PROVE  TypeInv'
  <2>1. <<c, n[c]>> \in Data /\ i'[c] \in 1 .. Cardinality(Savers) + 1
    BY <1>4, SaversBounded DEF onDispatchData, Data
  <2>2. got' \in [Savers -> Seq(Data)]
    <3>1. CASE ItemAt(c) \in Savers
      <4>1. got[ItemAt(c)] \in Seq(Data)
        BY <3>1
      <4>2. Append(got[ItemAt(c)], <<c, n[c]>>) \in Seq(Data)
        BY <2>1, <4>1
      <4> QED
        BY <1>4, <3>1, <4>2 DEF onDispatchData
    <3>2. CASE ItemAt(c) \notin Savers
      BY <1>4, <3>2 DEF onDispatchData
    <3> QED
      BY <3>1, <3>2
  <2> QED
    BY <1>4, <2>1, <2>2 DEF onDispatchData
<1>5. ASSUME NEW c \in Collectors, finishBroadcast(c)
      PROVE  TypeInv'
  <2>1. /\ n[c] < MaxRounds /\ n' = [n EXCEPT ![c] = @ + 1]
        /\ thread' = [thread EXCEPT ![c] = "loop"] /\ count' = -1
        /\ UNCHANGED <<process, services, callbacks, num, i, to, got>>
    BY <1>5 DEF finishBroadcast, AllCalled, CountAfter
  <2>2. active' \in Seq(Savers \cup {NoCallback}) /\ Len(active') = Len(active)
    BY <1>5 DEF finishBroadcast
  <2>3. n' \in [Collectors -> 0 .. MaxRounds] /\ \A d \in Collectors \ {c} : n'[d] = n[d]
    BY <2>1
  <2>4. -1 \in -1 .. Cardinality(Savers) /\ Cardinality(Savers) \in Nat
    BY SaversBounded
  <2> QED
    BY <2>1, <2>2, <2>3, <2>4
<1>6. ASSUME NEW s \in Savers, StartSave(s) \/ SaverConnected(s)
      PROVE  TypeInv'
  BY <1>6 DEF StartSave, bindMQService, SaverConnected
<1>7. ASSUME (\E x \in Services : SystemStops(x)) \/ Killed \/ UNCHANGED vars
      PROVE  TypeInv'
  BY <1>7 DEF SystemStops, Killed, vars
<1>8. CASE Restarted
  BY <1>8, SaversBounded DEF Restarted, Fresh
<1> QED
  BY <1>1, <1>2, <1>3, <1>4, <1>5, <1>6, <1>7, <1>8, <1>9 DEF Next, ThreadStep

\* Every variable keeps its type: no round, index or broadcast count runs past
\* its end in whatever order threads, registrations and restarts meet.
THEOREM TypeCorrect == Spec => []TypeOK
<1>1. Init => TypeInv
  BY QueueAssumption, SaversBounded DEF Init, TypeInv, TypeOK, Services
<1>2. TypeInv /\ [Next]_vars => TypeInv'
  BY TypeSteps
<1>3. TypeInv => TypeOK
  BY DEF TypeInv
<1> QED
  BY <1>1, <1>2, <1>3, PTL DEF Spec

-------------------------------------------------------------------------------
(* Nobody throws                                                           *)

Types ==
    /\ callbacks \subseteq Savers
    /\ count \in Int
    /\ thread \in [Collectors -> {"none", "loop", "dispatch"}]
    /\ n \in [Collectors -> Int] /\ num \in [Collectors -> Nat] /\ i \in [Collectors -> Nat \ {0}]

\* The broadcast is that of the one thread there is.
CountOfOne ==
    \A c \in Collectors : Alone(c) =>
        /\ thread[c] = "dispatch" => count = num[c]
        /\ thread[c] # "dispatch" => count = -1

QueueInv ==
    /\ Types /\ CountOfOne
    /\ process = "threw" => \E c \in Collectors : thread[c] # "none" /\ ~Alone(c)

LEMMA QueueSteps ==
    ASSUME QueueInv, [Next]_vars
    PROVE  QueueInv'
<1> USE DEF QueueInv, Types, CountOfOne, Alone, services, list, threads
<1>1. ASSUME NEW c \in Collectors, StartCollect(c)
      PROVE  QueueInv'
  BY <1>1 DEF StartCollect
<1>2. ASSUME NEW c \in Collectors, CollectorConnected(c) \/ RoundWithoutQueue(c)
      PROVE  QueueInv'
  BY <1>2 DEF CollectorConnected, RoundWithoutQueue
<1>3. ASSUME NEW c \in Collectors, BeginThrows(c)
      PROVE  QueueInv'
  BY <1>3 DEF BeginThrows, Throws
<1>4. ASSUME NEW c \in Collectors, beginBroadcast(c)
      PROVE  QueueInv'
  BY <1>4, CallbacksCounted DEF beginBroadcast
<1>5. ASSUME NEW c \in Collectors, onDispatchData(c)
      PROVE  QueueInv'
  BY <1>5 DEF onDispatchData
<1>6. ASSUME NEW c \in Collectors, FinishThrows(c)
      PROVE  QueueInv'
  BY <1>6 DEF FinishThrows, AllCalled, Throws
<1>7. ASSUME NEW c \in Collectors, finishBroadcast(c)
      PROVE  QueueInv'
  BY <1>7 DEF finishBroadcast, AllCalled, CountAfter
<1>8. ASSUME NEW s \in Savers, StartSave(s) \/ SaverConnected(s)
      PROVE  QueueInv'
  BY <1>8 DEF StartSave, SaverConnected
<1>9. ASSUME (\E x \in Services : SystemStops(x)) \/ Killed \/ UNCHANGED vars
      PROVE  QueueInv'
  BY <1>9 DEF SystemStops, Killed, vars
<1>10. CASE Restarted
  BY <1>10 DEF Restarted, Fresh
<1> QED
  BY <1>1, <1>2, <1>3, <1>4, <1>5, <1>6, <1>7, <1>8, <1>9, <1>10 DEF Next, ThreadStep

LEMMA QueueInit == Init => QueueInv
  BY DEF Init, QueueInv, Types, CountOfOne, Alone

\* The counter of a lone thread's broadcast is its own, and only a second thread
\* makes one throw: the invariant that OneSenderNeverThrows needs.
THEOREM QueueAlwaysInv == Spec => []QueueInv
  BY QueueInit, QueueSteps, PTL DEF Spec

\* One collecting thread never throws: not beside services that stop and start,
\* not beside callbacks that register while a broadcast is under way.
THEOREM OneSenderNeverThrows == Spec => []OneCollectorNeverThrows
<1>1. QueueInv => OneCollectorNeverThrows
  BY CreatedAlone DEF QueueInv, OneCollectorNeverThrows
<1> QED
  BY <1>1, QueueAlwaysInv, PTL

-------------------------------------------------------------------------------
(* Nobody is called twice or out of order                                  *)

\* The rounds that s was called with by c.
RoundsInv ==
    /\ got \in [Savers -> Seq(Collectors \X Int)]
    /\ \A s \in Savers : \A k \in DOMAIN got[s] :
        LET c == got[s][k][1] IN
        /\ thread[c] # "none"
        /\ got[s][k][2] <= n[c]
        /\ thread[c] # "dispatch" => got[s][k][2] < n[c]

\* The array of a lone thread names no callback twice, and those that were
\* called in this round are behind the index.
ArrayInv ==
    \A c \in Collectors : Alone(c) /\ thread[c] = "dispatch" =>
        /\ \A j, k \in 1 .. num[c] : j # k => active[j] # active[k]
        /\ \A s \in Savers : \A k \in DOMAIN got[s] :
              got[s][k] = <<c, n[c]>> => \E j \in 1 .. i[c] - 1 : active[j] = s

\* GotInOrder, without counting.
Ordered ==
    \A s \in Savers : \A j, k \in DOMAIN got[s] :
        j < k /\ got[s][j][1] = got[s][k][1] =>
            \/ got[s][j][2] < got[s][k][2]
            \/ ~Alone(got[s][j][1]) /\ got[s][j][2] = got[s][k][2]

GotInv == QueueInv /\ RoundsInv /\ ArrayInv /\ Ordered

LEMMA AppendFacts ==
    ASSUME NEW q \in Seq(Collectors \X Int), NEW e \in Collectors \X Int
    PROVE  \E last \in Nat :
             /\ Append(q, e) \in Seq(Collectors \X Int)
             /\ DOMAIN q = 1 .. last - 1 /\ DOMAIN Append(q, e) = 1 .. last
             /\ \A k \in 1 .. last - 1 : Append(q, e)[k] = q[k]
             /\ Append(q, e)[last] = e
<1>1. Len(q) + 1 \in Nat /\ DOMAIN q = 1 .. (Len(q) + 1) - 1 /\ DOMAIN Append(q, e) = 1 .. Len(q) + 1
  OBVIOUS
<1>2. \A k \in 1 .. (Len(q) + 1) - 1 : Append(q, e)[k] = q[k]
  OBVIOUS
<1>3. Append(q, e) \in Seq(Collectors \X Int) /\ Append(q, e)[Len(q) + 1] = e
  OBVIOUS
<1> QED
  BY <1>1, <1>2, <1>3

LEMMA GotTypes ==
    ASSUME GotInv, NEW s \in Savers, NEW k \in DOMAIN got[s]
    PROVE  /\ got[s][k][1] \in Collectors /\ got[s][k][2] \in Int
           /\ got[s][k] = <<got[s][k][1], got[s][k][2]>>
           /\ thread[got[s][k][1]] # "none" /\ got[s][k][2] <= n[got[s][k][1]]
           /\ thread[got[s][k][1]] # "dispatch" => got[s][k][2] < n[got[s][k][1]]
<1>1. got[s] \in Seq(Collectors \X Int)
  BY DEF GotInv, RoundsInv
<1>2. got[s][k] \in Collectors \X Int
  BY <1>1
<1> QED
  BY <1>2 DEF GotInv, RoundsInv

\* What the steps do that neither call nor hand over a callback.
LEMMA QuietSteps ==
    ASSUME GotInv, QueueInv', got' = got, \A c \in Collectors : n'[c] = n[c],
           \A c \in Collectors : thread[c] # "none" => thread'[c] = thread[c],
           \A c \in Collectors : thread'[c] = "dispatch" => thread[c] = "dispatch",
           active' = active, num' = num, i' = i
    PROVE  GotInv'
<1>1. RoundsInv'
  <2>1. ASSUME NEW s \in Savers, NEW k \in DOMAIN got[s]
        PROVE  /\ thread'[got[s][k][1]] # "none" /\ got[s][k][2] <= n'[got[s][k][1]]
               /\ thread'[got[s][k][1]] # "dispatch" => got[s][k][2] < n'[got[s][k][1]]
    BY <2>1, GotTypes
  <2> QED
    BY <2>1 DEF GotInv, RoundsInv
<1>2. \A c \in Collectors : Alone(c)' => Alone(c)
  BY DEF Alone, GotInv, QueueInv, Types
<1>3. ArrayInv'
  BY <1>2 DEF GotInv, ArrayInv
<1>4. Ordered'
  BY <1>2, GotTypes DEF GotInv, Ordered
<1> QED
  BY <1>1, <1>3, <1>4 DEF GotInv

\* What ends a round of c.
LEMMA RoundSteps ==
    ASSUME GotInv, QueueInv', got' = got, NEW c \in Collectors,
           n' = [n EXCEPT ![c] = @ + 1], thread[c] # "none", thread'[c] = "loop",
           \A d \in Collectors \ {c} : thread'[d] = thread[d]
    PROVE  GotInv'
<1> n \in [Collectors -> Int]
  BY DEF GotInv, QueueInv, Types
<1>1. RoundsInv'
  <2>1. ASSUME NEW s \in Savers, NEW k \in DOMAIN got[s]
        PROVE  /\ thread'[got[s][k][1]] # "none" /\ got[s][k][2] <= n'[got[s][k][1]]
               /\ thread'[got[s][k][1]] # "dispatch" => got[s][k][2] < n'[got[s][k][1]]
    BY <2>1, GotTypes
  <2> QED
    BY <2>1 DEF GotInv, RoundsInv
<1>2. ArrayInv'
  BY DEF ArrayInv, Alone
<1>3. Ordered'
  BY GotTypes DEF GotInv, Ordered, Alone
<1> QED
  BY <1>1, <1>2, <1>3 DEF GotInv

LEMMA GotSteps ==
    ASSUME GotInv, [Next]_vars
    PROVE  GotInv'
<1> QueueInv /\ QueueInv'
  BY QueueSteps DEF GotInv
<1> USE DEF services, list, threads
<1>1. ASSUME NEW c \in Collectors, StartCollect(c)
      PROVE  GotInv'
  BY <1>1, QuietSteps DEF StartCollect, QueueInv, Types
<1>2. ASSUME NEW c \in Collectors, CollectorConnected(c) \/ BeginThrows(c) \/ FinishThrows(c)
      PROVE  GotInv'
  BY <1>2, QuietSteps DEF CollectorConnected, BeginThrows, FinishThrows, Throws
<1>3. ASSUME \/ \E s \in Savers : StartSave(s) \/ SaverConnected(s)
             \/ (\E x \in Services : SystemStops(x)) \/ Killed \/ UNCHANGED vars
      PROVE  GotInv'
  BY <1>3, QuietSteps DEF StartSave, SaverConnected, SystemStops, Killed, vars
<1>4. ASSUME NEW c \in Collectors, RoundWithoutQueue(c)
      PROVE  GotInv'
  BY <1>4, RoundSteps DEF RoundWithoutQueue
<1>5. ASSUME NEW c \in Collectors, beginBroadcast(c)
      PROVE  GotInv'
  <2>1. \A j, k \in 1 .. num'[c] : j # k => active'[j] # active'[k]
    <3>1. num'[c] = Cardinality(callbacks)
      BY <1>5 DEF beginBroadcast, QueueInv, Types
    <3>2. CASE callbacks = {}
      BY <3>1, <3>2, FS_EmptySet
    <3>3. CASE callbacks # {}
      <4>1. active' \in SetToSeqs(callbacks)
        BY <1>5, <3>3 DEF beginBroadcast
      <4> QED
        BY <3>1, <4>1 DEF SetToSeqs
    <3> QED
      BY <3>2, <3>3
  <2>2. RoundsInv' /\ Ordered'
    BY <1>5, SMTT(30) DEF beginBroadcast, GotInv, QueueInv, Types, RoundsInv, Ordered, Alone
  <2>3. ArrayInv'
    BY <1>5, <2>1, SMTT(30) DEF beginBroadcast, GotInv, QueueInv, Types, RoundsInv, ArrayInv, Alone
  <2> QED
    BY <2>2, <2>3 DEF GotInv
<1>6. ASSUME NEW c \in Collectors, onDispatchData(c)
      PROVE  GotInv'
  <2>1. /\ thread[c] = "dispatch" /\ i[c] \in 1 .. num[c]
        /\ n \in [Collectors -> Int] /\ i \in [Collectors -> Nat \ {0}] /\ num \in [Collectors -> Nat]
        /\ got \in [Savers -> Seq(Collectors \X Int)]
    BY <1>6 DEF onDispatchData, GotInv, QueueInv, Types, RoundsInv
  <2>2. i' = [i EXCEPT ![c] = @ + 1] /\ UNCHANGED <<thread, n, num, active>>
    BY <1>6 DEF onDispatchData
  <2>. /\ i'[c] = i[c] + 1
       /\ \A d \in Collectors : i[d] \in Nat /\ i'[d] \in Nat /\ i[d] <= i'[d]
    BY <2>1, <2>2
  <2>3. CASE active[i[c]] \notin Savers
    <3>1. got' = got
      BY <1>6, <2>1, <2>3 DEF onDispatchData, ItemAt
    <3>2. ArrayInv'
      <4>1. ASSUME NEW d \in Collectors, Alone(d), thread[d] = "dispatch",
                   NEW t \in Savers, NEW k \in DOMAIN got[t], got[t][k] = <<d, n[d]>>
            PROVE  \E j \in 1 .. i'[d] - 1 : active[j] = t
        <5>1. PICK j \in 1 .. i[d] - 1 : active[j] = t
          BY <4>1 DEF GotInv, ArrayInv
        <5> QED
          BY <5>1
      <4> QED
        BY <2>2, <3>1, <4>1 DEF GotInv, ArrayInv, Alone
    <3>3. RoundsInv' /\ Ordered'
      BY <2>2, <3>1 DEF GotInv, RoundsInv, Ordered, Alone
    <3> QED
      BY <3>2, <3>3 DEF GotInv
  <2>4. CASE active[i[c]] \in Savers
    <3>0. PICK s \in Savers : s = active[i[c]]
      BY <2>4
    <3>1. got' = [got EXCEPT ![s] = Append(@, <<c, n[c]>>)]
      BY <1>6, <3>0, QueueAssumption DEF onDispatchData, ItemAt
    <3>2. \A t \in Savers \ {s} : got'[t] = got[t]
      BY <2>1, <3>1
    <3>3. /\ got'[s] = Append(got[s], <<c, n[c]>>) /\ got[s] \in Seq(Collectors \X Int)
          /\ <<c, n[c]>> \in Collectors \X Int
      BY <2>1, <3>1
    <3>4. PICK last \in Nat :
          /\ Append(got[s], <<c, n[c]>>) \in Seq(Collectors \X Int)
          /\ DOMAIN got[s] = 1 .. last - 1 /\ DOMAIN Append(got[s], <<c, n[c]>>) = 1 .. last
          /\ \A k \in 1 .. last - 1 : Append(got[s], <<c, n[c]>>)[k] = got[s][k]
          /\ Append(got[s], <<c, n[c]>>)[last] = <<c, n[c]>>
      BY <3>3, AppendFacts
    <3>5. got'[s] \in Seq(Collectors \X Int) /\ got'[s][last] = <<c, n[c]>>
      BY <3>3, <3>4
    <3>6. got'[s][last][1] = c /\ got'[s][last][2] = n[c] /\ n[c] \in Int /\ last \in Nat
      BY <2>1, <3>5
    <3>7. \A k \in DOMAIN got'[s] :
             k = last \/ (k \in 1 .. last - 1 /\ k \in DOMAIN got[s] /\ got'[s][k] = got[s][k])
      BY <3>3, <3>4
    <3>8. ASSUME NEW t \in Savers, NEW k \in DOMAIN got'[t], ~(t = s /\ k = last)
          PROVE  k \in DOMAIN got[t] /\ got'[t][k] = got[t][k]
      BY <3>2, <3>7, <3>8
    <3>9. RoundsInv'
      <4>1. got' \in [Savers -> Seq(Collectors \X Int)]
        BY <2>1, <3>1, <3>5
      <4>2. ASSUME NEW t \in Savers, NEW k \in DOMAIN got'[t]
            PROVE  /\ thread[got'[t][k][1]] # "none" /\ got'[t][k][2] <= n[got'[t][k][1]]
                   /\ thread[got'[t][k][1]] # "dispatch" => got'[t][k][2] < n[got'[t][k][1]]
        <5>1. CASE t = s /\ k = last
          <6>1. got'[t][k][1] = c /\ got'[t][k][2] = n[c]
            BY <3>6, <5>1
          <6>2. thread[c] = "dispatch" /\ n[c] \in Int
            BY <2>1, <3>6
          <6> QED
            BY <6>1, <6>2
        <5>2. CASE ~(t = s /\ k = last)
          <6>1. k \in DOMAIN got[t] /\ got'[t][k] = got[t][k]
            BY <3>8, <4>2, <5>2
          <6> QED
            BY <6>1, GotTypes
        <5> QED
          BY <5>1, <5>2
      <4> QED
        BY <2>2, <4>1, <4>2 DEF RoundsInv
    <3>10. ArrayInv'
      <4>1. ASSUME NEW d \in Collectors, Alone(d), thread[d] = "dispatch",
                   NEW t \in Savers, NEW k \in DOMAIN got'[t], got'[t][k] = <<d, n[d]>>
            PROVE  \E j \in 1 .. i'[d] - 1 : active[j] = t
        <5>1. CASE t = s /\ k = last
          <6>1. got'[t][k][1] = c /\ got'[t][k][1] = d
            BY <3>6, <4>1, <5>1
          <6>2. active[i[c]] = t /\ i[c] \in 1 .. i'[c] - 1
            BY <2>1, <3>0, <5>1
          <6> QED
            BY <6>1, <6>2
        <5>2. CASE ~(t = s /\ k = last)
          <6>1. k \in DOMAIN got[t] /\ got'[t][k] = got[t][k]
            BY <3>8, <4>1, <5>2
          <6>2. PICK j \in 1 .. i[d] - 1 : active[j] = t
            BY <4>1, <6>1 DEF GotInv, ArrayInv
          <6> QED
            BY <6>2
        <5> QED
          BY <5>1, <5>2
      <4> QED
        BY <2>2, <4>1 DEF GotInv, ArrayInv, Alone
    <3>11. Ordered'
      <4>1. ASSUME NEW t \in Savers, NEW j \in DOMAIN got'[t], NEW k \in DOMAIN got'[t],
                   j < k, got'[t][j][1] = got'[t][k][1]
            PROVE  \/ got'[t][j][2] < got'[t][k][2]
                   \/ ~Alone(got'[t][j][1]) /\ got'[t][j][2] = got'[t][k][2]
        <5>1. CASE t = s /\ k = last
          <6>1. j \in DOMAIN got[s] /\ got'[s][j] = got[s][j]
            BY <3>7, <4>1, <5>1
          <6>2. got[s][j][1] = c /\ got[s][j][2] \in Int /\ got[s][j][2] <= n[c]
            BY <3>6, <4>1, <5>1, <6>1, GotTypes
          <6>3. CASE got[s][j][2] = n[c] /\ Alone(c)
            <7>1. got[s][j] = <<c, n[c]>>
              BY <6>1, <6>2, <6>3, GotTypes
            <7>2. PICK m \in 1 .. i[c] - 1 : active[m] = s
              BY <2>1, <6>1, <6>3, <7>1 DEF GotInv, ArrayInv
            <7>3. m \in 1 .. num[c] /\ m # i[c]
              BY <2>1, <7>2
            <7>4. \A a, b \in 1 .. num[c] : a # b => active[a] # active[b]
              BY <2>1, <6>3 DEF GotInv, ArrayInv
            <7> QED
              BY <2>1, <3>0, <7>2, <7>3, <7>4
          <6>4. got'[t][j][1] = c /\ got'[t][j][2] = got[s][j][2] /\ got'[t][k][2] = n[c]
            BY <3>6, <5>1, <6>1, <6>2
          <6>5. n[c] \in Int
            BY <3>6
          <6> QED
            BY <6>2, <6>3, <6>4, <6>5
        <5>2. CASE ~(t = s /\ k = last)
          <6>1. k \in DOMAIN got[t] /\ got'[t][k] = got[t][k]
            BY <3>8, <4>1, <5>2
          <6>2. t = s => j # last
            BY <3>4, <4>1, <6>1
          <6>3. j \in DOMAIN got[t] /\ got'[t][j] = got[t][j]
            BY <3>8, <4>1, <6>2
          <6> QED
            BY <4>1, <6>1, <6>3 DEF GotInv, Ordered
        <5> QED
          BY <5>1, <5>2
      <4> QED
        BY <2>2, <4>1 DEF Ordered, Alone
    <3> QED
      BY <3>9, <3>10, <3>11 DEF GotInv
  <2> QED
    BY <2>3, <2>4
<1>7. ASSUME NEW c \in Collectors, finishBroadcast(c)
      PROVE  GotInv'
  <2>1. thread'[c] = "loop" /\ \A d \in Collectors \ {c} : thread'[d] = thread[d]
    BY <1>7 DEF finishBroadcast, QueueInv, Types
  <2> QED
    BY <1>7, <2>1, RoundSteps DEF finishBroadcast, AllCalled
<1>8. CASE Restarted
  BY <1>8 DEF Restarted, Fresh, GotInv, QueueInv, Types, RoundsInv, ArrayInv, Ordered, Alone
<1> QED
  BY <1>1, <1>2, <1>3, <1>4, <1>5, <1>6, <1>7, <1>8 DEF Next, ThreadStep

LEMMA GotInit == Init => GotInv
<1> SUFFICES ASSUME Init PROVE GotInv
  OBVIOUS
<1>1. QueueInv
  BY QueueInit
<1>2. got \in [Savers -> Seq(Collectors \X Int)] /\ \A s \in Savers : DOMAIN got[s] = {}
  BY DEF Init
<1>3. \A c \in Collectors : thread[c] = "none"
  BY DEF Init
<1> QED
  BY <1>1, <1>2, <1>3 DEF GotInv, RoundsInv, ArrayInv, Ordered

\* A callback gets what a collector sends in the order of its rounds and, unless
\* a second thread sends, none twice: the array that a lone thread walks names
\* nobody twice, whatever registers or restarts meanwhile.
THEOREM CallsAlwaysInOrder == Spec => []GotInOrder
<1>1. GotInv => GotInOrder
  <2> SUFFICES ASSUME GotInv, NEW s \in Savers, NEW j \in DOMAIN got[s], NEW k \in DOMAIN got[s],
                      j < k, got[s][j][1] = got[s][k][1]
               PROVE  \/ got[s][j][2] < got[s][k][2]
                      \/ Cardinality(Created) > 1 /\ got[s][j][2] = got[s][k][2]
    BY DEF GotInOrder
  <2>1. got[s][j][1] \in Collectors /\ thread[got[s][j][1]] # "none"
    BY GotTypes
  <2> QED
    BY <2>1, CreatedAlone DEF GotInv, Ordered
<1>2. GotInv /\ [Next]_vars => GotInv'
  BY GotSteps
<1> QED
  BY <1>1, <1>2, GotInit, PTL DEF Spec

-------------------------------------------------------------------------------
(* Everybody is reached                                                    *)

\* The broadcast of a lone thread: who was registered is in the array, and
\* those behind the index have heard of it.
Reached(c) ==
    /\ \A s \in to[c] : \E j \in 1 .. num[c] : active[j] = s
    /\ \A j \in 1 .. i[c] - 1 : \A s \in Savers : active[j] = s =>
          \E k \in DOMAIN got[s] : got[s][k] = <<c, n[c]>>

ReachInv ==
    /\ to \in [Collectors -> SUBSET Savers]
    /\ \A c \in Collectors : Alone(c) /\ thread[c] = "dispatch" => Reached(c)

LEMMA CopiedAll ==
    ASSUME NEW S \in SUBSET Savers, NEW f \in SetToSeqs(S), NEW s \in S
    PROVE  \E j \in 1 .. Cardinality(S) : f[j] = s
<1>1. IsFiniteSet(S) /\ Cardinality(S) \in Nat
  BY QueueAssumption, FS_Subset, FS_CardinalityType
<1>2. IsFiniteSet(1 .. Cardinality(S)) /\ Cardinality(1 .. Cardinality(S)) = Cardinality(S)
  BY <1>1, FS_Interval
<1>3. f \in Injection(1 .. Cardinality(S), S)
  BY DEF SetToSeqs, Injection, IsInjective
<1>4. f \in Surjection(1 .. Cardinality(S), S)
  BY <1>1, <1>2, <1>3, FS_Injection
<1> QED
  BY <1>4 DEF Surjection

\* Steps that leave a broadcast of a lone thread as it is.
LEMMA ReachKept ==
    ASSUME ReachInv, got' = got, to' \in [Collectors -> SUBSET Savers],
           \A c \in Collectors : thread[c] # "none" => thread'[c] # "none",
           \A c \in Collectors : Alone(c)' /\ thread'[c] = "dispatch" =>
               /\ thread[c] = "dispatch" /\ num'[c] = num[c] /\ i'[c] = i[c] /\ n'[c] = n[c] /\ to'[c] = to[c]
               /\ active' = active
    PROVE  ReachInv'
<1>1. \A c \in Collectors : Alone(c)' => Alone(c)
  BY DEF Alone
<1>2. ASSUME NEW c \in Collectors, Alone(c)', thread'[c] = "dispatch"
      PROVE  Reached(c)'
  <2>1. /\ Alone(c) /\ thread[c] = "dispatch"
        /\ num'[c] = num[c] /\ i'[c] = i[c] /\ n'[c] = n[c] /\ to'[c] = to[c] /\ active' = active
    BY <1>1, <1>2
  <2>2. Reached(c)
    BY <2>1 DEF ReachInv
  <2> QED
    BY <2>1, <2>2 DEF Reached
<1> QED
  BY <1>2 DEF ReachInv

LEMMA ReachSteps ==
    ASSUME GotInv, ReachInv, [Next]_vars
    PROVE  ReachInv'
<1> QueueInv
  BY DEF GotInv
<1> USE DEF services, list, threads
<1>1. ASSUME NEW c \in Collectors,
             StartCollect(c) \/ CollectorConnected(c) \/ RoundWithoutQueue(c) \/ BeginThrows(c) \/ FinishThrows(c)
      PROVE  ReachInv'
  BY <1>1, ReachKept
     DEF StartCollect, CollectorConnected, RoundWithoutQueue, BeginThrows, FinishThrows, Throws, QueueInv, Types, ReachInv
<1>2. ASSUME \/ \E s \in Savers : StartSave(s) \/ SaverConnected(s)
             \/ (\E x \in Services : SystemStops(x)) \/ Killed \/ UNCHANGED vars
      PROVE  ReachInv'
  BY <1>2, ReachKept DEF StartSave, SaverConnected, SystemStops, Killed, vars, ReachInv
<1>3. ASSUME NEW c \in Collectors, beginBroadcast(c)
      PROVE  ReachInv'
  <2>1. /\ callbacks \subseteq Savers /\ num'[c] = Cardinality(callbacks) /\ i'[c] = 1 /\ to'[c] = callbacks
        /\ thread'[c] = "dispatch" /\ to' \in [Collectors -> SUBSET Savers]
    BY <1>3 DEF beginBroadcast, QueueInv, Types, ReachInv
  <2>2. \A d \in Collectors : Alone(d)' => d = c
    BY <2>1 DEF Alone
  <2>3. \A s \in callbacks : \E j \in 1 .. num'[c] : active'[j] = s
    <3>1. ASSUME NEW s \in callbacks
          PROVE  active' \in SetToSeqs(callbacks)
      BY <1>3 DEF beginBroadcast
    <3> QED
      BY <2>1, <3>1, CopiedAll
  <2>4. Reached(c)'
    BY <2>1, <2>3 DEF Reached
  <2> QED
    BY <2>1, <2>2, <2>4 DEF ReachInv
<1>4. ASSUME NEW c \in Collectors, onDispatchData(c)
      PROVE  ReachInv'
  <2>1. /\ thread[c] = "dispatch" /\ i[c] \in Nat \ {0} /\ i'[c] = i[c] + 1
        /\ UNCHANGED <<thread, n, num, active, to>>
        /\ got \in [Savers -> Seq(Collectors \X Int)] /\ n[c] \in Int
    BY <1>4 DEF onDispatchData, QueueInv, Types, GotInv, RoundsInv
  <2>2. Alone(c)' => Reached(c)
    BY <2>1 DEF ReachInv, Alone
  <2>3. ASSUME Reached(c), NEW j \in 1 .. i[c], NEW s \in Savers, active[j] = s
        PROVE  \E k \in DOMAIN got'[s] : got'[s][k] = <<c, n[c]>>
    <3>1. got[s] \in Seq(Collectors \X Int) /\ <<c, n[c]>> \in Collectors \X Int
      BY <2>1
    <3>2. PICK last \in Nat :
          /\ Append(got[s], <<c, n[c]>>) \in Seq(Collectors \X Int)
          /\ DOMAIN got[s] = 1 .. last - 1 /\ DOMAIN Append(got[s], <<c, n[c]>>) = 1 .. last
          /\ \A k \in 1 .. last - 1 : Append(got[s], <<c, n[c]>>)[k] = got[s][k]
          /\ Append(got[s], <<c, n[c]>>)[last] = <<c, n[c]>>
      BY <3>1, AppendFacts
    <3>3. last \in DOMAIN Append(got[s], <<c, n[c]>>)
      <4>1. last # 0
        BY <3>1, <3>2
      <4> QED
        BY <3>2, <4>1
    <3>4. CASE j = i[c]
      <4>1. got'[s] = Append(got[s], <<c, n[c]>>)
        BY <1>4, <2>1, <2>3, <3>4, QueueAssumption DEF onDispatchData, ItemAt
      <4> QED
        BY <3>2, <3>3, <4>1
    <3>5. CASE j # i[c]
      <4>1. j \in 1 .. i[c] - 1
        BY <2>1, <3>5
      <4>2. PICK k \in DOMAIN got[s] : got[s][k] = <<c, n[c]>>
        BY <2>3, <4>1 DEF Reached
      <4>3. got'[s] = got[s] \/ got'[s] = Append(got[s], <<c, n[c]>>)
        BY <1>4, <2>1 DEF onDispatchData
      <4>4. got'[s][k] = <<c, n[c]>> /\ k \in DOMAIN got'[s]
        BY <3>2, <4>2, <4>3
      <4> QED
        BY <4>4
    <3> QED
      BY <3>4, <3>5
  <2>4. ASSUME Alone(c)'
        PROVE  Reached(c)'
    <3>1. Reached(c)
      BY <2>2, <2>4
    <3>2. \A j \in 1 .. i'[c] - 1 : j \in 1 .. i[c]
      BY <2>1
    <3>3. \A j \in 1 .. i'[c] - 1 : \A s \in Savers : active'[j] = s =>
              \E k \in DOMAIN got'[s] : got'[s][k] = <<c, n'[c]>>
      BY <2>1, <2>3, <3>1, <3>2
    <3> QED
      BY <2>1, <3>1, <3>3 DEF Reached
  <2>5. \A d \in Collectors : Alone(d)' /\ thread'[d] = "dispatch" => d = c
    BY <2>1 DEF Alone
  <2> QED
    BY <2>1, <2>4, <2>5 DEF ReachInv
<1>5. ASSUME NEW c \in Collectors, finishBroadcast(c)
      PROVE  ReachInv'
  <2>1. thread'[c] = "loop" /\ to' = to /\ thread \in [Collectors -> {"none", "loop", "dispatch"}]
    BY <1>5 DEF finishBroadcast, QueueInv, Types
  <2>2. \A d \in Collectors : ~(Alone(d)' /\ thread'[d] = "dispatch")
    BY <2>1 DEF Alone
  <2> QED
    BY <2>1, <2>2 DEF ReachInv
<1>6. CASE Restarted
  BY <1>6 DEF Restarted, Fresh, ReachInv
<1> QED
  BY <1>1, <1>2, <1>3, <1>4, <1>5, <1>6 DEF Next, ThreadStep

\* What a lone collector sends, everybody has heard of who was registered when
\* the broadcast began, when it ends: the array is not touched under it.
THEOREM DispatchAlwaysReachesAll == Spec => DispatchReachesAll
<1>1. Init => GotInv /\ ReachInv
  BY GotInit DEF Init, ReachInv
<1>2. GotInv /\ ReachInv /\ [Next]_vars => (GotInv /\ ReachInv)'
  BY GotSteps, ReachSteps
<1>3. GotInv /\ ReachInv /\ [Next]_vars =>
        [\A c \in Collectors :
            finishBroadcast(c) /\ Cardinality(Created) = 1 =>
                \A s \in to[c] : <<c, n[c]>> \in {got[s][k] : k \in DOMAIN got[s]}]_vars
  <2> SUFFICES ASSUME GotInv, ReachInv, NEW c \in Collectors, finishBroadcast(c), Cardinality(Created) = 1,
                      NEW s \in to[c]
               PROVE  <<c, n[c]>> \in {got[s][k] : k \in DOMAIN got[s]}
    OBVIOUS
  <2>1. thread[c] = "dispatch" /\ i[c] > num[c] /\ i[c] \in Nat /\ num[c] \in Nat
    BY DEF finishBroadcast, AllCalled, GotInv, QueueInv, Types
  <2>2. Alone(c)
    BY <2>1, CreatedAlone
  <2>3. PICK j \in 1 .. num[c] : active[j] = s
    BY <2>1, <2>2 DEF ReachInv, Reached
  <2>4. j \in 1 .. i[c] - 1 /\ s \in Savers
    BY <2>1, <2>2, <2>3 DEF ReachInv
  <2>5. PICK k \in DOMAIN got[s] : got[s][k] = <<c, n[c]>>
    BY <2>1, <2>2, <2>3, <2>4 DEF ReachInv, Reached
  <2> QED
    BY <2>5
<1> QED
  BY <1>1, <1>2, <1>3, PTL DEF Spec, DispatchReachesAll
===============================================================================
