------------------------------ MODULE MessageQueue ------------------------------
(***************************************************************************)
(* The message queue of multi-process: instances of CollectService, each   *)
(* with a thread that sends data, MQService, that hands a datum to every   *)
(* registered callback, and instances of SaveService, that register one.   *)
(*                                                                         *)
(* No service has an android:process of its own and all are bound from the *)
(* application, so the binders are local: sendData is a plain call on the  *)
(* thread of the collector, and linkToDeath never reports anything.        *)
(*                                                                         *)
(* Of RemoteCallbackList the model has what dispatchData needs: the        *)
(* registered callbacks, the array that a broadcast walks and its count,   *)
(* -1 outside of a broadcast.  Its methods lock, so each is one step.      *)
(***************************************************************************)
EXTENDS Integers, Sequences, FiniteSets, SequencesExt

CONSTANTS
    Collectors,   \* instances of CollectService
    Savers,       \* instances of SaveService, and the callback of each
    NoCallback,   \* a cleared element of the array
    MaxRounds     \* 1000 in the code

ASSUME QueueAssumption ==
    /\ Collectors \cap Savers = {}
    /\ IsFiniteSet(Collectors) /\ IsFiniteSet(Savers) /\ NoCallback \notin Savers
    /\ MaxRounds \in Nat

VARIABLES
    process,      \* "runs", "threw" (an exception nobody catches) or "killed"
    live,         \* instances that the system has not destroyed
    conn,         \* instance's connection: "none", "asked" or "connected"
    callbacks,    \* registered callbacks
    count, active,   \* mBroadcastCount and mActiveBroadcast
    thread,       \* collector's thread: "none", "loop" or "dispatch"
    n, num, i,    \* its locals: rounds done, items of the broadcast, next item
    to,           \* callbacks registered when its broadcast began (history)
    got           \* what each callback was called with, in order

services == <<live, conn>>
list     == <<callbacks, count, active>>
threads  == <<thread, n, num, i, to>>
vars     == <<process, services, list, threads, got>>

Services == Collectors \cup Savers
Created  == {c \in Collectors : thread[c] # "none"}

\* A process just started, with the services of S created and started in it.
Fresh(S) ==
    /\ process' = "runs"
    /\ live' = S
    /\ conn' = [x \in Services |-> IF x \in S THEN "asked" ELSE "none"]
    /\ callbacks' = {} /\ count' = -1 /\ active' = <<>>
    /\ thread' = [c \in Collectors |-> IF c \in S THEN "loop" ELSE "none"]
    /\ n' = [c \in Collectors |-> 0]
    /\ num' = [c \in Collectors |-> 0]
    /\ i' = [c \in Collectors |-> 1]
    /\ to' = [c \in Collectors |-> {}]
    /\ got' = [s \in Savers |-> <<>>]

Init ==
    /\ process = "runs"
    /\ live = {}
    /\ conn = [x \in Services |-> "none"]
    /\ callbacks = {} /\ count = -1 /\ active = <<>>
    /\ thread = [c \in Collectors |-> "none"]
    /\ n = [c \in Collectors |-> 0]
    /\ num = [c \in Collectors |-> 0]
    /\ i = [c \in Collectors |-> 1]
    /\ to = [c \in Collectors |-> {}]
    /\ got = [s \in Savers |-> <<>>]

-------------------------------------------------------------------------------
(* The services, on the main thread                                        *)

\* Binding again through a connection that is bound changes nothing.
bindMQService(x) ==
    conn' = [conn EXCEPT ![x] = IF @ = "connected" THEN @ ELSE "asked"]

\* A button of MicroServiceActivity; the constructor starts the thread.
StartCollect(c) ==
    /\ live \cap Collectors \in {{}, {c}}
    /\ c \in live \/ thread[c] = "none"
    /\ live' = live \cup {c}
    /\ bindMQService(c)
    /\ thread' = [thread EXCEPT ![c] = IF @ = "none" THEN "loop" ELSE @]
    /\ UNCHANGED <<process, list, n, num, i, to, got>>

StartSave(s) ==
    /\ live \cap Savers \in {{}, {s}}
    /\ s \in live \/ conn[s] = "none"
    /\ live' = live \cup {s}
    /\ bindMQService(s)
    /\ UNCHANGED <<process, list, threads, got>>

\* The system stops an idle service.  It has no onDestroy: its thread, its
\* connection (of the application) and its callback stay.
SystemStops(x) ==
    /\ x \in live
    /\ live' = live \ {x}
    /\ UNCHANGED <<process, conn, list, threads, got>>

\* onServiceConnected.  mq is not volatile: for a collector, the step stands
\* for the moment at which its thread can see the assignment.
CollectorConnected(c) ==
    /\ conn[c] = "asked"
    /\ conn' = [conn EXCEPT ![c] = "connected"]
    /\ UNCHANGED <<process, live, list, threads, got>>

SaverConnected(s) ==
    /\ conn[s] = "asked"
    /\ conn' = [conn EXCEPT ![s] = "connected"]
    /\ callbacks' = callbacks \cup {s}
    /\ UNCHANGED <<process, live, count, active, threads, got>>

-------------------------------------------------------------------------------
(* dispatchData, on the thread of a collector                              *)

\* An exception other than RemoteException leaves run(): the process ends.
Throws ==
    /\ process' = "threw"
    /\ UNCHANGED <<services, list, threads, got>>

RoundLeftOneMore(c) == n[c] <= MaxRounds         \* fault: one round too many
RoundLeft(c) == n[c] < MaxRounds

\* mq is null: only the sleep.
RoundWithoutQueue(c) ==
    /\ thread[c] = "loop" /\ RoundLeft(c)
    /\ conn[c] # "connected"
    /\ n' = [n EXCEPT ![c] = @ + 1]
    /\ UNCHANGED <<process, services, list, thread, num, i, to, got>>

\* sendData: beginBroadcast refuses to begin a second broadcast of callbacks.
BeginThrows(c) ==
    /\ thread[c] = "loop" /\ RoundLeft(c) /\ conn[c] = "connected"
    /\ count > 0
    /\ Throws

\* The callbacks are copied in the order of the map, that of their binders' hashes:
\* in any order.
beginBroadcast(c) ==
    /\ thread[c] = "loop" /\ RoundLeft(c) /\ conn[c] = "connected"
    /\ count <= 0
    /\ count' = Cardinality(callbacks)
    /\ active' \in IF callbacks = {} THEN {active} ELSE SetToSeqs(callbacks)
    /\ thread' = [thread EXCEPT ![c] = "dispatch"]
    /\ num' = [num EXCEPT ![c] = Cardinality(callbacks)]
    /\ i' = [i EXCEPT ![c] = 1]
    /\ to' = [to EXCEPT ![c] = callbacks]
    /\ UNCHANGED <<process, services, callbacks, n, got>>

\* fault: the first item is called again and again
ItemAtFirst(c) == active[1]
ItemAt(c) == active[i[c]]

\* One callback is called; for a cleared element the exception is caught.
onDispatchData(c) ==
    /\ thread[c] = "dispatch" /\ i[c] <= num[c]
    /\ LET s == ItemAt(c)
       IN  got' = IF s = NoCallback THEN got
                  ELSE [got EXCEPT ![s] = Append(@, <<c, n[c]>>)]
    /\ i' = [i EXCEPT ![c] = @ + 1]
    /\ UNCHANGED <<process, services, list, thread, n, num, to>>

\* fault: the last item is left out
AllCalledButLast(c) == thread[c] = "dispatch" /\ i[c] >= num[c]
AllCalled(c) == thread[c] = "dispatch" /\ i[c] > num[c]

FinishThrows(c) ==
    /\ AllCalled(c)
    /\ count < 0
    /\ Throws

CountKept == count                               \* fault: still in a broadcast
CountAfter == -1

finishBroadcast(c) ==
    /\ AllCalled(c)
    /\ count >= 0
    /\ active' = [k \in DOMAIN active |-> IF k <= count THEN NoCallback ELSE active[k]]
    /\ count' = CountAfter
    /\ thread' = [thread EXCEPT ![c] = "loop"]
    /\ n' = [n EXCEPT ![c] = @ + 1]
    /\ UNCHANGED <<process, services, callbacks, num, i, to, got>>

-------------------------------------------------------------------------------
(* The process                                                             *)

Killed ==
    /\ process = "runs"
    /\ process' = "killed"
    /\ UNCHANGED <<services, list, threads, got>>

\* onStartCommand returned START_STICKY: the system creates again, in a new
\* process, the services it had not stopped, and starts them.
Restarted == process # "runs" /\ Fresh(live)

ThreadStep(c) ==
    \/ BeginThrows(c) \/ beginBroadcast(c) \/ onDispatchData(c)
    \/ FinishThrows(c) \/ finishBroadcast(c)

Next ==
    \/ /\ process = "runs"
       /\ \/ \E c \in Collectors : \/ StartCollect(c) \/ CollectorConnected(c)
                                   \/ RoundWithoutQueue(c) \/ ThreadStep(c)
          \/ \E s \in Savers : StartSave(s) \/ SaverConnected(s)
          \/ \E x \in Services : SystemStops(x)
    \/ Killed
    \/ Restarted

Spec == Init /\ [][Next]_vars

\* A thread goes on, and the main thread handles a connection at last.
Fairness ==
    /\ \A c \in Collectors : WF_vars(process = "runs" /\ ThreadStep(c))
    /\ \A s \in Savers : WF_vars(process = "runs" /\ SaverConnected(s))

FairSpec == Spec /\ Fairness

-------------------------------------------------------------------------------
(* Properties                                                              *)

Data == Collectors \X (0 .. MaxRounds - 1)

\* Type invariant.
TypeOK ==
    /\ process \in {"runs", "threw", "killed"}
    /\ live \subseteq Services
    /\ conn \in [Services -> {"none", "asked", "connected"}]
    /\ callbacks \subseteq Savers
    /\ count \in -1 .. Cardinality(Savers)
    /\ active \in Seq(Savers \cup {NoCallback}) /\ Len(active) <= Cardinality(Savers)
    /\ thread \in [Collectors -> {"none", "loop", "dispatch"}]
    /\ n \in [Collectors -> 0 .. MaxRounds]
    /\ num \in [Collectors -> 0 .. Cardinality(Savers)]
    /\ i \in [Collectors -> 1 .. Cardinality(Savers) + 1]
    /\ to \in [Collectors -> SUBSET Savers]
    /\ got \in [Savers -> Seq(Data)]

\* Sending ends the process only if two threads send: one that is left of a
\* stopped CollectService and the next one's.  Callbacks that register while
\* a broadcast is under way, and services started again, do no harm.
OneCollectorNeverThrows == process = "threw" => Cardinality(Created) > 1

\* What one collector sends, everybody gets who was registered when the
\* broadcast began, once it has ended.
DispatchReachesAll ==
    [][\A c \in Collectors :
        finishBroadcast(c) /\ Cardinality(Created) = 1 =>
            \A s \in to[c] : <<c, n[c]>> \in {got[s][k] : k \in DOMAIN got[s]}]_vars

\* A callback gets the data of a collector in the order of their sending, and
\* none twice unless two threads send: one may then have the array copied anew,
\* with callbacks added, under the other's index.
GotInOrder ==
    \A s \in Savers : \A j, k \in DOMAIN got[s] :
        j < k /\ got[s][j][1] = got[s][k][1] =>
            \/ got[s][j][2] < got[s][k][2]
            \/ Cardinality(Created) > 1 /\ got[s][j][2] = got[s][k][2]

\* A started SaveService is registered at last, in each process it lives in;
\* and while a connected collector has rounds left, a registered callback hears
\* of it, unless the process ends.
RegisteredHears ==
    /\ \A s \in Savers :
        (s \in live /\ process = "runs") ~> (s \in callbacks \/ process # "runs")
    /\ \A c \in Collectors, s \in Savers :
        (s \in callbacks /\ conn[c] = "connected" /\ thread[c] = "loop" /\ n[c] < MaxRounds)
            ~> (Cardinality(Created) > 1 \/ process # "runs"
                \/ \E k \in DOMAIN got[s] : got[s][k][1] = c)
===============================================================================
