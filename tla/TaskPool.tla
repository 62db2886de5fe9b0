------------------------------- MODULE TaskPool -------------------------------
(***************************************************************************)
(* What the thread pool of threadpool.h promises its callers, without      *)
(* threads, locks or a ring buffer: a bounded FIFO of accepted tasks, a    *)
(* set of tasks being run by at most MaxNum workers, and a switch that     *)
(* closes the pool for good.  A task that waits in the queue when the pool *)
(* closes is dropped.  ThreadPool is shown to implement this module.       *)
(***************************************************************************)
EXTENDS Integers, Sequences, FiniteSets

CONSTANTS Tasks,     \* what threadPoolAdd is called with
          MaxNum,    \* most workers that run tasks at one time
          Capacity   \* most tasks that wait

VARIABLES pending,   \* tasks accepted and not started, oldest first
          active,    \* tasks a worker has taken and not finished
          closed     \* the pool was told to shut down

vars == <<pending, active, closed>>

Init ==
    /\ pending = <<>>
    /\ active = {}
    /\ closed = FALSE

Accept(t) ==
    /\ ~closed
    /\ Len(pending) < Capacity
    /\ \A i \in 1 .. Len(pending) : pending[i] # t
    /\ t \notin active
    /\ pending' = Append(pending, t)
    /\ UNCHANGED <<active, closed>>

Start ==
    /\ ~closed
    /\ pending # <<>>
    /\ Cardinality(active) < MaxNum
    /\ active' = active \cup {Head(pending)}
    /\ pending' = Tail(pending)
    /\ UNCHANGED closed

Finish(t) ==
    /\ t \in active
    /\ active' = active \ {t}
    /\ UNCHANGED <<pending, closed>>

Close ==
    /\ ~closed
    /\ closed' = TRUE
    /\ UNCHANGED <<pending, active>>

Next == Start \/ Close \/ \E t \in Tasks : Accept(t) \/ Finish(t)

Spec == Init /\ [][Next]_vars
===============================================================================
