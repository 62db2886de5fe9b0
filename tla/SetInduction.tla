------------------------------ MODULE SetInduction ------------------------------
(***************************************************************************)
(* Induction over the natural numbers and definition by recursion, stated  *)
(* with sets and functions in place of predicates and operators: to show P *)
(* for every number, show that T == {n : P} has 0 and the successor of     *)
(* each of its members.  Both rest on the library's fact that < on Nat is  *)
(* well-founded.                                                           *)
(***************************************************************************)
EXTENDS Integers, Sequences, SequenceTheorems, WellFoundedInduction, TLAPS

LEMMA LeastElement ==
    ASSUME NEW T, T \subseteq Nat, T # {}
    PROVE  \E x \in T : \A y \in T : x <= y
<1>1. PICK R : R = {ss \in Nat \X Nat : ss[1] < ss[2]}
  OBVIOUS
<1>2. IsWellFoundedOn(R, Nat)
  BY <1>1, NatLessThanWellFounded DEF OpToRel
<1>3. PICK x \in T : \A y \in T : ~ (<<y, x>> \in R)
  BY <1>2, WFMin
<1>4. ASSUME NEW y \in T PROVE x <= y
  <2>1. ~ (y < x)
    BY <1>1, <1>3
  <2> QED BY <2>1
<1> QED BY <1>3, <1>4

LEMMA InductionUpTo ==
    ASSUME NEW n \in Nat, NEW T, 0 \in T, \A i \in 0 .. n - 1 : i \in T => i + 1 \in T
    PROVE  \A i \in 0 .. n : i \in T
<1> SUFFICES ASSUME (0 .. n) \ T # {} PROVE FALSE
  OBVIOUS
<1>1. PICK x \in (0 .. n) \ T : \A y \in (0 .. n) \ T : x <= y
  <2>1. (0 .. n) \ T \subseteq Nat
    OBVIOUS
  <2> QED BY <2>1, LeastElement
<1>2. x - 1 \in 0 .. n - 1 /\ x - 1 \in T
  BY <1>1
<1> QED BY <1>1, <1>2

\* A function given by its value at 0 and a step for each index exists.
IsStep(step, n, S) == \A i \in 1 .. n : \A x \in S : step[i][x] \in S
IsRecursive(f, n, S, base, step) ==
    f \in [0 .. n -> S] /\ f[0] = base /\ \A i \in 1 .. n : f[i] = step[i][f[i - 1]]

LEMMA RecursionExists ==
    ASSUME NEW n \in Nat, NEW S, NEW base \in S, NEW step, IsStep(step, n, S)
    PROVE  \E f : IsRecursive(f, n, S, base, step)
<1>1. PICK T : T = {k \in 0 .. n : \E f : IsRecursive(f, k, S, base, step)}
  OBVIOUS
<1>2. 0 \in T
  <2>1. PICK f : f = [i \in 0 .. 0 |-> base]
    OBVIOUS
  <2>2. IsRecursive(f, 0, S, base, step)
    BY <2>1 DEF IsRecursive
  <2> QED BY <1>1, <2>2
<1>3. ASSUME NEW k \in 0 .. n - 1, k \in T PROVE k + 1 \in T
  <2>1. PICK f : IsRecursive(f, k, S, base, step)
    BY <1>1, <1>3
  <2>2. PICK g : g = [i \in 0 .. k + 1 |-> IF i <= k THEN f[i] ELSE step[k + 1][f[k]]]
    OBVIOUS
  <2>3. f[k] \in S /\ k + 1 \in 1 .. n
    BY <2>1 DEF IsRecursive
  <2>4. step[k + 1][f[k]] \in S
    BY <2>3 DEF IsStep
  <2>5. g \in [0 .. k + 1 -> S]
    BY <2>1, <2>2, <2>4 DEF IsRecursive
  <2>6. ASSUME NEW i \in 1 .. k + 1
        PROVE  g[i] = step[i][g[i - 1]]
    <3>1. CASE i <= k
      <4>1. g[i] = f[i] /\ g[i - 1] = f[i - 1]
        BY <2>2, <3>1
      <4>2. f[i] = step[i][f[i - 1]]
        BY <2>1, <3>1 DEF IsRecursive
      <4> QED BY <4>1, <4>2
    <3>2. CASE i = k + 1
      BY <2>2, <3>2
    <3> QED BY <3>1, <3>2
  <2>7. IsRecursive(g, k + 1, S, base, step)
    <3>1. g[0] = base
      BY <2>1, <2>2 DEF IsRecursive
    <3> QED BY <2>5, <2>6, <3>1 DEF IsRecursive
  <2> QED BY <1>1, <2>7
<1>4. n \in T
  <2>1. \A i \in 0 .. n - 1 : i \in T => i + 1 \in T
    BY <1>3
  <2>2. \A i \in 0 .. n : i \in T
    BY <1>2, <2>1, InductionUpTo
  <2> QED BY <2>2
<1> QED BY <1>1, <1>4
===============================================================================
