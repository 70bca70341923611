--------------------------- MODULE BoundedInduction ---------------------------
(***************************************************************************)
(* Induction and recursion up to a bound, for the proofs about functions   *)
(* defined by recursion.  A property is a set of numbers here and a step a *)
(* function, so that both can be instantiated.                             *)
(***************************************************************************)
EXTENDS Naturals, FiniteSetTheorems, TLAPS

\* A set of numbers that is not empty has a least one.
LEMMA LeastNumber ==
    ASSUME NEW T \in SUBSET Nat, T # {}
    PROVE  \E n \in T : \A m \in T : n <= m
<1>1. PICK n \in T : \A m \in T : ~(<<m, n>> \in OpToRel(<, Nat))
  BY NatLessThanWellFounded, WFMin
<1>2. \A m \in T : ~(m < n)
  <2> SUFFICES ASSUME NEW m \in T, m < n PROVE FALSE
    OBVIOUS
  <2>1. <<m, n>> \in Nat \X Nat
    OBVIOUS
  <2> QED
    BY <1>1, <2>1 DEF OpToRel
<1> QED
  BY <1>2

\* What holds of 0, and of every number up to N if of the one before it, holds up to N.
LEMMA UpTo ==
    ASSUME NEW N \in Nat, NEW T, 0 \in T, \A n \in 1 .. N : n - 1 \in T => n \in T
    PROVE  \A n \in 0 .. N : n \in T
<1> SUFFICES ASSUME (0 .. N) \ T # {} PROVE FALSE
  OBVIOUS
<1> DEFINE M == (0 .. N) \ T
<1>1. PICK n \in M : \A m \in M : n <= m
  <2>1. M \in SUBSET Nat /\ M # {}
    OBVIOUS
  <2> HIDE DEF M
  <2> QED
    BY <2>1, LeastNumber
<1>2. n \in 1 .. N /\ n - 1 \in 0 .. N /\ ~(n <= n - 1)
  BY <1>1
<1> QED
  BY <1>1, <1>2

\* A step of each number keeps a set, and a run takes the steps in turn from a start.
StepsWithin(step, N, S) == \A s \in S, i \in 1 .. N : step[i][s] \in S
IsRun(g, step, start, N, S) ==
    /\ g \in [0 .. N -> S]
    /\ g[0] = start
    /\ \A i \in 1 .. N : g[i] = step[i][g[i - 1]]

\* A step can be iterated N times from a start.
LEMMA Iterated ==
    ASSUME NEW N \in Nat, NEW S, NEW start \in S, NEW step, StepsWithin(step, N, S)
    PROVE  \E g : IsRun(g, step, start, N, S)
<1> USE DEF StepsWithin
<1> DEFINE Run(g, n) == IsRun(g, step, start, n, S)
           Runs == {n \in Nat : \E g : Run(g, n)}
<1>1. 0 \in Runs
  <2> USE DEF IsRun
  <2>1. Run([i \in 0 .. 0 |-> start], 0)
    OBVIOUS
  <2> QED
    BY <2>1
<1>2. \A n \in 1 .. N : n - 1 \in Runs => n \in Runs
  <2> USE DEF IsRun
  <2> SUFFICES ASSUME NEW n \in 1 .. N, n - 1 \in Runs PROVE \E g : Run(g, n)
    OBVIOUS
  <2>1. PICK f : Run(f, n - 1)
    OBVIOUS
  <2> DEFINE last == step[n][f[n - 1]]
             g == [i \in 0 .. n |-> IF i = n THEN last ELSE f[i]]
  <2>2. n \in Nat /\ n # 0 /\ n - 1 \in 0 .. n - 1 /\ \A i \in 0 .. n : i = n \/ i \in 0 .. n - 1
    OBVIOUS
  <2>3. f \in [0 .. n - 1 -> S] /\ last \in S
    BY <2>1, <2>2
  <2>4. \A i \in 0 .. n - 1 : g[i] = f[i]
    BY <2>2
  <2>5. g \in [0 .. n -> S] /\ g[0] = start /\ g[n] = last
    <3> HIDE DEF last
    <3> QED
      BY <2>1, <2>2, <2>3
  <2>6. \A i \in 1 .. n : g[i] = step[i][g[i - 1]]
    <3> SUFFICES ASSUME NEW i \in 1 .. n PROVE g[i] = step[i][g[i - 1]]
      OBVIOUS
    <3>1. CASE i = n
      BY <2>2, <2>4, <2>5, <3>1
    <3>2. CASE i # n
      <4>1. i \in 1 .. n - 1 /\ i \in 0 .. n - 1 /\ i - 1 \in 0 .. n - 1
        BY <3>2
      <4> QED
        BY <2>1, <2>4, <4>1
    <3> QED
      BY <3>1, <3>2
  <2> HIDE DEF g
  <2> QED
    BY <2>5, <2>6
<1>3. N \in Runs
  <2> HIDE DEF Runs
  <2>1. \A n \in 0 .. N : n \in Runs
    BY <1>1, <1>2, UpTo
  <2> QED
    BY <2>1
<1> QED
  BY <1>3
===============================================================================
