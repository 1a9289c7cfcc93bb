---------------------------- MODULE DataInduction ----------------------------
(* Induction over the naturals, and functions defined by recursion, in a form  *)
(* that the proofs about the recursive functions of the other modules cite.   *)
(* The library's theorems on both take an operator as a parameter; here a     *)
(* property is the set of the numbers that have it, and the step of a         *)
(* recursion is a function.                                                   *)
EXTENDS Integers, TLAPS, WellFoundedInduction

\* The natural numbers are well ordered: proofs by the least counterexample.
LEMMA LeastElement ==
  ASSUME NEW T \in SUBSET Nat, T # {}
  PROVE  \E n \in T : \A m \in T : n <= m
<1> DEFINE R == OpToRel(<, Nat)
<1>1. IsWellFoundedOn(R, Nat)
  BY NatLessThanWellFounded
<1>2. \A x, y \in Nat : <<x, y>> \in R <=> x < y
  BY DEF OpToRel
<1> HIDE DEF R
<1>3. PICK n \in T : \A m \in T : ~(<<m, n>> \in R)
  BY <1>1, WFMin
<1>4. \A m \in T : m \in Nat /\ n \in Nat /\ ~(m < n)
  BY <1>2, <1>3
<1>5. \A m \in T : n <= m
  BY <1>4
<1> QED BY <1>5

\* Induction over 1..n, for the set of the numbers that have a property.
LEMMA Induction ==
  ASSUME NEW n \in Nat, NEW T, 0 \in T, \A i \in 1..n : i - 1 \in T => i \in T
  PROVE  0..n \subseteq T
<1> DEFINE Bad == {i \in 0..n : i \notin T}
<1>1. SUFFICES ASSUME Bad # {} PROVE FALSE
  OBVIOUS
<1>2. PICK m \in Bad : \A k \in Bad : m <= k
  <2>1. Bad \in SUBSET Nat
    OBVIOUS
  <2> HIDE DEF Bad
  <2> QED BY <1>1, <2>1, LeastElement
<1>3. m \in 1..n /\ m - 1 \in 0..n /\ ~(m <= m - 1)
  OBVIOUS
<1>4. m - 1 \notin Bad
  <2> HIDE DEF Bad
  <2> QED BY <1>2, <1>3
<1> QED BY <1>3, <1>4

\* A recursion over 1..n: next[i][v] is what step i makes of v.
Steps(next, n, V) == next \in [1..n -> [V -> V]]
Solves(f, n, V, base, next) ==
  f \in [0..n -> V] /\ f[0] = base /\ \A i \in 1..n : f[i] = next[i][f[i - 1]]

\* A recursion over 1..n has a solution.
LEMMA Recursion ==
  ASSUME NEW n \in Nat, NEW V, NEW base \in V, NEW next, Steps(next, n, V)
  PROVE  \E f : Solves(f, n, V, base, next)
<1> DEFINE Sol(f, m) == Solves(f, m, V, base, next)
           Solved == {m \in 0..n : \E f : Sol(f, m)}
<1>1. 0 \in Solved
  <2>1. Sol([i \in 0..0 |-> base], 0)
    BY DEF Solves
  <2> QED BY <2>1
<1>2. ASSUME NEW m \in 1..n, m - 1 \in Solved
      PROVE  m \in Solved
  <2>1. PICK f : Sol(f, m - 1)
    BY <1>2
  <2> DEFINE g == [i \in 0..m |-> IF i = m THEN next[m][f[m - 1]] ELSE f[i]]
  <2>2. next[m][f[m - 1]] \in V
    BY <2>1 DEF Solves, Steps
  <2>3. g \in [0..m -> V] /\ g[0] = base
    BY <2>1, <2>2 DEF Solves
  <2>4. ASSUME NEW i \in 1..m PROVE g[i] = next[i][g[i - 1]]
    <3>1. CASE i < m
      <4>1. g[i] = f[i] /\ g[i - 1] = f[i - 1]
        BY <3>1
      <4> QED BY <4>1, <2>1, <3>1 DEF Solves
    <3>2. CASE i = m
      <4>1. g[m] = next[m][f[m - 1]] /\ g[m - 1] = f[m - 1]
        OBVIOUS
      <4> QED BY <4>1, <3>2
    <3> QED BY <3>1, <3>2
  <2>5. Sol(g, m)
    BY <2>3, <2>4 DEF Solves
  <2> QED BY <2>5
<1>3. n \in Solved
  <2> HIDE DEF Solved
  <2> QED BY <1>1, <1>2, Induction
<1> QED BY <1>3
==============================================================================
