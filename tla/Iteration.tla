----------------------------- MODULE Iteration -----------------------------
(***************************************************************************)
(* Induction and iteration over the natural numbers, for the proofs about  *)
(* the recursive functions of the model.  A set of numbers stands in for   *)
(* the property, a function for the step.                                  *)
(***************************************************************************)
EXTENDS Integers, WellFoundedInduction, TLAPS

Before == {p \in Nat \X Nat : p[1] < p[2]}

(* A set of numbers with 0 and every successor has all of them. *)
LEMMA NumbersByInduction ==
  ASSUME NEW S \in SUBSET Nat, 0 \in S, \A n \in S : n + 1 \in S
  PROVE  S = Nat
<1>1. IsWellFoundedOn(Before, Nat)
  BY NatLessThanWellFounded DEF Before, OpToRel
<1>2. ASSUME NEW m \in Nat, m \notin S PROVE FALSE
  <2>1. Nat \ S \subseteq Nat /\ Nat \ S # {}
    BY <1>2
  <2>2. PICK least \in Nat \ S : \A n \in Nat \ S : ~(<<n, least>> \in Before)
    BY <1>1, <2>1, WFMin
  <2>3. least - 1 \in Nat /\ least - 1 < least /\ (least - 1) + 1 = least
    BY <2>2
  <2>4. least - 1 \in S
    BY <2>2, <2>3 DEF Before
  <2> QED
    BY <2>2, <2>3, <2>4
<1> QED
  BY <1>2

(* A set of numbers that is not empty has a least one. *)
LEMMA LeastExists ==
  ASSUME NEW A \in SUBSET Nat, A # {}
  PROVE  \E i \in A : \A j \in A : i <= j
<1>1. IsWellFoundedOn(Before, Nat)
  BY NatLessThanWellFounded DEF Before, OpToRel
<1>2. PICK least \in A : \A n \in A : ~(<<n, least>> \in Before)
  BY <1>1, WFMin
<1>3. ASSUME NEW n \in A PROVE least <= n
  <2>1. n \in Nat /\ least \in Nat
    OBVIOUS
  <2>2. n < least => <<n, least>> \in Before
    BY <2>1 DEF Before
  <2>3. ~(n < least)
    BY <1>2, <2>2
  <2> QED
    BY <2>1, <2>3
<1> QED
  BY <1>3

(* The values of f are those of n steps of F from a. *)
Iterates(f, a, F, V, N) ==
    /\ f \in [0..N -> V] /\ f[0] = a
    /\ \A n \in 1..N : f[n] = F[<<n, f[n - 1]>>]

(* A step can be iterated any number of times. *)
LEMMA IterationExists ==
  ASSUME NEW V, NEW a \in V, NEW F \in [Nat \X V -> V], NEW N \in Nat
  PROVE  \E f : Iterates(f, a, F, V, N)
<1> DEFINE S == {n \in Nat : \E f : Iterates(f, a, F, V, n)}
<1>1. 0 \in S
  <2> DEFINE f == [m \in 0..0 |-> a]
  <2>1. Iterates(f, a, F, V, 0)
    BY DEF Iterates
  <2> QED
    BY <2>1
<1>2. ASSUME NEW n \in S PROVE n + 1 \in S
  <2>1. n \in Nat /\ n + 1 \in Nat
    OBVIOUS
  <2>2. PICK f : Iterates(f, a, F, V, n)
    OBVIOUS
  <2> DEFINE last == F[<<n + 1, f[n]>>]
             g == [m \in 0..(n + 1) |-> IF m = n + 1 THEN last ELSE f[m]]
  <2>3. f[n] \in V /\ \A m \in 0..n : f[m] \in V
    BY <2>1, <2>2 DEF Iterates
  <2>4. last \in V
    BY <2>1, <2>3
  <2>5. g \in [0..(n + 1) -> V]
    BY <2>1, <2>3, <2>4
  <2>6. \A m \in 0..n : g[m] = f[m]
    BY <2>1
  <2>7. g[n + 1] = last
    BY <2>1
  <2> HIDE DEF g
  <2>8. g[0] = a
    BY <2>1, <2>2, <2>6 DEF Iterates
  <2>9. ASSUME NEW m \in 1..(n + 1) PROVE g[m] = F[<<m, g[m - 1]>>]
    <3>1. CASE m = n + 1
      <4>1. m - 1 = n /\ n \in 0..n
        BY <2>1, <3>1
      <4> QED
        BY <2>6, <2>7, <3>1, <4>1
    <3>2. CASE m \in 1..n
      <4>1. m \in 0..n /\ m - 1 \in 0..n
        BY <2>1, <3>2
      <4> QED
        BY <2>2, <2>6, <3>2, <4>1 DEF Iterates
    <3> QED
      BY <2>1, <3>1, <3>2
  <2>10. Iterates(g, a, F, V, n + 1)
    BY <2>5, <2>8, <2>9 DEF Iterates
  <2> QED
    BY <2>1, <2>10
<1> HIDE DEF S
<1>3. S = Nat
  <2>1. S \in SUBSET Nat
    BY DEF S
  <2> QED
    BY <1>1, <1>2, <2>1, NumbersByInduction
<1> QED
  BY <1>3 DEF S
=============================================================================
