-------------------------- MODULE Recursion_proofs --------------------------
(***************************************************************************)
(* Induction over the natural numbers, and functions that are defined by   *)
(* recursion over them, stated about sets and functions instead of         *)
(* operators, so that every instance is a first-order one.                 *)
(***************************************************************************)
EXTENDS Integers, FiniteSetTheorems, WellFoundedInduction, TLAPS

(* A set that has 0 and, with each number, the next one, has them all.  Of
   the intervals 1 .. n for the numbers n that it lacks, one would be the
   smallest. *)
LEMMA Induction ==
    ASSUME NEW S, 0 \in S, \A n \in Nat : n \in S => n + 1 \in S
    PROVE  Nat \subseteq S
<1> SUFFICES ASSUME NEW m \in Nat, m \notin S
             PROVE  FALSE
  OBVIOUS
<1> DEFINE T == { 1 .. n : n \in Nat \ S }
           R == StrictSubsetOrdering(Nat)
<1>1. T \subseteq FiniteSubsetsOf(Nat)
  <2>1. ASSUME NEW n \in Nat PROVE IsFiniteSet(1 .. n) /\ 1 .. n \in SUBSET Nat
    BY FS_Interval
  <2> QED
    BY <2>1 DEF FiniteSubsetsOf
<1>2. T # {}
  OBVIOUS
<1>3. IsWellFoundedOn(R, FiniteSubsetsOf(Nat))
  BY FS_StrictSubsetOrderingWellFounded
<1> HIDE DEF T, R
<1>4. PICK x \in T : \A y \in T : <<y, x>> \notin R
  BY <1>1, <1>2, <1>3, WFMin
<1> USE DEF T, R
<1>5. PICK n \in Nat \ S : x = 1 .. n
  OBVIOUS
<1>6. n - 1 \in Nat \ S
  <2>1. n # 0 /\ n - 1 \in Nat /\ (n - 1) + 1 = n
    OBVIOUS
  <2> QED
    BY <2>1
<1>7. 1 .. n - 1 \in T
  BY <1>6
<1>8. <<1 .. n - 1, 1 .. n>> \in R
  <2>1. 1 .. n - 1 \subseteq 1 .. n /\ n \in 1 .. n /\ n \notin 1 .. n - 1
    BY <1>6
  <2>2. 1 .. n - 1 \in SUBSET Nat /\ 1 .. n \in SUBSET Nat
    OBVIOUS
  <2> QED
    BY <2>1, <2>2 DEF StrictSubsetOrdering
<1> QED
  BY <1>4, <1>5, <1>7, <1>8

(* f has the first n values of the recursion that starts with v and whose
   i-th step is F[i]. *)
Follows(f, v, F, n) ==
    f[0] = v /\ \A i \in 1 .. n : f[i] = F[i][f[i - 1]]

(* There is a function that follows it. *)
LEMMA RecursionExists ==
    ASSUME NEW V, NEW v \in V, NEW F, NEW n \in Nat,
           \A i \in Nat : F[i] \in [V -> V]
    PROVE  \E f \in [0 .. n -> V] : Follows(f, v, F, n)
<1> DEFINE Solves(f, k) ==
               f[0] = v /\ \A i \in 1 .. k : f[i] = F[i][f[i - 1]]
           S == { k \in Nat : \E f \in [0 .. k -> V] : Solves(f, k) }
<1>1. 0 \in S
  <2>1. [i \in 0 .. 0 |-> v] \in [0 .. 0 -> V] /\ Solves([i \in 0 .. 0 |-> v], 0)
    OBVIOUS
  <2> QED
    BY <2>1
<1>2. ASSUME NEW k \in Nat, k \in S
      PROVE  k + 1 \in S
  <2>1. PICK f \in [0 .. k -> V] : Solves(f, k)
    BY <1>2
  <2> DEFINE g == [i \in 0 .. k + 1 |-> IF i = k + 1 THEN F[k + 1][f[k]] ELSE f[i]]
  <2>2. g \in [0 .. k + 1 -> V]
    OBVIOUS
  <2>3. \A i \in 0 .. k : g[i] = f[i]
    OBVIOUS
  <2>4. g[k + 1] = F[k + 1][g[k]]
    OBVIOUS
  <2>5. ASSUME NEW i \in 1 .. k + 1
        PROVE  g[i] = F[i][g[i - 1]]
    <3>1. CASE i = k + 1
      <4>1. i - 1 = k
        BY <3>1
      <4> QED
        BY <2>4, <3>1, <4>1
    <3>2. CASE i \in 1 .. k
      <4>1. i \in 0 .. k /\ i - 1 \in 0 .. k
        BY <3>2
      <4> QED
        BY <2>1, <2>3, <3>2, <4>1
    <3> QED
      BY <3>1, <3>2
  <2>6. g[0] = v
    BY <2>1, <2>3
  <2> HIDE DEF g
  <2>7. Solves(g, k + 1)
    BY <2>5, <2>6
  <2> QED
    BY <2>2, <2>7
<1> HIDE DEF S
<1>3. n \in S
  BY <1>1, <1>2, Induction
<1> QED
  BY <1>3 DEF S, Follows

=============================================================================
