------------------------------ MODULE Counting ------------------------------
(***************************************************************************)
(* Facts about numbers: how many elements a set has, which the proofs      *)
(* about listings count with, and that a set of numbers has a least one,   *)
(* which stands in for induction in the proofs about paths.                *)
(***************************************************************************)
EXTENDS FiniteSetTheorems, FunctionTheorems, WellFoundedInduction, TLAPS

(* An enumeration of a set, each element once, is as long as the set.      *)
LEMMA Enumerated ==
    ASSUME NEW n \in Nat, NEW T, NEW f \in [1 .. n -> T],
           \A i, j \in 1 .. n : f[i] = f[j] => i = j,
           \A t \in T : \E i \in 1 .. n : f[i] = t
    PROVE  Cardinality(T) = n
<1>1. f \in Bijection(1 .. n, T)
  BY Fun_IsBij
<1>2. ExistsBijection(1 .. n, T)
  BY <1>1 DEF ExistsBijection
<1>3. IsFiniteSet(1 .. n) /\ Cardinality(1 .. n) = n
  BY FS_Interval
<1> QED
  BY <1>2, <1>3, FS_Bijection

(* Every set of numbers has a least one: induction without a predicate.    *)
Smaller == {pair \in Nat \X Nat : pair[1] < pair[2]}

LEMMA LeastNumber ==
    ASSUME NEW S \in SUBSET Nat, S # {}
    PROVE  \E n \in S : \A m \in S : n <= m
<1>1. Smaller = OpToRel(<, Nat)
  BY Zenon DEF Smaller, OpToRel
<1>2. IsWellFoundedOn(Smaller, Nat)
  BY <1>1, NatLessThanWellFounded
<1>3. PICK n \in S : \A m \in S : <<m, n>> \notin Smaller
  BY <1>2, WFMin
<1>4. ASSUME NEW m \in S PROVE n <= m
  <2>1. m < n => <<m, n>> \in Smaller
    BY DEF Smaller
  <2> QED
    BY <1>3, <2>1
<1> QED
  BY <1>4


(* An enumeration that is as long as the set has no element twice.         *)
LEMMA EnumeratedOnce ==
    ASSUME NEW n \in Nat, NEW T, Cardinality(T) = n, NEW f \in [1 .. n -> T],
           \A t \in T : \E i \in 1 .. n : f[i] = t
    PROVE  \A i, j \in 1 .. n : f[i] = f[j] => i = j
<1>1. f \in Surjection(1 .. n, T)
  BY Fun_IsSurj
<1>2. IsFiniteSet(1 .. n) /\ Cardinality(1 .. n) = n
  BY FS_Interval
<1>3. f \in Injection(1 .. n, T)
  BY <1>1, <1>2, FS_SurjSameCardinalityImpliesInj
<1> QED
  BY <1>3 DEF Injection, IsInjective

=============================================================================
