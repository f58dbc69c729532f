---------------------------- MODULE NumberLemmas ----------------------------
(***************************************************************************)
(* Least and greatest elements of sets of numbers, for proofs that go by a  *)
(* smallest counterexample and for operators that take a minimum or maximum. *)
(***************************************************************************)
EXTENDS Integers, WellFoundedInduction, TLAPS

\* Every non-empty set of natural numbers has a least element.
LEMMA LeastNumber ==
  ASSUME NEW S, S \subseteq Nat, S # {}
  PROVE  \E m \in S : \A k \in S : m <= k
<1>. DEFINE Less == OpToRel(<, Nat)
<1>1. IsWellFoundedOn(Less, Nat)
  BY NatLessThanWellFounded
<1>2. \A i, j \in Nat : i < j => <<i, j>> \in Less
  BY DEF OpToRel
<1>. HIDE DEF Less
<1>3. PICK m \in S : \A k \in S : <<k, m>> \notin Less
  BY <1>1, WFMin
<1>4. ASSUME NEW k \in S PROVE m <= k
  <2>1. k \in Nat /\ m \in Nat
    OBVIOUS
  <2>2. ~(k < m)
    BY <2>1, <1>2, <1>3
  <2>. QED BY <2>1, <2>2
<1>. QED BY <1>4

\* A non-empty set of natural numbers with a bound has a greatest element.
LEMMA GreatestNumber ==
  ASSUME NEW n \in Nat, NEW S, S \subseteq 0 .. n, S # {}
  PROVE  \E m \in S : \A k \in S : k <= m
<1>. DEFINE Gaps == {g \in Nat : n - g \in S}
<1>1. ASSUME NEW k \in S PROVE n - k \in Gaps
  <2>1. n - k \in Nat /\ n - (n - k) = k
    OBVIOUS
  <2>. QED BY <2>1
<1>2. Gaps \subseteq Nat /\ Gaps # {}
  BY <1>1
<1>3. \A g \in Gaps : g \in Nat /\ n - g \in S
  OBVIOUS
<1>. HIDE DEF Gaps
<1>4. PICK g \in Gaps : \A h \in Gaps : g <= h
  BY <1>2, LeastNumber
<1>5. ASSUME NEW k \in S PROVE k <= n - g
  <2>1. g <= n - k /\ g \in Nat /\ k \in Int
    BY <1>1, <1>3, <1>4
  <2>. QED BY <2>1
<1>. QED BY <1>3, <1>4, <1>5
=============================================================================
