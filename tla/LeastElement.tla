---------------------------- MODULE LeastElement ----------------------------
(* A set of naturals has a least element, and a greatest one if it is      *)
(* bounded: what the loops that stop at the first match, and the joins of  *)
(* several views, rest on.                                                 *)
EXTENDS Naturals, WellFoundedInduction, TLAPS

\* Every non-empty set of naturals has a member that no other is below.
LEMMA LeastNat ==
    ASSUME NEW S, S \subseteq Nat, S # {}
    PROVE  \E x \in S : \A y \in S : x <= y
  <1>1. PICK x \in S : \A y \in S : <<y, x>> \notin OpToRel(<, Nat)
    BY NatLessThanWellFounded, WFMin, Zenon
  <1>2. ASSUME NEW y \in S PROVE x <= y
    <2>1. x \in Nat /\ y \in Nat
      BY <1>1
    <2>2. ~(y < x)
      BY <1>1, <2>1, Zenon DEF OpToRel
    <2>. QED  BY <2>1, <2>2
  <1>. QED  BY <1>1, <1>2

\* A bounded, non-empty set of naturals has a member that no other is above.
LEMMA GreatestNat ==
    ASSUME NEW S, S \subseteq Nat, S # {}, NEW n \in Nat, \A x \in S : x <= n
    PROVE  \E x \in S : \A y \in S : y <= x
  <1>. DEFINE T == {n - x : x \in S}
  <1>1. T \subseteq Nat /\ T # {}
    <2>1. \A x \in S : n - x \in Nat
      OBVIOUS
    <2>. QED  BY <2>1
  <1>2. PICK m \in T : \A k \in T : m <= k
    <2>. HIDE DEF T
    <2>. QED  BY <1>1, LeastNat
  <1>3. PICK x \in S : m = n - x
    BY <1>2
  <1>4. ASSUME NEW y \in S PROVE y <= x
    <2>1. m <= n - y
      BY <1>2
    <2>2. x \in Nat /\ y \in Nat
      OBVIOUS
    <2>. HIDE DEF T
    <2>. QED  BY <1>3, <2>1, <2>2
  <1>. QED  BY <1>3, <1>4
=============================================================================
