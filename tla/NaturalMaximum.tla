--------------------------- MODULE NaturalMaximum ---------------------------
(***************************************************************************)
(* A set of numbers within bounds has a least and a greatest element: what *)
(* makes "the newest version" and "the last batch" meaningful for every    *)
(* value of the bounds.                                                    *)
(***************************************************************************)
EXTENDS Integers, TLAPS, WellFoundedInduction

\* A nonempty set of natural numbers has a least element.
LEMMA LeastNatural ==
    ASSUME NEW T \in SUBSET Nat, T # {}
    PROVE  \E x \in T : \A y \in T : x <= y
  <1>1. PICK x \in T : \A y \in T : ~ (<<y, x>> \in OpToRel(<, Nat))
    BY NatLessThanWellFounded, WFMin, Zenon
  <1>2. \A y \in T : ~ (y < x)
    BY <1>1, Zenon DEF OpToRel
  <1>3. \A y \in T : x <= y
    BY <1>2
  <1> QED
    BY <1>3

\* A nonempty set of natural numbers up to a bound has a greatest element.
LEMMA GreatestUpTo ==
    ASSUME NEW n \in Nat, NEW S \in SUBSET (0..n), S # {}
    PROVE  \E x \in S : \A y \in S : y <= x
  <1> DEFINE T == {m \in 0..n : n - m \in S}
  <1>1. T \in SUBSET Nat /\ T # {}
    <2>1. PICK s \in S : TRUE
      OBVIOUS
    <2>2. n - s \in 0..n /\ n - (n - s) = s
      OBVIOUS
    <2> QED
      BY <2>1, <2>2
  <1>2. PICK m \in T : \A y \in T : m <= y
    BY <1>1, LeastNatural
  <1>3. ASSUME NEW y \in S PROVE y <= n - m
    <2>1. n - y \in T
      BY <1>3
    <2>2. m <= n - y
      <3> HIDE DEF T
      <3> QED
        BY <1>2, <2>1
    <2> QED
      BY <2>2
  <1> QED
    BY <1>2, <1>3
=============================================================================
