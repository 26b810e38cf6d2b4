------------------------------ MODULE NatLemmas ------------------------------
(***************************************************************************)
(* Sets of natural numbers: that the first item of a search exists, and    *)
(* the last one if the items are bounded.  The proofs about the modules    *)
(* use these facts in place of induction.                                  *)
(***************************************************************************)
EXTENDS WellFoundedInduction, TLAPS

\* A non-empty set of natural numbers has a least element.
LEMMA LeastNatural ==
    ASSUME NEW T, T \subseteq Nat, T # {}
    PROVE  \E t \in T : \A u \in T : t <= u
<1>1. PICK t \in T : \A u \in T : ~(<<u, t>> \in OpToRel(<, Nat))
  BY WFMin, NatLessThanWellFounded, Zenon
<1>2. \A u \in T : ~(u < t)
  <2> SUFFICES ASSUME NEW u \in T, u < t PROVE FALSE
    OBVIOUS
  <2>1. <<u, t>> \in Nat \X Nat /\ <<u, t>>[1] = u /\ <<u, t>>[2] = t
    OBVIOUS
  <2>2. <<u, t>> \in OpToRel(<, Nat)
    BY <2>1, Zenon DEF OpToRel
  <2> QED BY <1>1, <2>2
<1> QED BY <1>2

\* A non-empty, bounded set of natural numbers has a largest element.
LEMMA GreatestNatural ==
    ASSUME NEW T, T # {}, NEW B \in Nat, T \subseteq 0 .. B
    PROVE  \E t \in T : \A u \in T : u <= t
<1> DEFINE S == {B - x : x \in T}
<1>1. S # {}
  OBVIOUS
<1>2. S \subseteq Nat
  <2> SUFFICES ASSUME NEW x \in T PROVE B - x \in Nat
    OBVIOUS
  <2>1. x \in 0 .. B
    OBVIOUS
  <2> QED BY <2>1
<1>3. PICK s \in S : \A u \in S : s <= u
  BY <1>1, <1>2, LeastNatural
<1>4. PICK t \in T : s = B - t
  OBVIOUS
<1>5. \A u \in T : u <= t
  <2> TAKE u \in T
  <2>1. B - u \in S
    OBVIOUS
  <2>2. B - t <= B - u
    BY <1>3, <1>4, <2>1
  <2>3. t \in 0 .. B /\ u \in 0 .. B
    OBVIOUS
  <2> QED BY <2>2, <2>3
<1> QED BY <1>5
=============================================================================
