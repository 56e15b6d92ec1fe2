------------------------------- MODULE Numbers -------------------------------
(***************************************************************************)
(* A set of naturals has a least element: what proofs about a recursive    *)
(* function take in place of induction.                                    *)
(***************************************************************************)
EXTENDS Naturals, FiniteSetTheorems, WellFoundedInduction, TLAPS

\* Every nonempty set of numbers has a least one: finite initial segments are
\* well founded.
LEMMA LeastNat ==
  ASSUME NEW T \in SUBSET Nat, T # {}
  PROVE  \E x \in T : \A y \in T : x <= y
<1> DEFINE Family == {1..x : x \in T}
<1>1. Family \subseteq FiniteSubsetsOf(Nat) /\ Family # {}
  <2>1. \A x \in T : IsFiniteSet(1..x)
    BY FS_Interval
  <2>2. \A x \in T : 1..x \in FiniteSubsetsOf(Nat)
    BY <2>1 DEF FiniteSubsetsOf
  <2>3. QED
    BY <2>2
<1> HIDE DEF Family
<1>2. \E F \in Family : \A G \in Family : <<G, F>> \notin StrictSubsetOrdering(Nat)
  BY <1>1, FS_StrictSubsetOrderingWellFounded, WFMin
<1> USE DEF Family
<1>3. PICK x \in T : \A y \in T : <<1..y, 1..x>> \notin StrictSubsetOrdering(Nat)
  BY <1>2
<1>4. ASSUME NEW y \in T, y < x PROVE FALSE
  <2>1. 1..y \subseteq 1..x /\ 1..y \subseteq Nat /\ 1..x \subseteq Nat /\ x \in 1..x /\ x \notin 1..y
    BY <1>4
  <2>2. QED
    BY <1>3, <2>1 DEF StrictSubsetOrdering
<1>5. QED
  BY <1>3, <1>4
=============================================================================
