---------------------------- MODULE MinTheorems ----------------------------
(***************************************************************************)
(* What Min of FiniteSetsExt gives, for any set of natural numbers that is *)
(* not empty: its least member, and the only one.  Used where the code     *)
(* takes the first of several (cJSON_GetObjectItem, the loops of d-ddos).  *)
(* And Max, for finite ones: the longest of d-ddos' lists of backups.      *)
(***************************************************************************)
EXTENDS Naturals, FiniteSetsExt, FiniteSetTheorems, WellFoundedInduction, TLAPS

\* An element below all others is the minimum.
LEMMA MinIs ==
  ASSUME NEW S \in SUBSET Nat, NEW x \in S, \A y \in S : x <= y
  PROVE  Min(S) = x
<1>1. \A z \in S : (\A y \in S : z <= y) => z = x
  OBVIOUS
<1>2. Min(S) \in S /\ \A y \in S : Min(S) <= y
  BY DEF Min
<1> QED
  BY <1>1, <1>2

\* A set of naturals that has a member has a minimum.
LEMMA MinExists ==
  ASSUME NEW S \in SUBSET Nat, S # {}
  PROVE  Min(S) \in S /\ \A y \in S : Min(S) <= y
<1>1. PICK x \in S : \A y \in S : ~ (<<y, x>> \in OpToRel(<, Nat))
  BY WFMin, NatLessThanWellFounded, Zenon
<1>2. \A y \in S : ~ (y < x)
  BY <1>1 DEF OpToRel
<1>3. \A y \in S : x <= y
  BY <1>2
<1> QED
  BY <1>3, MinIs

\* The theorems of the library that go by induction take an operator; this goes
\* by a set with no greatest member that has no such strict subset.
LEMMA MaxExists ==
  ASSUME NEW S \in SUBSET Nat, S # {}, IsFiniteSet(S)
  PROVE  Max(S) \in S /\ \A y \in S : y <= Max(S)
<1> DEFINE HasMax(A) == \E x \in A : \A y \in A : y <= x
           Bad == {A \in FiniteSubsetsOf(S) : A # {} /\ ~ HasMax(A)}
<1>1. S \in FiniteSubsetsOf(S)
  BY DEF FiniteSubsetsOf
<1>2. Bad = {}
  <2> SUFFICES ASSUME Bad # {} PROVE FALSE
    OBVIOUS
  <2>1. Bad \subseteq FiniteSubsetsOf(S)
    OBVIOUS
  <2>2. PICK A \in Bad : \A B \in Bad : ~ (<<B, A>> \in StrictSubsetOrdering(S))
    <3> HIDE DEF Bad
    <3>1. IsWellFoundedOn(StrictSubsetOrdering(S), FiniteSubsetsOf(S))
      BY FS_StrictSubsetOrderingWellFounded
    <3> QED
      BY <2>1, <3>1, WFMin, Zenon
  <2>3. A \subseteq S /\ IsFiniteSet(A) /\ A # {} /\ ~ HasMax(A)
    BY DEF FiniteSubsetsOf
  <2>4. PICK a \in A : TRUE
    BY <2>3
  <2>5. PICK b \in A : ~ (b <= a)
    BY <2>3
  <2> DEFINE B == A \ {a}
  <2>6. B \subseteq S /\ IsFiniteSet(B) /\ b \in B /\ B \subseteq A /\ B # A
    BY <2>3, <2>5, FS_Subset
  <2>7. <<B, A>> \in StrictSubsetOrdering(S)
    <3>1. B \in SUBSET S /\ A \in SUBSET S
      BY <2>3, <2>6
    <3> HIDE DEF B
    <3> QED
      BY <2>6, <3>1 DEF StrictSubsetOrdering
  <2>8. HasMax(B)
    <3>1. B \in FiniteSubsetsOf(S) /\ B # {}
      BY <2>6 DEF FiniteSubsetsOf
    <3> QED
      BY <2>2, <2>7, <3>1
  <2>9. PICK x \in B : \A y \in B : y <= x
    BY <2>8
  <2>10. a \in Nat /\ b \in Nat /\ x \in Nat /\ a <= b /\ b <= x
    BY <2>3, <2>5, <2>6, <2>9
  <2>11. \A y \in A : y <= x
    BY <2>9, <2>10
  <2> QED
    BY <2>3, <2>9, <2>11
<1>3. HasMax(S)
  BY <1>1, <1>2
<1> QED
  BY <1>3 DEF Max
=============================================================================
