------------------------------ MODULE SlotLemmas ------------------------------
(***************************************************************************)
(* What the chunked loaders rely on when they count their slots instead of *)
(* looking at them: facts about the sets of filled slots among N of them.  *)
(* And what the photo album relies on when it takes the largest of its     *)
(* keys: there is one.                                                     *)
(***************************************************************************)
EXTENDS Integers, FiniteSets, FiniteSetTheorems, WellFoundedInduction, TLAPS

\* A set of filled slots is finite, has at most N elements, and N of them only
\* when every slot is filled (photo.rs:59, bio.rs:302).
LEMMA FilledBounds ==
  ASSUME NEW N \in Nat \ {0}, NEW F \in SUBSET (0 .. N - 1)
  PROVE  /\ IsFiniteSet(F) /\ Cardinality(F) \in 0 .. N
         /\ Cardinality(F) = N <=> F = 0 .. N - 1
<1>1. IsFiniteSet(0 .. N - 1) /\ Cardinality(0 .. N - 1) = N
    BY FS_Interval
<1>2. IsFiniteSet(F) /\ Cardinality(F) <= N /\ (N = Cardinality(F) => 0 .. N - 1 = F)
    BY <1>1, FS_Subset
<1>3. Cardinality(F) \in Nat
    BY <1>2, FS_CardinalityType
<1> QED BY <1>1, <1>2, <1>3

\* Filling a slot adds one to the count exactly when the slot was empty
\* (photo.rs:202-205, bio.rs:616-620).
LEMMA FillOne ==
  ASSUME NEW N \in Nat \ {0}, NEW F \in SUBSET (0 .. N - 1), NEW c \in 0 .. N - 1
  PROVE  /\ F \union {c} \in SUBSET (0 .. N - 1)
         /\ Cardinality(F \union {c}) = Cardinality(F) + (IF c \in F THEN 0 ELSE 1)
<1>1. IsFiniteSet(F) /\ Cardinality(F) \in 0 .. N
    BY FilledBounds
<1>2. Cardinality(F \union {c}) = IF c \in F THEN Cardinality(F) ELSE Cardinality(F) + 1
    BY <1>1, FS_AddElement
<1> QED BY <1>1, <1>2

\* No slot is filled: the count is zero, and that is not all of them.
LEMMA FillNone ==
  ASSUME NEW N \in Nat \ {0}
  PROVE  Cardinality({}) = 0 /\ {} # 0 .. N - 1
<1>1. 0 \in 0 .. N - 1
    OBVIOUS
<1> QED BY <1>1, FS_EmptySet

\* A set of naturals that is not empty has a least element.
LEMMA LeastNatural ==
  ASSUME NEW T \in SUBSET Nat, T # {}
  PROVE  \E x \in T : \A y \in T : x <= y
<1> DEFINE Less == OpToRel(<, Nat)
<1>1. IsWellFoundedOn(Less, Nat)
    BY NatLessThanWellFounded
<1>2. \A x, y \in Nat : x < y => <<x, y>> \in Less
    BY DEF OpToRel
<1>3. \E x \in T : \A y \in T : ~ (<<y, x>> \in Less)
    BY <1>1, WFMin
<1> HIDE DEF Less
<1>4. PICK x \in T : \A y \in T : ~ (<<y, x>> \in Less)
    BY <1>3
<1>5. ASSUME NEW y \in T PROVE x <= y
  <2>1. x \in Nat /\ y \in Nat
      OBVIOUS
  <2>2. ~ (y < x)
      BY <1>2, <1>4, <2>1, Zenon
  <2> QED BY <2>1, <2>2
<1> QED BY <1>5

\* A bounded set of naturals that is not empty has a largest element: the one
\* the next key is counted from (photo.rs:96-101).
LEMMA LargestNatural ==
  ASSUME NEW S \in SUBSET Nat, S # {}, NEW b \in Nat, \A k \in S : k <= b
  PROVE  \E m \in S : \A k \in S : k <= m
<1> DEFINE T == {m \in Nat : \A k \in S : k <= m}
<1>1. PICK m \in T : \A y \in T : m <= y
    BY LeastNatural, T \in SUBSET Nat, b \in T
<1>2. m \in S
  <2> SUFFICES ASSUME m \notin S PROVE FALSE
      OBVIOUS
  <2>1. \A k \in S : k <= m - 1
      BY <1>1
  <2>2. m - 1 \in Nat
    <3>1. PICK k \in S : TRUE
        OBVIOUS
    <3>2. k \in Nat /\ m \in Nat /\ k <= m - 1
        BY <2>1
    <3> QED BY <3>2
  <2> QED BY <1>1, <2>1, <2>2
<1> QED BY <1>1, <1>2
=============================================================================
