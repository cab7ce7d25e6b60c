--------------------------- MODULE MaximumLemmas ---------------------------
(* Minimum and maximum of sets of numbers, and induction up to a number. *)
EXTENDS Integers, FiniteSetsExt, WellFoundedInduction, TLAPS

\* The natural numbers are well-founded.
LEMMA NatHasMinimum ==
    ASSUME NEW T \in SUBSET Nat, T # {}
    PROVE  \E m \in T : \A y \in T : m <= y
<1>1. PICK R : R = OpToRel(<, Nat)
  OBVIOUS
<1>2. \A x, y \in Nat : x < y => <<x, y>> \in R
  BY <1>1 DEF OpToRel
<1>3. IsWellFoundedOn(R, Nat)
  BY <1>1, NatLessThanWellFounded
<1>4. PICK m \in T : \A y \in T : ~(<<y, m>> \in R)
  BY <1>3, WFMin
<1>5. \A y \in T : ~(y < m)
  BY <1>2, <1>4
<1> QED
  BY <1>5

\* Induction up to a number, for a set.
LEMMA UpTo ==
    ASSUME NEW N \in Nat, NEW T, 0 \in T, \A n \in 0..N : n # N /\ n \in T => n + 1 \in T
    PROVE  \A n \in 0..N : n \in T
<1> DEFINE U == {n \in 0..N : n \notin T}
<1> SUFFICES ASSUME U # {} PROVE FALSE
  OBVIOUS
<1>1. PICK m \in U : \A n \in U : m <= n
  <2>1. U \in SUBSET Nat
    OBVIOUS
  <2> HIDE DEF U
  <2> QED
    BY <2>1, NatHasMinimum
<1>2. m # 0 /\ m - 1 \in 0..N /\ m - 1 # N
  OBVIOUS
<1>3. m - 1 \notin T
  BY <1>2
<1>4. m - 1 \in U
  BY <1>2, <1>3
<1> QED
  BY <1>1, <1>2, <1>4

\* Max of such a set is one of its elements, and none is larger.
LEMMA MaxIsMember ==
    ASSUME NEW N \in Nat, NEW S \in SUBSET (0..N), S # {}
    PROVE  Max(S) \in S /\ \A x \in S : Max(S) >= x
<1> DEFINE T == {N - x : x \in S}
<1>1. T \in SUBSET Nat /\ T # {}
  <2>1. \A x \in S : N - x \in Nat
    OBVIOUS
  <2> QED
    BY <2>1
<1>2. PICK m \in T : \A y \in T : m <= y
  <2> HIDE DEF T
  <2> QED
    BY <1>1, NatHasMinimum
<1>3. PICK n \in S : m = N - n
  OBVIOUS
<1>4. \A x \in S : n >= x
  <2> SUFFICES ASSUME NEW x \in S PROVE n >= x
    OBVIOUS
  <2>1. N - n <= N - x
    BY <1>2, <1>3
  <2> QED
    BY <2>1
<1> QED
  BY <1>4 DEF Max
=============================================================================
