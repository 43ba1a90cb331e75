-------------------------- MODULE InductionLemmas --------------------------
(***************************************************************************)
(* Induction over the naturals for a set in the place of a predicate, from *)
(* the library's fact that strict inclusion of finite sets is well founded.*)
(***************************************************************************)
EXTENDS FiniteSetTheorems, TLAPS

\* A set of naturals has a least element: of the intervals 1..n for its
\* elements n, one includes no other.
LEMMA Smallest ==
    ASSUME NEW T, T \subseteq Nat, T # {}
    PROVE  \E n \in T : \A m \in T : n <= m
<1> DEFINE U == {1..n : n \in T}
           R == StrictSubsetOrdering(Nat)
<1>1. U \subseteq FiniteSubsetsOf(Nat)
      BY FS_Interval DEF FiniteSubsetsOf
<1>2. U # {}
      OBVIOUS
<1>3. IsWellFoundedOn(R, FiniteSubsetsOf(Nat))
      BY FS_StrictSubsetOrderingWellFounded
<1>4. PICK s \in U : \A t \in U : ~(<<t, s>> \in R)
  <2> HIDE DEF U, R
  <2> QED
      BY <1>1, <1>2, <1>3, WFMin
<1>5. PICK n \in T : s = 1..n
      OBVIOUS
<1>6. ASSUME NEW m \in T, m < n PROVE FALSE
  <2>1. 1..m \in U
        OBVIOUS
  <2>2. 1..m \in SUBSET Nat /\ 1..n \in SUBSET Nat /\ 1..m \subseteq 1..n /\ 1..m # 1..n
        BY <1>6
  <2>3. <<1..m, 1..n>> \in R
        BY <2>2 DEF StrictSubsetOrdering
  <2> QED
      BY <1>4, <1>5, <2>1, <2>3
<1> QED
    BY <1>6

\* Induction, for a set in the place of a predicate.
LEMMA SetInduction ==
    ASSUME NEW P, 0 \in P, \A n \in Nat : n \in P => n + 1 \in P
    PROVE  Nat \subseteq P
<1> SUFFICES ASSUME Nat \ P # {} PROVE FALSE
    OBVIOUS
<1>1. PICK n \in Nat \ P : \A m \in Nat \ P : n <= m
      BY Smallest
<1>2. n # 0 /\ n - 1 \in Nat /\ ~(n <= n - 1)
      BY <1>1
<1>3. n - 1 \in P
      BY <1>1, <1>2
<1> QED
    BY <1>2, <1>3
============================================================================
