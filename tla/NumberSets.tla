----------------------------- MODULE NumberSets -----------------------------
(***************************************************************************)
(* What the other proofs need of sets of natural numbers: a finite one has *)
(* its maximum, a nonempty one its minimum, and a set that holds 0 and the *)
(* successor of each of its elements below N holds all of 0 .. N.          *)
(*                                                                         *)
(* They are derived from the well-founded ordering of the finite subsets   *)
(* of a set, whose minimal elements are stated for sets, so no theorem     *)
(* with an operator parameter is involved: a proof by induction takes the  *)
(* set of the numbers its claim holds for.                                 *)
(***************************************************************************)
EXTENDS Integers, FiniteSetsExt, FiniteSetTheorems, WellFoundedInduction, TLAPS

\* A finite nonempty set of numbers has its maximum among its elements.  (The
\* smallest subset without one would be a number and a smaller subset.)
LEMMA MaxIsIn ==
  ASSUME NEW S \in SUBSET Nat, IsFiniteSet(S), S # {}
  PROVE  Max(S) \in S /\ \A y \in S : Max(S) >= y
<1> DEFINE HasMax(U) == \E x \in U : \A y \in U : x >= y
           Less == StrictSubsetOrdering(S)
           Bad == {U \in FiniteSubsetsOf(S) : U # {} /\ ~HasMax(U)}
<1>1. Bad = {}
  <2> SUFFICES ASSUME Bad # {} PROVE FALSE
    OBVIOUS
  <2>1. IsWellFoundedOn(Less, FiniteSubsetsOf(S))
    BY FS_StrictSubsetOrderingWellFounded
  <2>2. PICK U \in Bad : \A V \in Bad : ~ (<<V, U>> \in Less)
    <3> HIDE DEF Less
    <3>1. Bad \subseteq FiniteSubsetsOf(S)
      OBVIOUS
    <3> HIDE DEF Bad
    <3> QED BY <2>1, <3>1, WFMin
  <2>3. PICK x \in U : TRUE
    OBVIOUS
  <2>4. /\ U \in SUBSET S /\ IsFiniteSet(U) /\ x \in Nat
        /\ IsFiniteSet(U \ {x})
    BY <2>3, FS_RemoveElement DEF FiniteSubsetsOf
  <2>5. <<U \ {x}, U>> \in Less
    BY <2>4 DEF StrictSubsetOrdering
  <2>6. U \ {x} \in FiniteSubsetsOf(S)
    BY <2>4 DEF FiniteSubsetsOf
  <2>7. U \ {x} = {} \/ HasMax(U \ {x})
    <3> HIDE DEF Less, HasMax
    <3> QED BY <2>2, <2>5, <2>6
  <2>8. HasMax(U)
    <3>1. CASE U \ {x} = {}
      BY <2>4, <3>1
    <3>2. CASE HasMax(U \ {x})
      <4>1. PICK m \in U \ {x} : \A y \in U \ {x} : m >= y
        BY <3>2
      <4>2. m \in Nat /\ x \in Nat /\ U \subseteq Nat
        BY <2>4, <4>1
      <4>3. CASE m >= x
        BY <4>1, <4>2, <4>3
      <4>4. CASE ~(m >= x)
        <5>1. \A y \in U : x >= y
          BY <4>1, <4>2, <4>4
        <5> QED BY <5>1
      <4> QED BY <4>3, <4>4
    <3> QED BY <2>7, <3>1, <3>2
  <2> QED BY <2>2, <2>8
<1>2. HasMax(S)
  BY <1>1 DEF FiniteSubsetsOf
<1> QED BY <1>2 DEF Max


\* Induction up to N, with the claim given as the set of its numbers.
LEMMA UpTo ==
  ASSUME NEW N \in Nat, NEW S,
         0 \in S, \A k \in 1 .. N : k - 1 \in S => k \in S
  PROVE  0 .. N \subseteq S
<1> DEFINE U == {n \in 0 .. N : 0 .. n \subseteq S}
<1>1. U \in SUBSET Nat /\ 0 \in U
  BY SMT
<1>2. IsFiniteSet(U)
  <2>1. IsFiniteSet(0 .. N) /\ U \in SUBSET (0 .. N)
    BY FS_Interval
  <2> QED BY <2>1, FS_Subset
<1>3. Max(U) \in U /\ \A y \in U : Max(U) >= y
  BY <1>1, <1>2, MaxIsIn
<1>4. Max(U) = N
  <2> DEFINE m == Max(U)
  <2> SUFFICES ASSUME m < N PROVE FALSE
    BY <1>3
  <2>1. m \in 0 .. N /\ 0 .. m \subseteq S
    BY <1>3
  <2>2. m + 1 \in S
    BY <2>1
  <2>3. m + 1 \in U
    <3> HIDE DEF m
    <3> QED BY <2>1, <2>2
  <2> QED BY <1>3, <2>1, <2>3
<1> QED BY <1>3, <1>4

\* A nonempty set of numbers up to N has its minimum among its elements.
LEMMA MinIsIn ==
  ASSUME NEW N \in Nat, NEW S \in SUBSET (0 .. N), S # {}
  PROVE  Min(S) \in S /\ \A y \in S : Min(S) =< y
<1> DEFINE None == {k \in 0 .. N : \A j \in 0 .. k : j \notin S}
<1>1. \E x \in S : \A y \in S : x =< y
  <2> SUFFICES ASSUME \A x \in S : \E y \in S : y < x PROVE FALSE
    BY SMT
  <2>1. 0 \in None
    BY SMT
  <2>2. \A k \in 1 .. N : k - 1 \in None => k \in None
    BY SMT
  <2>3. 0 .. N \subseteq None
    <3> HIDE DEF None
    <3> QED BY <2>1, <2>2, UpTo
  <2>4. PICK x \in S : TRUE
    OBVIOUS
  <2>5. x \in 0 .. x /\ x \in None
    BY <2>3, <2>4
  <2> QED BY <2>4, <2>5
<1> QED BY <1>1 DEF Min
=============================================================================
