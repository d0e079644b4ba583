--------------------------- MODULE LoopInduction ---------------------------
(***************************************************************************)
(* Induction over the passes of a loop, from the well-foundedness of < on  *)
(* the natural numbers: a set of numbers that has 0 and, below n, with     *)
(* each number the next one has n, so that what is shown of each pass of a *)
(* loop is true of its end.                                                *)
(***************************************************************************)
EXTENDS Integers, WellFoundedInduction, TLAPS

(* Every set of numbers has a least one. *)
LEMMA LeastNat == ASSUME NEW S \in SUBSET Nat, S # {} PROVE \E n \in S : \A m \in S : n <= m
<1> DEFINE R == OpToRel(<, Nat)
<1>1. \A x, y \in Nat : x < y => <<x, y>> \in R  BY DEF OpToRel
<1>2. IsWellFoundedOn(R, Nat)  BY NatLessThanWellFounded
<1> HIDE DEF R
<1>3. PICK n \in S : \A m \in S : ~ (<<m, n>> \in R)  BY <1>2, WFMin
<1>4. \A m \in S : ~ (m < n)  BY <1>1, <1>3
<1> QED  BY <1>4

(* The induction itself. *)
LEMMA UpTo ==
    ASSUME NEW n \in Nat, NEW S, 0 \in S, \A k \in 0..n-1 : k \in S => k+1 \in S
    PROVE  \A k \in 0..n : k \in S
<1> DEFINE B == {k \in 0..n : k \notin S}
<1> SUFFICES ASSUME B # {} PROVE FALSE  OBVIOUS
<1>0. B \in SUBSET Nat  OBVIOUS
<1>1. PICK m \in B : \A k \in B : m <= k
  <2> HIDE DEF B
  <2> QED  BY <1>0, LeastNat
<1>2. m # 0 /\ m \in 0..n  OBVIOUS
<1>3. m-1 \in 0..n-1  BY <1>2
<1>4. m-1 \in S
  <2> SUFFICES ASSUME m-1 \notin S PROVE FALSE  OBVIOUS
  <2>1. m-1 \in B  BY <1>3
  <2> QED  BY <1>1, <1>3, <2>1
<1>5. m \in S  BY <1>3, <1>4
<1> QED  BY <1>5
=============================================================================
