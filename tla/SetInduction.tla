---------------------------- MODULE SetInduction ----------------------------
(***************************************************************************)
(* Induction over the natural numbers, stated of sets of numbers instead   *)
(* of predicates, so that a proof can cite it like any other fact.         *)
(***************************************************************************)
EXTENDS Naturals, WellFoundedInduction, TLAPS

\* A set of numbers that is not empty has a least element.
LEMMA LeastExists ==
  ASSUME NEW I \in SUBSET Nat, I # {}
  PROVE  \E i \in I : \A j \in I : i <= j
<1> DEFINE R == {ss \in Nat \X Nat : ss[1] < ss[2]}
<1>1. IsWellFoundedOn(R, Nat)
  BY NatLessThanWellFounded DEF OpToRel
<1>2. PICK x \in I : \A y \in I : ~(<<y, x>> \in R)
  BY <1>1, WFMin
<1>3. ASSUME NEW y \in I
      PROVE  x <= y
  <2>1. ~(<<y, x>>[1] < <<y, x>>[2])
    BY <1>2
  <2>2. <<y, x>>[1] = y /\ <<y, x>>[2] = x
    OBVIOUS
  <2> QED
    BY <2>1, <2>2, SMT
<1> QED
  BY <1>3

\* A set that holds the first number of an interval, and with each number of
\* it the next one, holds the interval.
LEMMA IntervalInduction ==
  ASSUME NEW a \in Nat, NEW b \in Nat, NEW S,
         a \in S,
         \A n \in a .. b - 1 : n \in S => n + 1 \in S
  PROVE  \A n \in a .. b : n \in S
<1> DEFINE I == {n \in a .. b : n \notin S}
<1> SUFFICES ASSUME I # {} PROVE FALSE
  OBVIOUS
<1>1. I \in SUBSET Nat
  OBVIOUS
<1>2. PICK i \in I : \A j \in I : i <= j
  BY <1>1, LeastExists, Zenon
<1>3. i \in a .. b /\ i # a
  OBVIOUS
<1>4. i - 1 \in a .. b - 1 /\ i - 1 + 1 = i
  BY <1>3
<1>5. i - 1 \notin S
  BY <1>2, <1>4
<1>6. i - 1 \in I
  BY <1>4, <1>5
<1>7. ~(i <= i - 1)
  BY <1>3
<1> QED
  BY <1>2, <1>6, <1>7

=============================================================================
