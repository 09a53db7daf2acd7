---------------------------- MODULE BudgetProofs ----------------------------
(***************************************************************************)
(* What a user of a budget may rely on, proved for every set of items.     *)
(***************************************************************************)
EXTENDS Budget, TLAPS

\* Reserved and posted money never exceed an item's total.
AllCovered == \A i \in Items : Covered(i)

LEMMA StepCovers ==
    ASSUME TypeOK, TypeOK', NEW i \in Items, Covered(i), Step(i)
    PROVE  Covered(i)'
<1> USE DEF TypeOK, Covered
<1>1. CASE Reserve(i)
  BY <1>1 DEF Reserve
<1>2. CASE Transfer(i)
  BY <1>2 DEF Transfer
<1>3. CASE Withdraw(i)
  BY <1>3 DEF Withdraw
<1>4. CASE Resize(i)
  BY <1>4 DEF Resize
<1>5. QED
  BY <1>1, <1>2, <1>3, <1>4 DEF Step

\* An implementation of Budget never promises more of an item than it has.
THEOREM BudgetCovered == Spec => [](TypeOK /\ AllCovered)
<1>1. Init => TypeOK /\ AllCovered
  BY DEF Init, AllCovered
<1>2. TypeOK /\ AllCovered /\ [Next]_vars => TypeOK' /\ AllCovered'
  <2>1. ASSUME TypeOK, AllCovered, Next
        PROVE  TypeOK' /\ AllCovered'
    BY <2>1, StepCovers DEF Next, AllCovered
  <2>2. ASSUME TypeOK, AllCovered, UNCHANGED vars
        PROVE  TypeOK' /\ AllCovered'
    BY <2>2 DEF vars, TypeOK, AllCovered, Covered
  <2>3. QED
    BY <2>1, <2>2
<1>3. QED
  BY <1>1, <1>2, PTL DEF Spec
=============================================================================
