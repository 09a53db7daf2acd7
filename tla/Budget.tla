------------------------------- MODULE Budget -------------------------------
(***************************************************************************)
(* What the water-receipt component promises, of a receipt and of a        *)
(* receivable alike: an item has a total, part of which pending            *)
(* allocations reserve and part of which approved allocations have posted. *)
(* Money reaches the posted part only out of the reserved part, what a     *)
(* reversal takes back is reserved again at once, and the total is fixed   *)
(* while anything is reserved or posted.                                   *)
(***************************************************************************)
EXTENDS Integers

CONSTANT Items

VARIABLES total, reserved, posted

vars == <<total, reserved, posted>>

TypeOK ==
    /\ total \in [Items -> Nat]
    /\ reserved \in [Items -> Nat]
    /\ posted \in [Items -> Nat]

Covered(i) == reserved[i] + posted[i] <= total[i]

Init == TypeOK /\ \A i \in Items : Covered(i)

\* A pending allocation is submitted, changed, deleted or rejected.
Reserve(i) ==
    /\ total'[i] = total[i]
    /\ posted'[i] = posted[i]
    /\ reserved'[i] + posted'[i] <= total'[i]

\* An approval posts what was reserved; a reversal reserves what was posted.
Transfer(i) ==
    /\ total'[i] = total[i]
    /\ reserved'[i] + posted'[i] = reserved[i] + posted[i]

\* A posting of the release before match review is taken back for good.
Withdraw(i) ==
    /\ total'[i] = total[i]
    /\ reserved'[i] = reserved[i]
    /\ posted'[i] < posted[i]

\* The item is created, or its amount is edited.
Resize(i) ==
    /\ reserved[i] = 0 /\ posted[i] = 0
    /\ posted'[i] = 0
    /\ reserved'[i] <= total'[i]

Step(i) ==
    Reserve(i) \/ Transfer(i) \/ Withdraw(i) \/ Resize(i)

Next == TypeOK' /\ \A i \in Items : Step(i)

Spec == Init /\ [][Next]_vars
=============================================================================
