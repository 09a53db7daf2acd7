---------------------------- MODULE MCPayables ----------------------------
(***************************************************************************)
(* A shipment small enough for TLC to check Payables on.  TLC does not go  *)
(* on from a state that is not Small: what meets what in a state is        *)
(* bounded there.                                                          *)
(***************************************************************************)
EXTENDS Payables, TLC

CONSTANTS p1, p2, a1, a2, c1, c2

OneAmount ==
    \A p \in Payables : payable[p].amount = SomeAmount /\ pending[p].amount = SomeAmount

\* No row has come without an audit, and none is about to.
NoneEarly ==
    /\ \A p \in Payables : pending[p].status \in {"ABSENT", "INVALIDATED"} \/ payable[p].reviewed
    /\ \A c \in Calls : call[c].at # "row to write"

\* No fee edit has written the audit itself.
AuditedAsReviewed ==
    \A p \in Payables : payable[p].audit = "CONFIRMED" => payable[p].reviewed

OneCall == \A c, d \in Calls : c = d \/ call[c] = Idle \/ call[d] = Idle

NoRowVoucher == \A p \in Payables : vouchers[p] = 0

\* With vouchers on applications alone, two amounts meet one call without early
\* rows, and one amount meets everything: early rows, two calls and settlements.
\* Vouchers on rows meet one call at one amount, without early rows.
Small ==
    \/ NoRowVoucher /\ OneCall /\ NoneEarly
    \/ NoRowVoucher /\ OneAmount
    \/ OneAmount /\ AuditedAsReviewed /\ OneCall /\ NoneEarly

\* Applications are interchangeable, and so are calls.
Symmetric == Permutations({a1, a2}) \cup Permutations({c1, c2})
=============================================================================
