-------------------------- MODULE MCWaterReceipts --------------------------
(***************************************************************************)
(* Small databases on which TLC checks WaterReceipts.                      *)
(***************************************************************************)
EXTENDS WaterReceiptClaims, TLC

CONSTANTS a1, a2, r1, r2, s1, s2, f1, f2, q1, q2, m1, m2, p1, p2

\* All receivables on one shipment.
OneShipment == [f \in Fees |-> s1]

\* Ids of one kind are interchangeable.
Symmetric == Permutations({r1, r2}) \cup Permutations({q1, q2}) \cup Permutations({m1, m2})
=============================================================================
