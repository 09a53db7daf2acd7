------------------------- MODULE WaterReceiptClaims -------------------------
(***************************************************************************)
(* What the repository says of receivables and their allocations and the   *)
(* code does not keep.  The run expects TLC to refute it; README.md tells  *)
(* what happens.                                                           *)
(***************************************************************************)
EXTENDS WaterReceipts

\* reverseAuditReceivableAudit tells the user that a receivable matched to a
\* water receipt must be unmatched before its audit is reversed: no call takes
\* a receivable with money received back to unaudited.
MatchedFeeStaysAudited ==
    [][\A f \in Fees :
          Live(f) /\ fee[f].audit = "CONFIRMED" /\ fee'[f].audit = "PENDING" =>
             fee[f].received <= 0]_vars
=============================================================================
