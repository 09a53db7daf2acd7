---------------------------- MODULE MCMiscFees ----------------------------
(***************************************************************************)
(* Fees few enough for TLC to check MiscFees on.                           *)
(***************************************************************************)
EXTENDS MiscFees, TLC

CONSTANTS f1, h1, h2, t1

\* Requests are interchangeable.
Symmetric == Permutations({h1, h2})
=============================================================================
