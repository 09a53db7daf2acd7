---------------------------- MODULE MCPriceBooks ----------------------------
(* Instances of PriceBooks for TLC.                                         *)
EXTENDS PriceBooks, TLC

CONSTANTS north, south, p1, p2

\* One release in both processes, or the old container and its successor
\* side by side while the release hands over.
OneRelease  == p1 :> 2 @@ p2 :> 2
Handover    == p1 :> 1 @@ p2 :> 2

\* Both have rules newer than the book's.
TwoReleases == p1 :> 2 @@ p2 :> 3

=============================================================================
