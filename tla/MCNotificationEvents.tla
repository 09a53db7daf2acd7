------------------------ MODULE MCNotificationEvents ------------------------
(***************************************************************************)
(* Small instances on which TLC checks NotificationEvents.                 *)
(***************************************************************************)
EXTENDS NotificationEvents, TLC

CONSTANTS w1, w2

\* Processes are interchangeable where no liveness property is checked.
Symmetric == Permutations({w1, w2})
=============================================================================
