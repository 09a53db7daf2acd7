--------------------------- MODULE EventOutcomes ---------------------------
(***************************************************************************)
(* What the notification worker promises for each event, however many      *)
(* processes work on it: it is attempted a limited number of times; it is  *)
(* notified once at the most, and only after an attempt has begun; it is   *)
(* recorded as processed only if it is notified, and given up only when    *)
(* all its attempts are used; and a recorded outcome is final, except that *)
(* an administrator may have a dead letter attempted again.                *)
(***************************************************************************)
EXTENDS Naturals

CONSTANTS Events, MaxAttempts

VARIABLES
    state,     \* "new", "open" while it is attempted, or its outcome
    attempts,  \* since it was last reopened
    notices    \* of each event

vars == <<state, attempts, notices>>

Outcomes == {"PROCESSED", "SKIPPED", "NO_RECIPIENT", "DEAD_LETTER"}

Init ==
    /\ state = [e \in Events |-> "new"]
    /\ attempts = [e \in Events |-> 0]
    /\ notices = [e \in Events |-> 0]

Attempt(e) ==
    /\ state[e] \in {"new", "open"} /\ attempts[e] < MaxAttempts
    /\ state' = [state EXCEPT ![e] = "open"]
    /\ attempts' = [attempts EXCEPT ![e] = @ + 1]
    /\ UNCHANGED notices

\* By an attempt that may have been overtaken by another, even by its outcome.
Notify(e) ==
    /\ state[e] # "new" /\ notices[e] = 0
    /\ notices' = [notices EXCEPT ![e] = 1]
    /\ UNCHANGED <<state, attempts>>

Conclude(e, outcome) ==
    /\ state[e] = "open"
    /\ outcome = "PROCESSED" => notices[e] = 1
    /\ outcome = "DEAD_LETTER" => attempts[e] = MaxAttempts
    /\ state' = [state EXCEPT ![e] = outcome]
    /\ UNCHANGED <<attempts, notices>>

Reopen(e) ==
    /\ state[e] \in {"open", "DEAD_LETTER"}
    /\ state' = [state EXCEPT ![e] = "open"]
    /\ attempts' = [attempts EXCEPT ![e] = 0]
    /\ UNCHANGED notices

Next ==
    \E e \in Events :
        \/ Attempt(e) \/ Notify(e) \/ Reopen(e)
        \/ \E outcome \in Outcomes : Conclude(e, outcome)

Spec == Init /\ [][Next]_vars
=============================================================================
