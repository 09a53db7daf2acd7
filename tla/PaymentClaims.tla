--------------------------- MODULE PaymentClaims ---------------------------
(***************************************************************************)
(* What payment applications promise: a debt that waits to be paid is in   *)
(* at most one application; what an application pays is settled when it is *)
(* made; only a waiting one is paid or withdrawn, only a paid one is       *)
(* taken back, and a withdrawn one gives its debts free for good.          *)
(***************************************************************************)
CONSTANTS
    Debts,         \* the rows that wait to be paid
    Applications

VARIABLES
    state,    \* of each application
    members   \* the debts each application pays

vars == <<state, members>>

TypeOK ==
    /\ state \in [Applications -> {"ABSENT", "WAITING_PAYMENT", "PAID", "CANCELED"}]
    /\ members \in [Applications -> SUBSET Debts]

Init ==
    /\ state = [a \in Applications |-> "ABSENT"]
    /\ members = [a \in Applications |-> {}]

Claimed == UNION {members[a] : a \in Applications}

Make(a) ==
    /\ state[a] = "ABSENT"
    /\ state' = [state EXCEPT ![a] = "WAITING_PAYMENT"]
    /\ \E D \in SUBSET (Debts \ Claimed) :
          /\ D # {}
          /\ members' = [members EXCEPT ![a] = D]

Pay(a) ==
    /\ state[a] = "WAITING_PAYMENT"
    /\ state' = [state EXCEPT ![a] = "PAID"]
    /\ UNCHANGED members

TakeBack(a) ==
    /\ state[a] = "PAID"
    /\ state' = [state EXCEPT ![a] = "WAITING_PAYMENT"]
    /\ UNCHANGED members

Withdraw(a) ==
    /\ state[a] = "WAITING_PAYMENT"
    /\ state' = [state EXCEPT ![a] = "CANCELED"]
    /\ members' = [members EXCEPT ![a] = {}]

Next ==
    \E a \in Applications : Make(a) \/ Pay(a) \/ TakeBack(a) \/ Withdraw(a)

Spec == Init /\ [][Next]_vars

\* No debt is in two applications.
Exclusive ==
    \A a, b \in Applications : a # b => members[a] \cap members[b] = {}
=============================================================================
