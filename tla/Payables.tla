------------------------------ MODULE Payables ------------------------------
(***************************************************************************)
(* What one shipment owes its agents, from the entry of a payable to its   *)
(* payment (apps/api/src/modules/prisma.repository.ts).  The audit of a    *)
(* payable exposes a row to be paid; rows are put into an application,     *)
(* which is paid or withdrawn.  A payable with the settlement method 挂账   *)
(* ("early") has its row as soon as it is entered.                         *)
(*                                                                         *)
(* An action is one committed transaction.  A call whose checks or writes  *)
(* lie outside its transaction has a record in call between its steps.     *)
(* Whether the shipment's data are confirmed and its transfer number is    *)
(* known is decided elsewhere and may change at any moment: a call that    *)
(* asks for it is one that may be refused.                                 *)
(***************************************************************************)
EXTENDS Integers, FiniteSets, FiniteSetsExt

CONSTANTS
    Payables,      \* ids of the shipment's PAYABLE finance items
    MayBeEarly,    \* those that are ever entered with the method 挂账
    Applications,  \* ids of payment applications
    Amounts,
    Entered,       \* audit states that a general fee edit may write
    MaxVouchers,   \* bound on the bill vouchers of a row or an application
    Calls,         \* calls that may be between two of their steps
    None

ASSUME ConstantsOK ==
    /\ MayBeEarly \subseteq Payables
    /\ Entered \subseteq {"PENDING", "CONFIRMED", "LOCKED"}
    /\ Amounts \subseteq Nat /\ Amounts # {}
    /\ MaxVouchers \in Nat \ {0}
    /\ None \notin Applications

VARIABLES
    payable,      \* ShipmentFinanceItem, by id
    pending,      \* PayablePaymentApplication, by the payable it is for
    application,  \* PaymentApplication.status
    item,         \* PaymentApplicationItem, by the row it is for
    vouchers,     \* how many bill vouchers a row or an application has
    settled,      \* the payables with a line in a finance profit settlement
    call

rows == <<pending, application, item, vouchers>>
vars == <<payable, rows, settled, call>>

Payable == [
    status   : {"ABSENT", "LIVE", "VOIDED"},
    amount   : Amounts,
    locked   : BOOLEAN,
    audit    : {"PENDING", "CONFIRMED", "LOCKED", "VOIDED"},
    reviewed : BOOLEAN]

\* applicationStatus is written together with status and says the same, READY
\* apart; bank says whether the row names a payee's bank account.
PendingRow == [
    status : {"ABSENT", "PENDING", "READY", "APPLIED", "PAID", "INVALIDATED"},
    amount : Amounts,
    bank   : BOOLEAN]

Item == [application : Applications \cup {None}, amount : Amounts]

Call == [
    at      : {"idle", "rows checked", "rows read", "row to write", "to delete"},
    rows    : SUBSET Payables,
    amounts : [Payables -> Amounts],
    voucher : BOOLEAN]

TypeOK ==
    /\ payable \in [Payables -> Payable]
    /\ pending \in [Payables -> PendingRow]
    /\ application \in [Applications -> {"ABSENT", "WAITING_PAYMENT", "PAID", "CANCELED"}]
    /\ item \in [Payables -> Item]
    /\ vouchers \in [Payables \cup Applications -> 0..MaxVouchers]
    /\ settled \in SUBSET Payables
    /\ call \in [Calls -> Call]

SomeAmount == CHOOSE n \in Amounts : TRUE
Idle == [at |-> "idle", rows |-> {}, amounts |-> [p \in Payables |-> SomeAmount], voucher |-> FALSE]
NoItem == [application |-> None, amount |-> SomeAmount]

Init ==
    /\ payable = [p \in Payables |-> [status |-> "ABSENT", amount |-> SomeAmount, locked |-> FALSE, audit |-> "PENDING", reviewed |-> FALSE]]
    /\ pending = [p \in Payables |-> [status |-> "ABSENT", amount |-> SomeAmount, bank |-> FALSE]]
    /\ application = [a \in Applications |-> "ABSENT"]
    /\ item = [p \in Payables |-> NoItem]
    /\ vouchers = [x \in Payables \cup Applications |-> 0]
    /\ settled = {}
    /\ call = [c \in Calls |-> Idle]

Live(p) == payable[p].status = "LIVE"
HasRow(p) == pending[p].status # "ABSENT"
InApplication(p) == item[p].application # None
ItemsOf(a) == {p \in Payables : item[p].application = a}

\* The bill vouchers that reach a payable: its row's and its application's.
HasBill(p) ==
    \/ vouchers[p] > 0
    \/ InApplication(p) /\ vouchers[item[p].application] > 0

\* ensurePayableAuditEditable
Editable(p) == Live(p) /\ ~payable[p].locked /\ payable[p].audit \notin {"CONFIRMED", "LOCKED"}

\* The transaction-wide advisory lock of the payment calls is free.
LockFree == \A c \in Calls : call[c].at # "rows read"

\* upsertPayablePaymentApplication: the row is made, or made again, whatever it was.
Upsert(p, n) ==
    pending' = [pending EXCEPT ![p].status = "PENDING", ![p].amount = n]

NewPayable(n, s) ==
    [status |-> "LIVE", amount |-> n, locked |-> FALSE, audit |-> s, reviewed |-> FALSE]

-----------------------------------------------------------------------------
(* Payables, as the finance department enters and audits them.             *)

\* Mutant: every payable has its row at once.
CreatePayableAuditAsEarly(p, n, e) ==
    /\ payable[p].status = "ABSENT"
    /\ payable' = [payable EXCEPT ![p] = NewPayable(n, "PENDING")]
    /\ Upsert(p, n)
    /\ UNCHANGED <<application, item, vouchers, settled, call>>

CreatePayableAudit(p, n, e) ==
    /\ payable[p].status = "ABSENT"
    /\ payable' = [payable EXCEPT ![p] = NewPayable(n, "PENDING")]
    /\ IF e THEN Upsert(p, n) ELSE UNCHANGED pending
    /\ UNCHANGED <<application, item, vouchers, settled, call>>

UpdatePayableAudit(p, n, e) ==
    /\ Editable(p)
    /\ payable' = [payable EXCEPT ![p].amount = n]
    /\ IF e THEN Upsert(p, n) ELSE UNCHANGED pending
    /\ UNCHANGED <<application, item, vouchers, settled, call>>

AuditPayable(p) ==
    /\ Live(p) /\ payable[p].audit = "PENDING"
    /\ payable' = [payable EXCEPT ![p].locked = TRUE, ![p].audit = "CONFIRMED", ![p].reviewed = TRUE]
    /\ Upsert(p, payable[p].amount)
    /\ UNCHANGED <<application, item, vouchers, settled, call>>

\* Mutants: applications are not looked at; settlements are not.
ReverseAuditPayableInApplication(p) ==
    /\ LockFree
    /\ payable[p].status # "ABSENT" /\ payable[p].audit = "CONFIRMED"
    /\ ~HasBill(p)
    /\ p \notin settled
    /\ payable' = [payable EXCEPT ![p].locked = FALSE, ![p].audit = "PENDING", ![p].reviewed = FALSE]
    /\ pending' = [pending EXCEPT ![p].status = IF HasRow(p) THEN "INVALIDATED" ELSE @]
    /\ UNCHANGED <<application, item, vouchers, settled, call>>

ReverseAuditPayableSettled(p) ==
    /\ LockFree
    /\ payable[p].status # "ABSENT" /\ payable[p].audit = "CONFIRMED"
    /\ InApplication(p) => application[item[p].application] \notin {"WAITING_PAYMENT", "PAID"}
    /\ pending[p].status \notin {"PAID", "APPLIED"}
    /\ ~HasBill(p)
    /\ payable' = [payable EXCEPT ![p].locked = FALSE, ![p].audit = "PENDING", ![p].reviewed = FALSE]
    /\ pending' = [pending EXCEPT ![p].status = IF HasRow(p) THEN "INVALIDATED" ELSE @]
    /\ UNCHANGED <<application, item, vouchers, settled, call>>

ReverseAuditPayable(p) ==
    /\ LockFree
    /\ payable[p].status # "ABSENT" /\ payable[p].audit = "CONFIRMED"
    /\ InApplication(p) => application[item[p].application] \notin {"WAITING_PAYMENT", "PAID"}
    /\ pending[p].status \notin {"PAID", "APPLIED"}
    /\ ~HasBill(p)
    /\ p \notin settled
    /\ payable' = [payable EXCEPT ![p].locked = FALSE, ![p].audit = "PENDING", ![p].reviewed = FALSE]
    /\ pending' = [pending EXCEPT ![p].status = IF HasRow(p) THEN "INVALIDATED" ELSE @]
    /\ UNCHANGED <<application, item, vouchers, settled, call>>

\* deletePayableAudit looks first and deletes afterwards; the foreign keys of
\* the row and of its item refuse a delete that would leave them behind.
CheckDelete(c, p) ==
    /\ call[c].at = "idle"
    /\ Editable(p) /\ ~HasRow(p)
    /\ call' = [call EXCEPT ![c] = [Idle EXCEPT !.at = "to delete", !.rows = {p}]]
    /\ UNCHANGED <<payable, rows, settled>>

Absent(p) == [payable EXCEPT ![p] = [NewPayable(SomeAmount, "PENDING") EXCEPT !.status = "ABSENT"]]

DeletePayableAudit(c, p) ==
    /\ call[c].at = "to delete" /\ call[c].rows = {p}
    /\ payable' = IF HasRow(p) THEN payable ELSE Absent(p)
    /\ call' = [call EXCEPT ![c] = Idle]
    /\ UNCHANGED <<rows, settled>>

-----------------------------------------------------------------------------
(* Payables, as everybody else enters them with the shipment's fees.       *)

\* The row of an early payable is written after the commit, outside any
\* transaction, from the payable as it was saved.
RowLater(c, p, n, e) ==
    IF e THEN /\ call[c].at = "idle"
              /\ call' = [call EXCEPT ![c] = [Idle EXCEPT !.at = "row to write", !.rows = {p}, !.amounts[p] = n]]
         ELSE UNCHANGED call

CreateShipmentFinanceItem(c, p, n, e, s) ==
    /\ payable[p].status = "ABSENT"
    /\ s \in Entered
    /\ payable' = [payable EXCEPT ![p] = NewPayable(n, s)]
    /\ RowLater(c, p, n, e)
    /\ UNCHANGED <<rows, settled>>

UpdateShipmentFinanceItem(c, p, n, e, s) ==
    /\ Live(p) /\ ~payable[p].locked
    /\ s \in Entered \cup {payable[p].audit}
    /\ payable' = [payable EXCEPT ![p].amount = n, ![p].audit = s]
    /\ RowLater(c, p, n, e)
    /\ UNCHANGED <<rows, settled>>

\* A payable deleted meanwhile fails the foreign key of its row.
WriteRowLater(c, p) ==
    /\ call[c].at = "row to write" /\ call[c].rows = {p}
    /\ IF payable[p].status = "ABSENT" THEN UNCHANGED pending ELSE Upsert(p, call[c].amounts[p])
    /\ call' = [call EXCEPT ![c] = Idle]
    /\ UNCHANGED <<payable, application, item, vouchers, settled>>

DeleteShipmentFinanceItem(p) ==
    /\ Live(p) /\ ~payable[p].locked
    /\ ~HasRow(p) /\ ~InApplication(p) /\ ~HasBill(p)
    /\ payable' = Absent(p)
    /\ UNCHANGED <<rows, settled, call>>

LockShipmentFinanceItem(p) ==
    /\ Live(p) /\ ~payable[p].reviewed
    /\ ~payable[p].locked /\ payable[p].audit = "PENDING"
    /\ payable' = [payable EXCEPT ![p].locked = TRUE, ![p].audit = "LOCKED"]
    /\ UNCHANGED <<rows, settled, call>>

UnlockShipmentFinanceItem(p) ==
    /\ Live(p) /\ ~payable[p].reviewed
    /\ payable[p].locked /\ payable[p].audit = "LOCKED"
    /\ payable' = [payable EXCEPT ![p].locked = FALSE, ![p].audit = "PENDING"]
    /\ UNCHANGED <<rows, settled, call>>

\* Mutant: a row that waits does not keep its payable from being changed.
UpdateServiceDataWithRow(S, n) ==
    /\ S # {}
    /\ \A p \in S : Live(p) /\ ~InApplication(p)
    /\ payable' = [p \in Payables |-> IF p \in S THEN [payable[p] EXCEPT !.amount = n] ELSE payable[p]]
    /\ UNCHANGED <<rows, settled, call>>

\* updateCustomerServiceFinanceItem, updateShipmentAgentData and their kin: the
\* look for a voucher names a field that PaymentVoucher does not have and
\* fails, so that no payable with a row is changed.  Audited or locked payables
\* are refused only once the shipment has a transfer number.
UpdateServiceData(S, n) ==
    /\ S # {}
    /\ \A p \in S : Live(p) /\ ~HasRow(p) /\ ~InApplication(p)
    /\ payable' = [p \in Payables |-> IF p \in S THEN [payable[p] EXCEPT !.amount = n] ELSE payable[p]]
    /\ UNCHANGED <<rows, settled, call>>

\* An order entered again voids what is not audited or locked and enters the
\* payables of the new form.
ReenterOrder(New, n) ==
    /\ \A p \in New : payable[p].status = "ABSENT"
    /\ payable' = [p \in Payables |->
          IF p \in New THEN NewPayable(n, "PENDING")
          ELSE IF Editable(p) THEN [payable[p] EXCEPT !.status = "VOIDED", !.audit = "VOIDED"]
          ELSE payable[p]]
    /\ UNCHANGED <<rows, settled, call>>

LivePayables == {p \in Payables : Live(p)}

\* Another agent: payables that no payment has touched are rewritten, or, when
\* one of them is audited or locked, voided and entered anew.
ReplaceShipmentAgent(New, n) ==
    /\ \A p \in LivePayables : ~HasRow(p) /\ ~InApplication(p) /\ p \notin settled
    /\ IF \E p \in LivePayables : payable[p].locked \/ payable[p].audit \in {"CONFIRMED", "LOCKED"}
       THEN /\ Cardinality(New) = Cardinality(LivePayables)
            /\ \A p \in New : payable[p].status = "ABSENT"
            /\ payable' = [p \in Payables |->
                  IF p \in New THEN NewPayable(n, "PENDING")
                  ELSE IF Live(p) THEN [payable[p] EXCEPT !.status = "VOIDED"] ELSE payable[p]]
       ELSE /\ New = {} /\ LivePayables # {}
            /\ payable' = [p \in Payables |->
                  IF Live(p) THEN [payable[p] EXCEPT !.amount = n] ELSE payable[p]]
    /\ UNCHANGED <<rows, settled, call>>

-----------------------------------------------------------------------------
(* Bill vouchers.                                                          *)

\* The caller has seen a row that waits; by now it may be in any state.
AddRowVoucher(p) ==
    /\ HasRow(p) /\ vouchers[p] < MaxVouchers
    /\ vouchers' = [vouchers EXCEPT ![p] = @ + 1]
    /\ pending' = IF pending[p].bank /\ pending[p].status = "PENDING"
                  THEN [pending EXCEPT ![p].status = "READY"] ELSE pending
    /\ UNCHANGED <<payable, application, item, settled, call>>

\* The caller has seen an application that waits.
AddApplicationVoucher(a) ==
    /\ application[a] # "ABSENT" /\ vouchers[a] < MaxVouchers
    /\ vouchers' = [vouchers EXCEPT ![a] = @ + 1]
    /\ UNCHANGED <<payable, pending, application, item, settled, call>>

\* toPendingPaymentSummary
SummaryStatus(p) ==
    IF InApplication(p) /\ application[item[p].application] = "WAITING_PAYMENT"
    THEN "APPLIED" ELSE pending[p].status

\* Mutant: the voucher is not looked for again.
DeleteRowVoucherTwice(p) ==
    /\ HasRow(p)
    /\ SummaryStatus(p) \notin {"PAID", "INVALIDATED", "APPLIED"}
    /\ vouchers' = [vouchers EXCEPT ![p] = @ - 1]
    /\ UNCHANGED <<payable, pending, application, item, settled, call>>

DeleteRowVoucher(p) ==
    /\ HasRow(p) /\ vouchers[p] > 0
    /\ SummaryStatus(p) \notin {"PAID", "INVALIDATED"}
    /\ SummaryStatus(p) = "APPLIED" => vouchers[p] > 1
    /\ vouchers' = [vouchers EXCEPT ![p] = @ - 1]
    /\ pending' = IF SummaryStatus(p) = "READY" /\ vouchers[p] <= 1
                  THEN [pending EXCEPT ![p].status = "PENDING"] ELSE pending
    /\ UNCHANGED <<payable, application, item, settled, call>>

-----------------------------------------------------------------------------
(* Payment applications.                                                   *)

\* createPaymentApplications looks at the rows and counts their vouchers, all
\* together, before it takes the advisory lock.
CheckRows(c, S, v) ==
    /\ call[c].at = "idle"
    /\ S # {}
    /\ \A p \in S : SummaryStatus(p) \in {"PENDING", "READY"}
    /\ v \/ SumFunctionOnSet(vouchers, S) >= Cardinality(S)
    /\ call' = [call EXCEPT ![c] = [Idle EXCEPT !.at = "rows checked", !.rows = S, !.voucher = v]]
    /\ UNCHANGED <<payable, rows, settled>>

\* Mutant: the rows are taken as they were checked.
ReadRowsUnlooked(c) ==
    /\ call[c].at = "rows checked"
    /\ LockFree
    /\ call' = [call EXCEPT ![c].at = "rows read",
                            ![c].amounts = [p \in Payables |-> IF p \in call[c].rows THEN pending[p].amount ELSE SomeAmount]]
    /\ UNCHANGED <<payable, rows, settled>>

\* Under the lock it reads them again, amounts included.
ReadRows(c) ==
    /\ call[c].at = "rows checked"
    /\ LockFree
    /\ call' = [call EXCEPT ![c] =
          IF \A p \in @.rows : pending[p].status \in {"PENDING", "READY"} /\ ~InApplication(p)
          THEN [@ EXCEPT !.at = "rows read",
                         !.amounts = [p \in Payables |-> IF p \in call[c].rows THEN pending[p].amount ELSE SomeAmount]]
          ELSE Idle]
    /\ UNCHANGED <<payable, rows, settled>>

\* The application and its items, and the rows where they are still unclaimed.
ApplyRows(c, a) ==
    /\ call[c].at = "rows read"
    /\ application[a] = "ABSENT"
    /\ \A p \in call[c].rows : pending[p].status \in {"PENDING", "READY"}
    /\ application' = [application EXCEPT ![a] = "WAITING_PAYMENT"]
    /\ vouchers' = [vouchers EXCEPT ![a] = IF call[c].voucher THEN 1 ELSE 0]
    /\ item' = [p \in Payables |->
          IF p \in call[c].rows THEN [application |-> a, amount |-> call[c].amounts[p]] ELSE item[p]]
    /\ pending' = [p \in Payables |->
          IF p \in call[c].rows THEN [pending[p] EXCEPT !.status = "APPLIED", !.bank = TRUE] ELSE pending[p]]
    /\ call' = [call EXCEPT ![c] = Idle]
    /\ UNCHANGED <<payable, settled>>

\* A call that is refused, fails or is lost before its next step.
Abandon(c) ==
    /\ call[c].at # "idle"
    /\ call' = [call EXCEPT ![c] = Idle]
    /\ UNCHANGED <<payable, rows, settled>>

CancelPaymentApplication(a) ==
    /\ LockFree
    /\ application[a] = "WAITING_PAYMENT"
    /\ \A p \in ItemsOf(a) : pending[p].status = "APPLIED"
    /\ application' = [application EXCEPT ![a] = "CANCELED"]
    /\ pending' = [p \in Payables |->
          IF p \in ItemsOf(a) THEN [pending[p] EXCEPT !.status = "READY"] ELSE pending[p]]
    /\ item' = [p \in Payables |-> IF p \in ItemsOf(a) THEN NoItem ELSE item[p]]
    /\ UNCHANGED <<payable, vouchers, settled, call>>

ConfirmPaid(a) ==
    /\ LockFree
    /\ application[a] = "WAITING_PAYMENT"
    /\ \A p \in ItemsOf(a) : pending[p].status = "APPLIED"
    /\ application' = [application EXCEPT ![a] = "PAID"]
    /\ pending' = [p \in Payables |->
          IF p \in ItemsOf(a) THEN [pending[p] EXCEPT !.status = "PAID"] ELSE pending[p]]
    /\ payable' = [p \in Payables |->
          IF p \in ItemsOf(a) THEN [payable[p] EXCEPT !.locked = TRUE] ELSE payable[p]]
    /\ UNCHANGED <<item, vouchers, settled, call>>

\* Mutant: the rows stay paid.
ReversePaidOnly(a) ==
    /\ application[a] = "PAID"
    /\ application' = [application EXCEPT ![a] = "WAITING_PAYMENT"]
    /\ UNCHANGED <<payable, pending, item, vouchers, settled, call>>

\* No advisory lock, and no look at the rows.
ReversePaid(a) ==
    /\ application[a] = "PAID"
    /\ application' = [application EXCEPT ![a] = "WAITING_PAYMENT"]
    /\ pending' = [p \in Payables |->
          IF p \in ItemsOf(a) THEN [pending[p] EXCEPT !.status = "APPLIED"] ELSE pending[p]]
    /\ UNCHANGED <<payable, item, vouchers, settled, call>>

-----------------------------------------------------------------------------
(* Finance profit settlements, under the same lock.                        *)

SettleProfit(S) ==
    /\ LockFree
    /\ S # {} /\ S \cap settled = {}
    /\ \A p \in S : Live(p) /\ payable[p].audit = "CONFIRMED" /\ payable[p].reviewed
    /\ settled' = settled \cup S
    /\ UNCHANGED <<payable, rows, call>>

ReleaseProfit(S) ==
    /\ S # {} /\ S \subseteq settled
    /\ settled' = settled \ S
    /\ UNCHANGED <<payable, rows, call>>

-----------------------------------------------------------------------------
Early(p) == IF p \in MayBeEarly THEN BOOLEAN ELSE {FALSE}

EnterPayables ==
    \/ \E p \in Payables, n \in Amounts : \E e \in Early(p) :
          \/ CreatePayableAudit(p, n, e) \/ UpdatePayableAudit(p, n, e)
          \/ \E c \in Calls, s \in Entered \cup {payable[p].audit} :
                \/ CreateShipmentFinanceItem(c, p, n, e, s)
                \/ UpdateShipmentFinanceItem(c, p, n, e, s)
    \/ \E New \in SUBSET Payables, n \in Amounts :
          \/ ReenterOrder(New, n) \/ ReplaceShipmentAgent(New, n) \/ UpdateServiceData(New, n)
    \/ \E p \in Payables :
          \/ DeleteShipmentFinanceItem(p)
          \/ LockShipmentFinanceItem(p) \/ UnlockShipmentFinanceItem(p)
          \/ \E c \in Calls : CheckDelete(c, p) \/ DeletePayableAudit(c, p) \/ WriteRowLater(c, p)

AuditPayables == \E p \in Payables : AuditPayable(p) \/ ReverseAuditPayable(p)

Vouch ==
    \/ \E p \in Payables : AddRowVoucher(p) \/ DeleteRowVoucher(p)
    \/ \E a \in Applications : AddApplicationVoucher(a)

Apply ==
    \E c \in Calls :
        \/ \E S \in SUBSET Payables, v \in BOOLEAN : CheckRows(c, S, v)
        \/ ReadRows(c)
        \/ \E a \in Applications : ApplyRows(c, a)
        \/ Abandon(c)

Pay == \E a \in Applications : CancelPaymentApplication(a) \/ ConfirmPaid(a) \/ ReversePaid(a)

Settle == \E S \in SUBSET Payables : SettleProfit(S) \/ ReleaseProfit(S)

Next == EnterPayables \/ AuditPayables \/ Vouch \/ Apply \/ Pay \/ Settle

Spec == Init /\ [][Next]_vars
-----------------------------------------------------------------------------
(* Correctness properties.                                                 *)

\* The payables that wait for their audit before anyone may pay them.
Ordinary == Payables \ MayBeEarly

\* A row that says it is applied for is in an application that waits, one that
\* says it is paid is in an application that is paid, and a withdrawn
\* application keeps no row: what the pending list, the waiting list and the
\* paid list show is one state, whatever reset or late write hits the rows.
RowsFollowApplications ==
    \A p \in Payables :
        /\ pending[p].status = "APPLIED" => InApplication(p) /\ application[item[p].application] = "WAITING_PAYMENT"
        /\ pending[p].status = "PAID" => InApplication(p) /\ application[item[p].application] = "PAID"
        /\ InApplication(p) => application[item[p].application] \in {"WAITING_PAYMENT", "PAID"}

\* While an ordinary payable is in an application, nobody takes back its audit,
\* voids, unlocks or reprices it: the row says where the application is, and
\* what is paid is what was audited.  An application of such payables can
\* therefore always be paid or withdrawn.
AppliedAsAudited ==
    \A p \in Ordinary : InApplication(p) =>
        /\ pending[p].status = (IF application[item[p].application] = "PAID" THEN "PAID" ELSE "APPLIED")
        /\ item[p].amount = pending[p].amount /\ item[p].amount = payable[p].amount
        /\ Live(p) /\ payable[p].audit = "CONFIRMED" /\ payable[p].locked

\* An ordinary payable can be paid just while its audit stands, at the audited
\* amount, through every entry, edit, reversal and replacement of agents.
OrdinaryExposedWhenAudited ==
    \A p \in Ordinary :
        /\ pending[p].status \notin {"ABSENT", "INVALIDATED"} <=> payable[p].reviewed
        /\ payable[p].reviewed => /\ Live(p) /\ payable[p].audit = "CONFIRMED" /\ payable[p].locked
                                  /\ pending[p].amount = payable[p].amount

\* What a profit settlement has counted stays audited.
SettledStayAudited ==
    \A p \in settled : Live(p) /\ payable[p].audit = "CONFIRMED" /\ payable[p].reviewed

\* ... at the amount that was counted.
SettledKeepAmount ==
    [][\A p \in settled \cap settled' : payable'[p].amount = payable[p].amount]_vars

\* Payment applications keep the promise of PaymentClaims.
Claims == INSTANCE PaymentClaims WITH
    Debts   <- Payables,
    state   <- application,
    members <- [a \in Applications |-> ItemsOf(a)]

KeepsClaims == Claims!Spec
=============================================================================
