--------------------------- MODULE WaterReceipts ---------------------------
(***************************************************************************)
(* Water receipts, receivables and the allocations between them            *)
(* (apps/api/src/modules/prisma.repository.ts), one action per committed   *)
(* transaction.  A call whose checks run outside the transaction that      *)
(* writes is two actions, with the call in inFlight between them.          *)
(*                                                                         *)
(* A receivable is a ReceivableFee (SYSTEM) or a ShipmentFinanceItem of    *)
(* type RECEIVABLE (MANUAL) of a shipment.  An account stands for one      *)
(* customer: all money is in one currency.  Amounts are whole cents.       *)
(***************************************************************************)
EXTENDS Totals

CONSTANTS
    Accounts,      \* customers, each with the account it may open
    Receipts,      \* ids of water receipts
    Shipments,     \* ids of shipments
    Fees,          \* ids of receivables
    SystemFees,    \* the receivables kept in ReceivableFee
    Requests,      \* ids of match requests
    Matches,       \* ids of posted matches
    Payments,      \* ids of customer payments
    ShipmentOf,    \* the shipment each receivable belongs to
    Amounts,       \* the amounts that users enter, positive
    None,          \* a nullable column that is not set
    Legacy,        \* the matches the release before match review may have posted
    MaxInFlight    \* bound on the unguarded calls under way at once

ASSUME ConstantsOK ==
    /\ SystemFees \subseteq Fees
    /\ ShipmentOf \in [Fees -> Shipments]
    /\ Amounts \subseteq Nat \ {0}
    /\ None \notin Accounts \cup Receipts \cup Fees \cup Matches
    /\ IsFiniteSet(Receipts) /\ IsFiniteSet(Requests) /\ IsFiniteSet(Matches)
    /\ IsFiniteSet(Fees) /\ IsFiniteSet(Payments)
    /\ Legacy \subseteq Matches
    /\ MaxInFlight \in Nat

VARIABLES
    receipt,    \* WaterReceipt rows
    ledger,     \* the AccountLedger row of an arrived receipt, with what
                \* the row that voids the receipt takes back
    account,    \* CustomerAccount rows
    customer,   \* Shipment.customerId, as the account it is charged to
    fee,        \* ReceivableFee and ShipmentFinanceItem rows
    request,    \* WaterReceiptMatchRequest rows
    match,      \* WaterReceiptMatch rows
    payment,    \* Payment rows, each with its Settlement rows
    inFlight    \* calls between their checks and their write

vars == <<receipt, ledger, account, customer, fee, request, match, payment, inFlight>>

-----------------------------------------------------------------------------
(* Rows.                                                                   *)

ReceiptRow == [
    status  : {"ABSENT", "PENDING", "ARRIVED", "PARTIAL_MATCHED", "ARCHIVED", "VOIDED"},
    account : Accounts \cup {None},
    amount  : Nat,
    matched : Int,
    balance : Int]

LedgerRow == [account : Accounts \cup {None}, amount : Nat, balance : Int, reversal : Nat]

AccountRow == [open : BOOLEAN, balance : Int]

FeeRow == [
    status        : {"ABSENT", "LIVE", "VOIDED", "DELETED"},
    amount        : Nat,
    received      : Int,
    receiptStatus : {"UNPAID", "PARTIAL", "RECEIVED"},
    audit         : {"PENDING", "CONFIRMED", "LOCKED"}]

RequestRow == [
    status  : {"ABSENT", "PENDING", "APPROVED", "REJECTED", "CANCELLED"},
    receipt : Receipts \cup {None},
    fee     : Fees \cup {None},
    amount  : Nat,
    match   : Matches \cup {None}]

MatchRow == [
    status  : {"ABSENT", "LIVE", "VOIDED"},
    receipt : Receipts \cup {None},
    fee     : Fees \cup {None},
    amount  : Nat]

PaymentRow == [
    account : Accounts \cup {None},
    amount  : Nat,
    settled : Nat,
    fees    : SUBSET Fees]

Call == [op : {"delete", "reverse audit"}, fee : Fees]

\* The contents of a row nobody has created yet.
NoReceipt == [status |-> "ABSENT", account |-> None, amount |-> 0, matched |-> 0, balance |-> 0]
NoLedger  == [account |-> None, amount |-> 0, balance |-> 0, reversal |-> 0]
LedgerOf(row) == [account |-> row.account, amount |-> row.amount,
                  balance |-> row.balance, reversal |-> 0]
NoFee     == [status |-> "ABSENT", amount |-> 0, received |-> 0,
              receiptStatus |-> "UNPAID", audit |-> "PENDING"]
NoRequest == [status |-> "ABSENT", receipt |-> None, fee |-> None, amount |-> 0, match |-> None]
NoMatch   == [status |-> "ABSENT", receipt |-> None, fee |-> None, amount |-> 0]
NoPayment == [account |-> None, amount |-> 0, settled |-> 0, fees |-> {}]
NewFee(a) == [NoFee EXCEPT !.status = "LIVE", !.amount = a]

-----------------------------------------------------------------------------
(* Queries.                                                                *)

Arrived(r)   == receipt[r].status \in {"ARRIVED", "PARTIAL_MATCHED", "ARCHIVED"}
Matchable(r) == receipt[r].status \in {"ARRIVED", "PARTIAL_MATCHED"}
Live(f)      == fee[f].status = "LIVE"

RequestAmount == [q \in Requests |-> request[q].amount]
MatchAmount   == [m \in Matches |-> match[m].amount]
FeeAmount     == [f \in Fees |-> fee[f].amount]

PendingOn(r)  == {q \in Requests : request[q].status = "PENDING" /\ request[q].receipt = r}
PendingFor(f) == {q \in Requests : request[q].status = "PENDING" /\ request[q].fee = f}
MatchedOn(r)  == {m \in Matches : match[m].status = "LIVE" /\ match[m].receipt = r}
MatchedFor(f) == {m \in Matches : match[m].status = "LIVE" /\ match[m].fee = f}

Reserved(r)    == Total(RequestAmount, PendingOn(r))
ReservedFor(f) == Total(RequestAmount, PendingFor(f))
Unpaid(f)      == fee[f].amount - fee[f].received

\* Mutants of the two checks below: the pending requests are forgotten.
FitsReceiptIgnoringPending(r, a, others) == a <= receipt[r].balance
FitsFeeIgnoringPending(f, a, others)     == a <= Unpaid(f)

\* Amount a fits into what receipt r has left, and into what receivable f has
\* left, besides the pending requests others.
FitsReceipt(r, a, others) == a + Total(RequestAmount, others) <= receipt[r].balance
FitsFee(f, a, others)     == a + Total(RequestAmount, others) <= Unpaid(f)

\* Mutant: a request does not keep its receivable's row alive.
ReferencedByMatch(f) ==
    \E m \in Matches : match[m].status # "ABSENT" /\ match[m].fee = f

\* Rows that hold a foreign key to receivable f.
Referenced(f) ==
    \/ \E q \in Requests : request[q].status # "ABSENT" /\ request[q].fee = f
    \/ \E m \in Matches : match[m].status # "ABSENT" /\ match[m].fee = f

\* The receiptStatus that goes with an amount received.
ReceiptStatus(received, amount) ==
    IF received <= 0 THEN "UNPAID"
    ELSE IF received >= amount THEN "RECEIVED" ELSE "PARTIAL"

\* A customer payment has settled receivable f: ReceivableFee.settled.
Settled(f) == \E p \in Payments : f \in payment[p].fees

AtLeastZero(n) == IF n < 0 THEN 0 ELSE n

-----------------------------------------------------------------------------
(* Receipts.                                                               *)

\* createWaterReceipt: the customer may be left open.
CreateReceipt(r, c, a) ==
    /\ receipt[r].status = "ABSENT"
    /\ receipt' = [receipt EXCEPT ![r] = [NoReceipt EXCEPT
           !.status = "PENDING", !.account = c, !.amount = a, !.balance = a]]
    /\ UNCHANGED <<ledger, account, customer, fee, request, match, payment, inFlight>>

\* updateWaterReceipt before arrival; a customer once given is only replaced.
UpdatePendingReceipt(r, c, a) ==
    /\ receipt[r].status = "PENDING"
    /\ c \in Accounts \/ c = receipt[r].account
    /\ a >= receipt[r].matched + Reserved(r)
    /\ receipt' = [receipt EXCEPT ![r].account = c, ![r].amount = a,
                                  ![r].balance = a - receipt[r].matched]
    /\ UNCHANGED <<ledger, account, customer, fee, request, match, payment, inFlight>>

\* markWaterReceiptArrived: the account is credited, and opened if need be.
MarkArrived(r) ==
    LET row == receipt[r] IN
    /\ row.status = "PENDING"
    /\ row.account # None
    /\ receipt' = [receipt EXCEPT ![r].status = "ARRIVED"]
    /\ ledger' = [ledger EXCEPT ![r] = LedgerOf(row)]
    /\ account' = [account EXCEPT ![row.account] =
                      [open |-> TRUE, balance |-> @.balance + row.amount]]
    /\ UNCHANGED <<customer, fee, request, match, payment, inFlight>>

\* Mutant: the old account keeps the balance.
CopiedBalance(row, c, balance) ==
    [account EXCEPT ![c] = [open |-> TRUE, balance |-> @.balance + balance]]

\* The accounts after the balance of an arrived receipt moves from the
\* account it was credited to, to account c.
MovedBalance(row, c, balance) ==
    IF c = row.account
    THEN [account EXCEPT ![c].balance = @ + balance - row.balance]
    ELSE [account EXCEPT ![row.account].balance = @ - row.balance,
                         ![c] = [open |-> TRUE, balance |-> @.balance + balance]]

\* updateWaterReceipt after arrival: only while nothing is allocated.
UpdateArrivedReceipt(r, c, a) ==
    LET row     == receipt[r]
        balance == a - row.matched
        moved   == MovedBalance(row, c, balance)
    IN
    /\ Arrived(r)
    /\ MatchedOn(r) = {} /\ row.matched <= 0 /\ Reserved(r) = 0
    /\ c # row.account \/ a # row.amount
    /\ account[row.account].open
    /\ moved[row.account].balance >= 0
    /\ account' = moved
    /\ receipt' = [receipt EXCEPT ![r].account = c, ![r].amount = a, ![r].balance = balance,
           ![r].status = IF balance <= 0 THEN "ARCHIVED"
                         ELSE IF row.matched > 0 THEN "PARTIAL_MATCHED" ELSE "ARRIVED"]
    /\ ledger' = [ledger EXCEPT ![r] = LedgerOf(receipt'[r])]
    /\ UNCHANGED <<customer, fee, request, match, payment, inFlight>>

ArchiveReceipt(r) ==
    /\ receipt[r].status # "ABSENT"
    /\ receipt[r].balance <= 0
    /\ receipt' = [receipt EXCEPT ![r].status = "ARCHIVED"]
    /\ UNCHANGED <<ledger, account, customer, fee, request, match, payment, inFlight>>

\* Mutant: an arrived receipt is voided like one that is still pending.
VoidReceiptUncredited(r) ==
    /\ receipt[r].status \in {"PENDING", "ARRIVED"}
    /\ receipt[r].matched <= 0 /\ PendingOn(r) = {}
    /\ receipt' = [receipt EXCEPT ![r].status = "VOIDED"]
    /\ UNCHANGED <<ledger, account, customer, fee, request, match, payment, inFlight>>

VoidPendingReceipt(r) ==
    /\ receipt[r].status = "PENDING"
    /\ receipt[r].matched <= 0 /\ PendingOn(r) = {}
    /\ receipt' = [receipt EXCEPT ![r].status = "VOIDED"]
    /\ UNCHANGED <<ledger, account, customer, fee, request, match, payment, inFlight>>

\* voidWaterReceipt after arrival takes the whole amount back.
VoidArrivedReceipt(r) ==
    LET row == receipt[r] IN
    /\ row.status = "ARRIVED"
    /\ row.matched <= 0 /\ PendingOn(r) = {}
    /\ account[row.account].open
    /\ account[row.account].balance >= row.amount
    /\ account' = [account EXCEPT ![row.account].balance = @ - row.amount]
    /\ ledger' = [ledger EXCEPT ![r].reversal = row.amount]
    /\ receipt' = [receipt EXCEPT ![r].status = "VOIDED"]
    /\ UNCHANGED <<customer, fee, request, match, payment, inFlight>>

-----------------------------------------------------------------------------
(* Allocations: requests to match, their review and the posted matches.    *)

Allocation == [receipt : Receipts, fee : Fees, amount : Amounts]

AbsentRequests == {q \in Requests : request[q].status = "ABSENT"}

\* The amounts, and the part charged to receipt r, of new requests.
AmountsOf(alloc)      == [q \in DOMAIN alloc |-> alloc[q].amount]
ChargedTo(alloc, r)   == {q \in DOMAIN alloc : alloc[q].receipt = r}

\* Each receipt of the new requests may be matched and covers them on top of
\* what it has reserved; no receivable has two of them.
ReceiptsCover(alloc) ==
    /\ \A r \in Receipts : ChargedTo(alloc, r) # {} =>
           /\ Matchable(r)
           /\ FitsReceipt(r, Total(AmountsOf(alloc), ChargedTo(alloc, r)), PendingOn(r))
    /\ \A p, q \in DOMAIN alloc : alloc[p].fee = alloc[q].fee => p = q

WithRequests(alloc) ==
    [q \in Requests |-> IF q \in DOMAIN alloc
                        THEN [status |-> "PENDING", receipt |-> alloc[q].receipt,
                              fee |-> alloc[q].fee, amount |-> alloc[q].amount, match |-> None]
                        ELSE request[q]]

\* createWaterReceiptMatchRequests: one request per selected receivable.
Submit(r, alloc) ==
    /\ DOMAIN alloc # {}
    /\ ChargedTo(alloc, r) = DOMAIN alloc
    /\ ReceiptsCover(alloc)
    /\ \A q \in DOMAIN alloc : LET f == alloc[q].fee IN
           /\ Live(f)
           /\ customer[ShipmentOf[f]] = receipt[r].account
           /\ PendingFor(f) \cap PendingOn(r) = {}
           /\ FitsFee(f, alloc[q].amount, PendingFor(f))
    /\ request' = WithRequests(alloc)
    /\ UNCHANGED <<receipt, ledger, account, customer, fee, match, payment, inFlight>>

\* updateReceivableMatchRequest
UpdateRequest(q, a) ==
    LET r == request[q].receipt
        f == request[q].fee
    IN
    /\ request[q].status = "PENDING"
    /\ Matchable(r)
    /\ FitsFee(f, a, PendingFor(f) \ {q})
    /\ FitsReceipt(r, a, PendingOn(r) \ {q})
    /\ request' = [request EXCEPT ![q].amount = a]
    /\ UNCHANGED <<receipt, ledger, account, customer, fee, match, payment, inFlight>>

\* deleteReceivableMatchRequest, rejectReceivableMatchRequest
CloseRequest(q, status) ==
    /\ request[q].status = "PENDING"
    /\ request' = [request EXCEPT ![q].status = status]
    /\ UNCHANGED <<receipt, ledger, account, customer, fee, match, payment, inFlight>>

\* Mutants: a status the schema does not have; no look at the current status.
DeleteRequestAsReversed(q) == CloseRequest(q, "REVERSED")
DeleteAnyRequest(q) ==
    /\ request[q].status \notin {"ABSENT", "APPROVED"}
    /\ request' = [request EXCEPT ![q].status = "CANCELLED"]
    /\ UNCHANGED <<receipt, ledger, account, customer, fee, match, payment, inFlight>>

DeleteRequest(q) == CloseRequest(q, "CANCELLED")
RejectRequest(q) == CloseRequest(q, "REJECTED")

\* Rows after amount a has been posted against them.
PostedReceipt(row, a) ==
    LET balance == row.amount - (row.matched + a) IN
    [row EXCEPT !.matched = @ + a, !.balance = balance,
                !.status = IF balance <= 0 THEN "ARCHIVED" ELSE "PARTIAL_MATCHED"]

\* Mutant: the amount received is overwritten.
OverwrittenFee(row, a) ==
    [row EXCEPT !.received = a,
                !.receiptStatus = IF a >= row.amount THEN "RECEIVED" ELSE "PARTIAL",
                !.audit = "CONFIRMED"]

PostedFee(row, a) ==
    [row EXCEPT !.received = @ + a,
                !.receiptStatus = IF row.received + a >= row.amount THEN "RECEIVED" ELSE "PARTIAL",
                !.audit = "CONFIRMED"]

\* Mutants: a receipt that was archived stays so; a receivable keeps the money.
UnpostedArchive(row, a) ==
    [row EXCEPT !.matched = AtLeastZero(@ - a),
                !.balance = row.amount - AtLeastZero(row.matched - a)]
UnpostedNothing(row, a) == row

\* Rows after amount a of their postings has been taken back.
UnpostedReceipt(row, a) ==
    LET matched == AtLeastZero(row.matched - a) IN
    [row EXCEPT !.matched = matched, !.balance = row.amount - matched,
                !.status = IF matched <= 0 THEN "ARRIVED" ELSE "PARTIAL_MATCHED"]

UnpostedFee(row, a) ==
    LET received == AtLeastZero(row.received - a) IN
    [row EXCEPT !.received = received, !.receiptStatus = ReceiptStatus(received, row.amount)]

\* An account that does not exist is left alone.
Adjusted(c, a) ==
    IF account[c].open THEN [account EXCEPT ![c].balance = @ + a] ELSE account

\* approveReceivableMatchRequest
ApproveRequest(q, m) ==
    LET r == request[q].receipt
        f == request[q].fee
        a == request[q].amount
    IN
    /\ request[q].status = "PENDING"
    /\ match[m].status = "ABSENT"
    /\ Matchable(r) /\ receipt[r].account # None
    /\ Live(f) /\ customer[ShipmentOf[f]] = receipt[r].account
    /\ a <= receipt[r].balance /\ a <= Unpaid(f)
    /\ match' = [match EXCEPT ![m] =
                    [status |-> "LIVE", receipt |-> r, fee |-> f, amount |-> a]]
    /\ fee' = [fee EXCEPT ![f] = PostedFee(@, a)]
    /\ request' = [request EXCEPT ![q].status = "APPROVED", ![q].match = m]
    /\ receipt' = [receipt EXCEPT ![r] = PostedReceipt(@, a)]
    /\ account' = Adjusted(receipt[r].account, -a)
    /\ ledger' = [ledger EXCEPT ![r].balance = PostedReceipt(receipt[r], a).balance]
    /\ UNCHANGED <<customer, payment, inFlight>>

\* unmatchWaterReceiptMatchesInTransaction: takes back the matches ms of
\* receipt r.  Each receivable is read once before the loop and written once
\* per match, so of several matches of one receivable the last one counts.
TakeBack(r, ms) ==
    LET total == Total(MatchAmount, ms) IN
    /\ receipt[r].account # None
    /\ ms # {} /\ ms \subseteq MatchedOn(r)
    /\ match' = [m \in Matches |-> IF m \in ms THEN [match[m] EXCEPT !.status = "VOIDED"]
                                               ELSE match[m]]
    /\ \E last \in [{match[m].fee : m \in ms} -> ms] :
          /\ \A f \in DOMAIN last : match[last[f]].fee = f
          /\ fee' = [f \in Fees |-> IF f \in DOMAIN last
                                    THEN UnpostedFee(fee[f], match[last[f]].amount)
                                    ELSE fee[f]]
    /\ receipt' = [receipt EXCEPT ![r] = UnpostedReceipt(@, total)]
    /\ account' = Adjusted(receipt[r].account, total)
    /\ ledger' = [ledger EXCEPT ![r].balance = UnpostedReceipt(receipt[r], total).balance]
    /\ UNCHANGED <<customer, payment, inFlight>>

\* reverseReceivableMatchRequest: the request is pending again.
ReverseRequest(q) ==
    /\ request[q].status = "APPROVED"
    /\ TakeBack(request[q].receipt, {request[q].match})
    /\ request' = [request EXCEPT ![q].status = "PENDING", ![q].match = None]

\* Mutant: matches of approved requests are taken back too.
UnmatchAny(r, ms) == TakeBack(r, ms) /\ UNCHANGED request

\* unmatchWaterReceipt: only matches that no approved request points to.
Unmatch(r, ms) ==
    /\ \A q \in Requests : request[q].status = "APPROVED" => request[q].match \notin ms
    /\ TakeBack(r, ms)
    /\ UNCHANGED request

-----------------------------------------------------------------------------
(* Receivables.                                                            *)

FeesOf(s) == {f \in Fees : ShipmentOf[f] = s}

\* An unaudited receivable: the guard of ensureReceivableAuditEditable.
Editable(f) == Live(f) /\ fee[f].audit = "PENDING"

\* No water receipt has touched the receivable: the guard on received money.
Untouched(f) == fee[f].received <= 0 /\ fee[f].receiptStatus = "UNPAID"

\* createReceivableAudit, addReceivableAdjustment.  Neither checks the amount; a
\* receivable of nothing, or less, can never be matched and is left out.
CreateFee(f, a) ==
    /\ fee[f].status = "ABSENT"
    /\ fee' = [fee EXCEPT ![f] = NewFee(a)]
    /\ UNCHANGED <<receipt, ledger, account, customer, request, match, payment, inFlight>>

\* Mutant: pending allocations are not looked at.
UpdateUnmatchedFee(f, a) ==
    /\ Editable(f) /\ MatchedFor(f) = {}
    /\ fee' = [fee EXCEPT ![f].amount = a]
    /\ UNCHANGED <<receipt, ledger, account, customer, request, match, payment, inFlight>>

\* updateReceivableAudit, updateShipmentFinanceItem
UpdateFee(f, a) ==
    /\ Editable(f)
    /\ PendingFor(f) = {} /\ MatchedFor(f) = {}
    /\ fee' = [fee EXCEPT ![f].amount = a]
    /\ UNCHANGED <<receipt, ledger, account, customer, request, match, payment, inFlight>>

\* auditReceivableAudit
AuditFee(f) ==
    /\ Editable(f)
    /\ PendingFor(f) = {}
    /\ fee' = [fee EXCEPT ![f].audit = "CONFIRMED"]
    /\ UNCHANGED <<receipt, ledger, account, customer, request, match, payment, inFlight>>

\* lockShipmentFinanceItem, unlockShipmentFinanceItem
LockFee(f) ==
    /\ f \notin SystemFees
    /\ Editable(f) /\ Untouched(f)
    /\ fee' = [fee EXCEPT ![f].audit = "LOCKED"]
    /\ UNCHANGED <<receipt, ledger, account, customer, request, match, payment, inFlight>>

UnlockFee(f) ==
    /\ f \notin SystemFees
    /\ Live(f) /\ fee[f].audit = "LOCKED" /\ Untouched(f)
    /\ fee' = [fee EXCEPT ![f].audit = "PENDING"]
    /\ UNCHANGED <<receipt, ledger, account, customer, request, match, payment, inFlight>>

\* A row that is deleted leaves nothing behind; its id is not used again.
Deleted == [NoFee EXCEPT !.status = "DELETED"]

\* deleteShipmentFinanceItem checks and deletes in one transaction.
DeleteFinanceItem(f) ==
    /\ f \notin SystemFees
    /\ Editable(f) /\ Untouched(f)
    /\ ~ Referenced(f)
    /\ fee' = [fee EXCEPT ![f] = Deleted]
    /\ UNCHANGED <<receipt, ledger, account, customer, request, match, payment, inFlight>>

\* deleteReceivableAudit: checks before the transaction that deletes.
DeleteFeeCheck(f) ==
    /\ Cardinality(inFlight) < MaxInFlight
    /\ Editable(f)
    /\ ~ \E q \in Requests : request[q].status # "ABSENT" /\ request[q].fee = f
    /\ MatchedFor(f) = {}
    /\ inFlight' = inFlight \cup {[op |-> "delete", fee |-> f]}
    /\ UNCHANGED <<receipt, ledger, account, customer, fee, request, match, payment>>

\* The foreign keys refuse the delete of a row that is referenced.
DeleteFeeWrite(f) ==
    /\ [op |-> "delete", fee |-> f] \in inFlight
    /\ fee[f].status \in {"LIVE", "VOIDED"}
    /\ ~ Referenced(f)
    /\ fee' = [fee EXCEPT ![f] = Deleted]
    /\ inFlight' = inFlight \ {[op |-> "delete", fee |-> f]}
    /\ UNCHANGED <<receipt, ledger, account, customer, request, match, payment>>

\* reverseAuditReceivableAudit reads without a row lock; the advisory lock
\* only keeps two such calls apart.
ReverseAuditCheck(f) ==
    /\ Cardinality(inFlight) < MaxInFlight
    /\ \A c \in inFlight : c.op # "reverse audit"
    /\ Live(f) /\ fee[f].audit = "CONFIRMED"
    /\ PendingFor(f) = {} /\ MatchedFor(f) = {} /\ Untouched(f)
    /\ inFlight' = inFlight \cup {[op |-> "reverse audit", fee |-> f]}
    /\ UNCHANGED <<receipt, ledger, account, customer, fee, request, match, payment>>

\* The update is conditional on the audit status alone.
ReverseAuditWrite(f) ==
    /\ [op |-> "reverse audit", fee |-> f] \in inFlight
    /\ Live(f) /\ fee[f].audit = "CONFIRMED"
    /\ fee' = [fee EXCEPT ![f].audit = "PENDING"]
    /\ inFlight' = inFlight \ {[op |-> "reverse audit", fee |-> f]}
    /\ UNCHANGED <<receipt, ledger, account, customer, request, match, payment>>

\* A call ends without its write: the process stops, the client goes away,
\* or the database refuses the write.
AbandonCall(c) ==
    /\ inFlight' = inFlight \ {c}
    /\ UNCHANGED <<receipt, ledger, account, customer, fee, request, match, payment>>

\* createPayment opens the account before its checks: a payment that is refused
\* leaves it open.
OpenAccount(p, c) ==
    /\ payment[p].account = None
    /\ ~ account[c].open
    /\ account' = [account EXCEPT ![c].open = TRUE]
    /\ UNCHANGED <<receipt, ledger, customer, fee, request, match, payment, inFlight>>

\* createPayment: the money goes to the customer's account, and the amounts of
\* the receivables F that it settles come off again.
CreatePayment(p, c, F, a) ==
    LET settled == Total(FeeAmount, F) IN
    /\ payment[p].account = None /\ account[c].open
    /\ \A f \in F :
           /\ customer[ShipmentOf[f]] = c
           /\ IF f \in SystemFees
              THEN fee[f].status \in {"LIVE", "VOIDED"} /\ ~ Settled(f)
              ELSE Editable(f)
    /\ settled <= a
    /\ payment' = [payment EXCEPT ![p] =
                      [account |-> c, amount |-> a, settled |-> settled, fees |-> F]]
    /\ account' = [account EXCEPT ![c].balance = @ + (a - settled)]
    /\ fee' = [f \in Fees |-> IF f \in F \ SystemFees
                              THEN [fee[f] EXCEPT !.audit = "CONFIRMED"] ELSE fee[f]]
    /\ UNCHANGED <<receipt, ledger, customer, request, match, inFlight>>

\* generateShipmentFees: the SYSTEM receivables of the shipment that are not
\* settled are deleted and those of the new quote are created.
RegenerateFees(s, new) ==
    LET old == {f \in FeesOf(s) \cap SystemFees :
                   fee[f].status \in {"LIVE", "VOIDED"} /\ ~ Settled(f)}
    IN
    /\ \A f \in old : ~ Referenced(f)
    /\ \A f \in DOMAIN new : f \in FeesOf(s) \cap SystemFees /\ fee[f].status = "ABSENT"
    /\ fee' = [f \in Fees |-> IF f \in old THEN Deleted
                              ELSE IF f \in DOMAIN new THEN NewFee(new[f])
                              ELSE fee[f]]
    /\ UNCHANGED <<receipt, ledger, account, customer, request, match, payment, inFlight>>

\* createOrderEntry and updateOrderEntryDraftInternal on a shipment under
\* review: the customer is set, the open manual receivables are replaced by
\* the new ones, and each new one may be allocated to a receipt at once.
OrderEntry(s, c, new, alloc) ==
    LET replaced == {f \in FeesOf(s) \ SystemFees : Editable(f)} IN
    /\ \A f \in DOMAIN new : f \in FeesOf(s) \ SystemFees /\ fee[f].status = "ABSENT"
    /\ \A q \in DOMAIN alloc :
           /\ alloc[q].fee \in DOMAIN new
           /\ alloc[q].amount <= new[alloc[q].fee]
           /\ receipt[alloc[q].receipt].account = c
    /\ ReceiptsCover(alloc)
    /\ customer' = [customer EXCEPT ![s] = c]
    /\ fee' = [f \in Fees |-> IF f \in replaced THEN [fee[f] EXCEPT !.status = "VOIDED"]
                              ELSE IF f \in DOMAIN new THEN NewFee(new[f])
                              ELSE fee[f]]
    /\ request' = WithRequests(alloc)
    /\ UNCHANGED <<receipt, ledger, account, match, payment, inFlight>>

\* updateShipmentReviewBasic: the customer of a shipment under review.
ReassignShipment(s, c) ==
    /\ c # customer[s]
    /\ customer' = [customer EXCEPT ![s] = c]
    /\ UNCHANGED <<receipt, ledger, account, fee, request, match, payment, inFlight>>

\* deleteOrderEntryDraft: the shipment goes with all its receivables, unless a
\* match or a request refers to it.
DeleteShipment(s) ==
    /\ \A f \in FeesOf(s) : ~ Referenced(f)
    /\ fee' = [f \in Fees |-> IF f \in FeesOf(s) THEN Deleted ELSE fee[f]]
    /\ UNCHANGED <<receipt, ledger, account, customer, request, match, payment, inFlight>>

-----------------------------------------------------------------------------
(* The database: empty, or as the release before match review left it.     *)
(* That release posted matches directly, without requests, and did not     *)
(* touch the audit status of the receivable.                               *)

Posted(posting) == [m \in DOMAIN posting |-> posting[m].amount]
PostedOn(posting, r)  == {m \in DOMAIN posting : posting[m].receipt = r}
PostedFor(posting, f) == {m \in DOMAIN posting : posting[m].fee = f}

\* The state with the matches of posting, where paid and due are the amounts
\* of the receipts and receivables they join, and owner the receipts' accounts.
Migrated(posting, paid, due, owner) ==
    LET matched(r)  == Total(Posted(posting), PostedOn(posting, r))
        received(f) == Total(Posted(posting), PostedFor(posting, f))
        posted      == {posting[m].receipt : m \in DOMAIN posting}
        charged     == {posting[m].fee : m \in DOMAIN posting}
        Of(c)       == {r \in posted : owner[r] = c}
    IN
    /\ \A r \in posted  : matched(r) <= paid[r]
    /\ \A f \in charged : received(f) <= due[f]
    /\ \A m \in DOMAIN posting : customer[ShipmentOf[posting[m].fee]] = owner[posting[m].receipt]
    /\ receipt = [r \in Receipts |->
           IF r \in posted
           THEN PostedReceipt([NoReceipt EXCEPT !.account = owner[r], !.amount = paid[r]], matched(r))
           ELSE NoReceipt]
    /\ ledger = [r \in Receipts |->
           IF r \in posted THEN LedgerOf(receipt[r]) ELSE NoLedger]
    /\ account = [c \in Accounts |->
           [open |-> Of(c) # {},
            balance |-> Total([r \in Receipts |-> receipt[r].balance], Of(c))]]
    /\ fee = [f \in Fees |->
           IF f \in charged
           THEN [PostedFee(NewFee(due[f]), received(f)) EXCEPT !.audit = "PENDING"]
           ELSE NoFee]
    /\ match = [m \in Matches |->
           IF m \in DOMAIN posting
           THEN [status |-> "LIVE", receipt |-> posting[m].receipt,
                 fee |-> posting[m].fee, amount |-> posting[m].amount]
           ELSE NoMatch]
    /\ request = [q \in Requests |-> NoRequest]
    /\ payment = [p \in Payments |-> NoPayment]
    /\ inFlight = {}

Init ==
    /\ customer \in [Shipments -> Accounts]
    /\ \E L \in SUBSET Legacy :
       \E posting \in [L -> Allocation], paid \in [Receipts -> Amounts],
          due \in [Fees -> Amounts], owner \in [Receipts -> Accounts] :
          Migrated(posting, paid, due, owner)

-----------------------------------------------------------------------------
(* Next-state relation, by the page of the web application it is run from. *)

ReceiptStep ==
    \/ \E r \in Receipts, c \in Accounts \cup {None}, a \in Amounts :
          CreateReceipt(r, c, a) \/ UpdatePendingReceipt(r, c, a)
    \/ \E r \in Receipts, c \in Accounts, a \in Amounts : UpdateArrivedReceipt(r, c, a)
    \/ \E r \in Receipts :
          MarkArrived(r) \/ ArchiveReceipt(r) \/ VoidPendingReceipt(r) \/ VoidArrivedReceipt(r)

MatchStep ==
    \/ \E Q \in SUBSET AbsentRequests, r \in Receipts :
          \E alloc \in [Q -> {x \in Allocation : x.receipt = r}] : Submit(r, alloc)
    \/ \E q \in Requests, a \in Amounts : UpdateRequest(q, a)
    \/ \E q \in Requests : DeleteRequest(q) \/ RejectRequest(q) \/ ReverseRequest(q)
    \/ \E q \in Requests, m \in Matches : ApproveRequest(q, m)
    \/ \E r \in Receipts : \E ms \in SUBSET MatchedOn(r) : Unmatch(r, ms)

FeeStep ==
    \/ \E f \in Fees, a \in Amounts : CreateFee(f, a) \/ UpdateFee(f, a)
    \/ \E f \in Fees :
          \/ AuditFee(f) \/ LockFee(f) \/ UnlockFee(f) \/ DeleteFinanceItem(f)
          \/ DeleteFeeCheck(f) \/ DeleteFeeWrite(f)
          \/ ReverseAuditCheck(f) \/ ReverseAuditWrite(f)
    \/ \E c \in inFlight : AbandonCall(c)
    \/ \E p \in Payments, c \in Accounts :
          \/ OpenAccount(p, c)
          \/ \E F \in SUBSET Fees, a \in Amounts : CreatePayment(p, c, F, a)

ShipmentStep ==
    \/ \E s \in Shipments, F \in SUBSET SystemFees :
          \E new \in [F -> Amounts] : RegenerateFees(s, new)
    \/ \E s \in Shipments, c \in Accounts,
         F \in SUBSET {f \in Fees \ SystemFees : fee[f].status = "ABSENT"} :
          \E new \in [F -> Amounts], Q \in SUBSET AbsentRequests :
          \E alloc \in [Q -> {x \in Allocation : x.fee \in F}] : OrderEntry(s, c, new, alloc)
    \/ \E s \in Shipments, c \in Accounts : ReassignShipment(s, c)
    \/ \E s \in Shipments : DeleteShipment(s)

Next == ReceiptStep \/ MatchStep \/ FeeStep \/ ShipmentStep

Spec == Init /\ [][Next]_vars

-----------------------------------------------------------------------------
(* Invariants.                                                             *)

\* Every row has its columns in the domain the schema gives them.
TypeOK ==
    /\ receipt \in [Receipts -> ReceiptRow]
    /\ ledger \in [Receipts -> LedgerRow]
    /\ account \in [Accounts -> AccountRow]
    /\ customer \in [Shipments -> Accounts]
    /\ fee \in [Fees -> FeeRow]
    /\ request \in [Requests -> RequestRow]
    /\ match \in [Matches -> MatchRow]
    /\ payment \in [Payments -> PaymentRow]
    /\ inFlight \subseteq Call

\* The pending allocations of a receipt, from submission, order entry and
\* reversal alike, never reserve more than the balance that is left on it.
ReceiptCapacity == \A r \in Receipts : Reserved(r) <= receipt[r].balance

\* What a receivable has received and what is reserved for it, by however
\* many receipts, never exceed its amount.
FeeCapacity == \A f \in Fees : fee[f].received + ReservedFor(f) <= fee[f].amount

\* A receipt's matched amount is the sum of its live matches, its balance is
\* the rest, and its status says which of them is nil.
ReceiptBooks == \A r \in Receipts :
    LET row == receipt[r] IN
    /\ row.matched = Total(MatchAmount, MatchedOn(r))
    /\ row.balance = row.amount - row.matched
    /\ row.status = "ARCHIVED" => row.balance = 0
    /\ row.status = "PARTIAL_MATCHED" => row.matched > 0 /\ row.balance > 0
    /\ row.status \in {"PENDING", "ARRIVED", "VOIDED"} => row.matched = 0

\* A receivable's received amount is the sum of its live matches over all
\* receipts, and its receipt status agrees with that amount.
FeeBooks == \A f \in Fees :
    LET row == fee[f] IN
    /\ row.received = Total(MatchAmount, MatchedFor(f))
    /\ row.receiptStatus = ReceiptStatus(row.received, row.amount)

\* The balance of a customer's account is the sum of the balances of the
\* receipts that have arrived for the customer and are not voided, and of what
\* the customer's payments left over: no operation credits or debits the
\* account twice, or forgets to, and the conflicts that void and update report
\* of a missing or short account cannot arise.
AccountConservation == \A c \in Accounts :
    LET arrived == {r \in Receipts : Arrived(r) /\ receipt[r].account = c}
        paid    == {p \in Payments : payment[p].account = c}
    IN
    /\ account[c].balance =
          Total([r \in Receipts |-> receipt[r].balance], arrived)
            + Total([p \in Payments |-> payment[p].amount - payment[p].settled], paid)
    /\ arrived # {} => account[c].open

\* The ledger row of an arrived receipt shows the receipt's customer, amount
\* and balance; once the receipt is voided its reversal cancels the amount.
LedgerFollowsReceipt == \A r \in Receipts :
    LET row == receipt[r] IN
    /\ Arrived(r) => ledger[r] = [account |-> row.account, amount |-> row.amount,
                                  balance |-> row.balance, reversal |-> 0]
    /\ row.status = "VOIDED" => ledger[r].reversal = ledger[r].amount
    /\ row.status \in {"ABSENT", "PENDING"} => ledger[r] = NoLedger

\* A pending allocation can be approved as long as its receivable stands for
\* the same customer: its receipt is open for matching and what it reserves is
\* still there on both sides.
PendingCanBeApproved == \A q \in Requests : request[q].status = "PENDING" =>
    LET r == request[q].receipt
        f == request[q].fee
    IN
    /\ Matchable(r) /\ receipt[r].account # None
    /\ request[q].amount <= receipt[r].balance
    /\ request[q].amount <= Unpaid(f)

\* An approved request has a live match of its own with the same receipt,
\* receivable and amount; every other live match is a legacy one.
ApprovedHasOneMatch ==
    /\ \A q \in Requests : request[q].status = "APPROVED" =>
          /\ request[q].match # None
          /\ LET m == match[request[q].match] IN
             /\ m.status = "LIVE"
             /\ m.receipt = request[q].receipt
             /\ m.fee = request[q].fee /\ m.amount = request[q].amount
    /\ \A m \in Matches \ Legacy : match[m].status = "LIVE" =>
          Cardinality({q \in Requests : request[q].status = "APPROVED" /\ request[q].match = m}) = 1

\* A request or match that still counts points to a receipt that has arrived,
\* is not voided, and to a receivable whose row exists.
OpenAllocationsHaveRows ==
    /\ \A q \in Requests : request[q].status \in {"PENDING", "APPROVED"} =>
          /\ Arrived(request[q].receipt)
          /\ fee[request[q].fee].status \in {"LIVE", "VOIDED"}
    /\ \A m \in Matches : match[m].status = "LIVE" =>
          /\ Arrived(match[m].receipt)
          /\ fee[match[m].fee].status \in {"LIVE", "VOIDED"}

-----------------------------------------------------------------------------
(* Action properties.                                                      *)

\* A reversal reserves what it takes back at once: neither the receipt nor the
\* receivable has more left for other allocations after it than before.
ReversalReservesCapacity ==
    [][\A q \in Requests :
          request[q].status = "APPROVED" /\ request'[q].status = "PENDING" =>
             LET r == request[q].receipt
                 f == request[q].fee
             IN
             /\ receipt'[r].balance - Reserved(r)' = receipt[r].balance - Reserved(r)
             /\ Unpaid(f)' - ReservedFor(f)' = Unpaid(f) - ReservedFor(f)]_vars

\* While a receivable has a pending allocation or a live match its amount does
\* not change and its row is not deleted, whoever asks and however late.
OpenAllocationFreezesFee ==
    [][\A f \in Fees : PendingFor(f) \cup MatchedFor(f) # {} =>
          /\ fee'[f].amount = fee[f].amount
          /\ fee'[f].status # "DELETED"]_vars

\* A voided receipt, a voided match and a request that was rejected or deleted
\* are history: no later call changes them.
ClosedRowsStayClosed ==
    [][/\ \A r \in Receipts : receipt[r].status = "VOIDED" => receipt'[r] = receipt[r]
       /\ \A m \in Matches : match[m].status = "VOIDED" => match'[m] = match[m]
       /\ \A q \in Requests : request[q].status \in {"REJECTED", "CANCELLED"} =>
             request'[q] = request[q]]_vars

-----------------------------------------------------------------------------
(* Refinement.                                                             *)

\* Each receipt is a budget of its amount ...
ReceiptBudget == INSTANCE Budget WITH
    Items    <- Receipts,
    total    <- [r \in Receipts |-> receipt[r].amount],
    reserved <- [r \in Receipts |-> Reserved(r)],
    posted   <- [r \in Receipts |-> receipt[r].matched]

\* ... and so is each receivable.
FeeBudget == INSTANCE Budget WITH
    Items    <- Fees,
    total    <- [f \in Fees |-> fee[f].amount],
    reserved <- [f \in Fees |-> ReservedFor(f)],
    posted   <- [f \in Fees |-> fee[f].received]

\* Every transaction keeps each receipt's amount split into what is posted,
\* reserved and free, and moves money between them one way at a time.
ReceiptsAreBudgets == ReceiptBudget!Spec

\* The same of each receivable, across all the receipts that pay for it.
FeesAreBudgets == FeeBudget!Spec
=============================================================================
