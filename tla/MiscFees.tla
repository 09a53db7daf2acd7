------------------------------ MODULE MiscFees ------------------------------
(***************************************************************************)
(* Miscellaneous fees: pickups, deliveries, purchases, tally fees and the  *)
(* carrier's imported bills (apps/api/src/modules/prisma.repository.ts).   *)
(* A fee is registered, matched to a shipment, confirmed by sales, audited *)
(* by finance, and "hung" (挂账): a request that, once approved, makes the  *)
(* row from which it is to be paid.  Its two costs are copied into items   *)
(* of the shipment, which the order pages also write, and are counted in   *)
(* profit settlements.                                                     *)
(*                                                                         *)
(* An action is one committed transaction.  What a handler reads before    *)
(* its transaction it compares again in the update of the fee, by the      *)
(* fee's version; requests, rows, items and lines are written under one    *)
(* advisory lock or together with such an update.                          *)
(***************************************************************************)
EXTENDS Integers, FiniteSets

CONSTANTS
    Fees,         \* ids of miscellaneous fees
    Requests,     \* ids of hang requests
    Settlements,  \* ids of profit settlements
    Amounts,
    None

ASSUME ConstantsOK ==
    /\ Amounts \subseteq Nat /\ Amounts # {}
    /\ None \notin Settlements /\ None \notin Amounts \cup {0}
    /\ Fees # {}

VARIABLES
    fee,         \* MiscFeeRecord, by id
    item,        \* ShipmentFinanceItem of a fee, by the cost it stands for
    request,     \* MiscFeeHangRequest, by id
    row,         \* PayablePaymentApplication, by the fee it is for
    settlement,  \* ProfitSettlement, by id
    line         \* ProfitSettlementLine of a fee, by the settlement's type

vars == <<fee, item, request, row, settlement, line>>

\* PICKUP is WAREHOUSE_PICKUP and MARKET_PICKUP; DELIVERY is also the legacy
\* OTHER_PICKUP, which goes the same way.
Kinds == {"KUAYUE", "PICKUP", "TALLY_MISC", "PURCHASE", "DELIVERY"}
PayableFirst == {"PICKUP", "TALLY_MISC", "DELIVERY"}
Roles == {"BUSINESS_COST", "PAYABLE"}
SettlementTypes == {"FINANCE", "MARKET", "WAREHOUSE"}
Open == {"PENDING", "APPROVED"}

Fee == [
    state     : {"ABSENT", "LIVE", "VOIDED"},
    kind      : Kinds,
    matched   : BOOLEAN,
    confirmed : BOOLEAN,
    audited   : BOOLEAN,
    hang      : {"NONE", "PENDING", "APPROVED", "REJECTED", "WITHDRAWN"},
    archived  : BOOLEAN,
    business  : Amounts \cup {None},
    payable   : Amounts]

\* The type is the role the item was made for until an order page changes it.
Item == [status : {"ABSENT", "PENDING", "CONFIRMED", "VOIDED"}, type : Roles]

Request == [status : {"ABSENT", "PENDING", "APPROVED", "REJECTED", "WITHDRAWN"}, fee : Fees]

Row == [status : {"ABSENT", "READY", "INVALIDATED"}, amount : Amounts]

Settlement == [
    status : {"ABSENT", "DRAFT", "PENDING_AUDIT", "APPROVED", "ARCHIVED"},
    type   : SettlementTypes]

Line == [settlement : Settlements \cup {None}, business : Amounts \cup {0}, payable : Amounts \cup {0}]

TypeOK ==
    /\ fee \in [Fees -> Fee]
    /\ item \in [Fees -> [Roles -> Item]]
    /\ request \in [Requests -> Request]
    /\ row \in [Fees -> Row]
    /\ settlement \in [Settlements -> Settlement]
    /\ line \in [Fees -> [SettlementTypes -> Line]]

SomeAmount == CHOOSE n \in Amounts : TRUE
NoFee == [state |-> "ABSENT", kind |-> "DELIVERY", matched |-> FALSE, confirmed |-> FALSE, audited |-> FALSE,
          hang |-> "NONE", archived |-> FALSE, business |-> None, payable |-> SomeAmount]
NoLine == [settlement |-> None, business |-> 0, payable |-> 0]

Init ==
    /\ fee = [f \in Fees |-> NoFee]
    /\ item = [f \in Fees |-> [r \in Roles |-> [status |-> "ABSENT", type |-> r]]]
    /\ request = [h \in Requests |-> [status |-> "ABSENT", fee |-> CHOOSE f \in Fees : TRUE]]
    /\ row = [f \in Fees |-> [status |-> "ABSENT", amount |-> SomeAmount]]
    /\ settlement = [t \in Settlements |-> [status |-> "ABSENT", type |-> "FINANCE"]]
    /\ line = [f \in Fees |-> [k \in SettlementTypes |-> NoLine]]

Live(f) == fee[f].state = "LIVE"
OnOrder(f, r) == item[f][r].status \in {"PENDING", "CONFIRMED"}
OpenRequests(f) == {h \in Requests : request[h].fee = f /\ request[h].status \in Open}
HasLine(f) == \E k \in SettlementTypes : line[f][k].settlement # None

\* The costs that ensureMiscFeeOrderFinanceItems puts on the order of fee x.
\* Mutant: a business cost is put there before it is confirmed.
MaterializedEarly(x) ==
    {r \in Roles : /\ x.matched
                   /\ r = "BUSINESS_COST" => x.business # None
                   /\ r = "PAYABLE" => x.audited}

Materialized(x) ==
    {r \in Roles : /\ x.matched
                   /\ r = "BUSINESS_COST" => /\ x.confirmed /\ x.business # None
                                             /\ x.kind = "PICKUP" => x.audited
                   /\ r = "PAYABLE" => x.audited}

\* ensureMiscFeeOrderFinanceItems, for the fees F as the transaction leaves them.
\* An item that exists keeps its type, and comes back to life if voided.
EnsureItems(F) ==
    item' = [f \in Fees |-> [r \in Roles |->
        IF f \in F /\ r \in Materialized(fee'[f])
        THEN [status |-> "CONFIRMED", type |-> IF item[f][r].status = "ABSENT" THEN r ELSE item[f][r].type]
        ELSE item[f][r]]]

-----------------------------------------------------------------------------
(* Registration, matching, confirmation and audit.                         *)

CreateMiscFee(f, k, m, n, p) ==
    /\ fee[f].state = "ABSENT"
    /\ k \in {"PICKUP", "TALLY_MISC", "PURCHASE"} => ~m
    /\ k \in {"PICKUP", "DELIVERY"} => n = None
    /\ k \in {"TALLY_MISC", "PURCHASE"} => n # None
    /\ k = "PURCHASE" => p = n
    /\ fee' = [fee EXCEPT ![f] = [NoFee EXCEPT !.state = "LIVE", !.kind = k, !.matched = m, !.business = n, !.payable = p]]
    /\ UNCHANGED <<item, request, row, settlement, line>>

\* A line of the carrier's bill costs sales what it costs the company.
ClaimKuayueImportLine(f, m, p) ==
    /\ fee[f].state = "ABSENT"
    /\ fee' = [fee EXCEPT ![f] = [NoFee EXCEPT !.state = "LIVE", !.kind = "KUAYUE", !.matched = m, !.business = p, !.payable = p]]
    /\ UNCHANGED <<item, request, row, settlement, line>>

UpdateMiscFee(f, n, p) ==
    /\ Live(f) /\ ~fee[f].confirmed /\ ~fee[f].audited /\ fee[f].hang \notin Open
    /\ n = None => fee[f].business = None
    /\ fee[f].kind = "PURCHASE" => p = n
    /\ fee' = [fee EXCEPT ![f] = [@ EXCEPT !.business = n, !.payable = p]]
    /\ UNCHANGED <<item, request, row, settlement, line>>

\* Also matches again, to another shipment.
MatchMiscFee(f) ==
    /\ Live(f) /\ fee[f].kind \in {"KUAYUE", "PURCHASE", "DELIVERY"}
    /\ fee[f].kind = "KUAYUE" =>
         /\ ~fee[f].archived /\ ~fee[f].confirmed /\ ~fee[f].audited /\ fee[f].hang = "NONE"
         /\ row[f].status = "ABSENT"
         /\ \A h \in Requests : request[h].fee = f => request[h].status = "ABSENT"
    /\ fee' = [fee EXCEPT ![f].matched = TRUE]
    /\ EnsureItems({f})
    /\ UNCHANGED <<request, row, settlement, line>>

\* matchTallyMiscFeesToShipment, in the transaction of an order or a dispatch.
MatchTallyMiscFees(F) ==
    /\ \A f \in F : /\ Live(f) /\ fee[f].kind = "TALLY_MISC"
                    /\ ~fee[f].matched /\ ~fee[f].archived /\ fee[f].confirmed
    /\ fee' = [f \in Fees |-> IF f \in F THEN [fee[f] EXCEPT !.matched = TRUE] ELSE fee[f]]
    /\ EnsureItems(F)
    /\ UNCHANGED <<request, row, settlement, line>>

AssignMiscFeeBusinessCost(f, n) ==
    /\ Live(f) /\ fee[f].kind \in {"PICKUP", "DELIVERY"}
    /\ fee[f].hang # "PENDING" /\ ~fee[f].confirmed
    /\ fee' = [fee EXCEPT ![f] = [@ EXCEPT !.matched = TRUE, !.confirmed = TRUE, !.business = n]]
    /\ EnsureItems({f})
    /\ UNCHANGED <<request, row, settlement, line>>

ConfirmMiscFee(f) ==
    /\ Live(f) /\ ~fee[f].confirmed /\ fee[f].business # None
    /\ \/ fee[f].kind \in {"PURCHASE", "DELIVERY"}
       \/ fee[f].kind = "TALLY_MISC" /\ ~fee[f].matched
    /\ fee' = [fee EXCEPT ![f].confirmed = TRUE]
    /\ EnsureItems({f})
    /\ UNCHANGED <<request, row, settlement, line>>

AuditMiscFee(f) ==
    /\ Live(f) /\ ~fee[f].audited
    /\ fee[f].kind = "TALLY_MISC" => fee[f].confirmed /\ fee[f].matched
    /\ fee[f].kind = "PICKUP" =>
         fee[f].matched /\ fee[f].business # None /\ fee[f].confirmed /\ fee[f].hang # "PENDING"
    /\ fee[f].kind = "KUAYUE" => fee[f].hang # "PENDING"
    /\ fee' = [fee EXCEPT ![f] = [@ EXCEPT !.audited = TRUE, !.confirmed = fee[f].confirmed \/ fee[f].kind = "KUAYUE"]]
    /\ EnsureItems({f})
    /\ UNCHANGED <<request, row, settlement, line>>

DirectPayAndArchiveKuayueMiscFee(f) ==
    /\ Live(f) /\ fee[f].kind = "KUAYUE" /\ ~fee[f].archived
    /\ fee[f].confirmed /\ fee[f].audited
    /\ fee[f].hang = "NONE" /\ row[f].status = "ABSENT"
    /\ fee' = [fee EXCEPT ![f].archived = TRUE]
    /\ UNCHANGED <<item, request, row, settlement, line>>

\* Withdraws what is open of a fee's hang requests.
WithdrawOpen(f) ==
    request' = [h \in Requests |->
        IF h \in OpenRequests(f) THEN [request[h] EXCEPT !.status = "WITHDRAWN"] ELSE request[h]]

\* A pickup's two items are voided, another fee's wait for the next audit; the
\* business cost stays as it is unless the confirmation falls with the audit.
ReversedItems(f) ==
    LET falls == IF fee[f].kind \in {"KUAYUE", "PICKUP"} THEN Roles ELSE {"PAYABLE"}
    IN  [r \in Roles |->
           IF r \in falls /\ OnOrder(f, r)
           THEN [item[f][r] EXCEPT !.status = IF fee[f].kind = "PICKUP" THEN "VOIDED" ELSE "PENDING"]
           ELSE item[f][r]]

ReversedFee(f) ==
    [fee[f] EXCEPT !.audited = FALSE, !.hang = "NONE",
                   !.confirmed = @ /\ fee[f].kind \notin {"KUAYUE", "PICKUP"}]

\* Mutants: settlement lines are not looked at; the requests stay open.
ReverseAuditSettledMiscFee(f) ==
    /\ fee[f].state # "ABSENT" /\ ~fee[f].archived /\ fee[f].audited
    /\ fee' = [fee EXCEPT ![f] = ReversedFee(f)]
    /\ item' = [item EXCEPT ![f] = ReversedItems(f)]
    /\ row' = [row EXCEPT ![f].status = IF @ = "ABSENT" THEN @ ELSE "INVALIDATED"]
    /\ WithdrawOpen(f)
    /\ UNCHANGED <<settlement, line>>

ReverseAuditLeavingRequests(f) ==
    /\ fee[f].state # "ABSENT" /\ ~fee[f].archived /\ fee[f].audited
    /\ ~HasLine(f)
    /\ fee' = [fee EXCEPT ![f] = ReversedFee(f)]
    /\ item' = [item EXCEPT ![f] = ReversedItems(f)]
    /\ row' = [row EXCEPT ![f].status = IF @ = "ABSENT" THEN @ ELSE "INVALIDATED"]
    /\ UNCHANGED <<request, settlement, line>>

ReverseAuditMiscFee(f) ==
    /\ fee[f].state # "ABSENT" /\ ~fee[f].archived /\ fee[f].audited
    /\ ~HasLine(f)
    /\ fee' = [fee EXCEPT ![f] = ReversedFee(f)]
    /\ item' = [item EXCEPT ![f] = ReversedItems(f)]
    /\ row' = [row EXCEPT ![f].status = IF @ = "ABSENT" THEN @ ELSE "INVALIDATED"]
    /\ WithdrawOpen(f)
    /\ UNCHANGED <<settlement, line>>

VoidMiscFee(f) ==
    /\ Live(f)
    /\ fee[f].kind = "TALLY_MISC" => ~fee[f].matched /\ ~fee[f].confirmed /\ ~fee[f].audited
    /\ fee[f].kind = "PURCHASE" => ~fee[f].confirmed /\ ~fee[f].audited /\ fee[f].hang = "NONE"
    /\ fee[f].kind = "KUAYUE" => ~fee[f].audited
    /\ fee[f].hang \notin Open
    /\ row[f].status # "READY"
    /\ ~HasLine(f)
    /\ fee' = [fee EXCEPT ![f].state = "VOIDED"]
    /\ item' = [item EXCEPT ![f] = [r \in Roles |->
                  IF OnOrder(f, r) THEN [item[f][r] EXCEPT !.status = "VOIDED"] ELSE item[f][r]]]
    /\ UNCHANGED <<request, row, settlement, line>>

-----------------------------------------------------------------------------
(* Hanging.                                                                *)

\* What a tally fee must have behind it before it is hung, and still when it is approved.
TallyDone(f) ==
    fee[f].kind = "TALLY_MISC" => fee[f].confirmed /\ fee[f].matched /\ fee[f].audited

MayHang(f) == Live(f) /\ OpenRequests(f) = {} /\ fee[f].hang \in {"NONE", "REJECTED", "WITHDRAWN"}

NewRequest(h, f) == request' = [request EXCEPT ![h] = [status |-> "PENDING", fee |-> f]]

CreateMiscFeeHangRequest(f, h) ==
    /\ request[h].status = "ABSENT"
    /\ MayHang(f) /\ TallyDone(f)
    /\ fee[f].kind = "KUAYUE" => ~fee[f].archived
    /\ fee[f].kind = "PURCHASE" => fee[f].audited
    /\ fee' = [fee EXCEPT ![f].hang = "PENDING"]
    /\ NewRequest(h, f)
    /\ UNCHANGED <<item, row, settlement, line>>

\* The purchase is confirmed with the request.
ApplyPurchasePayment(f, h) ==
    /\ request[h].status = "ABSENT"
    /\ MayHang(f) /\ fee[f].kind = "PURCHASE" /\ ~fee[f].audited
    /\ fee' = [fee EXCEPT ![f] = [@ EXCEPT !.confirmed = TRUE, !.hang = "PENDING"]]
    /\ NewRequest(h, f)
    /\ EnsureItems({f})
    /\ UNCHANGED <<row, settlement, line>>

CanApprove(f) ==
    /\ Live(f) /\ TallyDone(f)
    /\ \/ fee[f].audited
       \/ fee[f].kind \in {"PURCHASE", "KUAYUE"} \cup (PayableFirst \ {"TALLY_MISC"})
    /\ fee[f].hang = "PENDING"

\* One request, or a batch in one transaction.  What was not audited is, with it.
ApproveMiscFeeHangRequests(H) ==
    LET F == {request[h].fee : h \in H}
    IN  /\ \A h \in H : request[h].status = "PENDING" /\ CanApprove(request[h].fee)
        /\ \A g, h \in H : request[g].fee = request[h].fee => g = h
        /\ request' = [h \in Requests |->
             IF h \in H THEN [request[h] EXCEPT !.status = "APPROVED"] ELSE request[h]]
        /\ fee' = [f \in Fees |->
             IF f \in F
             THEN [fee[f] EXCEPT !.hang = "APPROVED", !.audited = TRUE, !.confirmed = @ \/ fee[f].kind = "KUAYUE"]
             ELSE fee[f]]
        /\ row' = [f \in Fees |-> IF f \in F THEN [status |-> "READY", amount |-> fee[f].payable] ELSE row[f]]
        /\ EnsureItems(F)
        /\ UNCHANGED <<settlement, line>>

\* Rejected, or withdrawn by who made it.
TransitionMiscFeeHangRequest(h, s) ==
    /\ request[h].status = "PENDING"
    /\ request' = [request EXCEPT ![h].status = s]
    /\ fee' = [fee EXCEPT ![request[h].fee].hang = s]
    /\ UNCHANGED <<item, row, settlement, line>>

-----------------------------------------------------------------------------
(* What the order pages do to the items.                                   *)

SetItems(S, s) ==
    item' = [f \in Fees |-> [r \in Roles |->
        IF <<f, r>> \in S THEN [item[f][r] EXCEPT !.status = s] ELSE item[f][r]]]

\* Entering an order again voids the items of it that are not confirmed.
ReenterOrder(S) ==
    /\ \A x \in S : item[x[1]][x[2]].status = "PENDING"
    /\ SetItems(S, "VOIDED")
    /\ UNCHANGED <<fee, request, row, settlement, line>>

\* Another agent takes the shipment: audited payables of it are voided, unless a
\* finance settlement counted one.
ReplaceShipmentAgent(S) ==
    /\ \A x \in S : /\ OnOrder(x[1], x[2]) /\ item[x[1]][x[2]].type = "PAYABLE"
                    /\ line[x[1]]["FINANCE"].settlement = None
    /\ \E x \in S : item[x[1]][x[2]].status = "CONFIRMED"
    /\ SetItems(S, "VOIDED")
    /\ UNCHANGED <<fee, request, row, settlement, line>>

\* Customer service turns a business cost into a payable, or back.
UpdateCustomerServiceFinanceItem(f, r) ==
    /\ OnOrder(f, r)
    /\ \E t \in Roles : t # item[f][r].type /\ item' = [item EXCEPT ![f][r].type = t]
    /\ UNCHANGED <<fee, request, row, settlement, line>>

\* Customer service leaves business costs out of the list it saves.
UpdateShipmentBusinessData(S) ==
    /\ \A x \in S : OnOrder(x[1], x[2]) /\ item[x[1]][x[2]].type = "BUSINESS_COST"
    /\ SetItems(S, "ABSENT")
    /\ UNCHANGED <<fee, request, row, settlement, line>>

-----------------------------------------------------------------------------
(* Profit settlements.                                                     *)

\* buildProfitSettlementSnapshot: what a settlement of type k counts, wherever the
\* dates of its period fall.  Finance goes by what the order shows as payable.
Counts(k, f) ==
    CASE k = "FINANCE" ->
           \/ \E r \in Roles : item[f][r].status = "CONFIRMED" /\ item[f][r].type = "PAYABLE"
           \/ Live(f) /\ ~fee[f].matched /\ fee[f].audited
      [] k = "MARKET" -> Live(f) /\ fee[f].matched /\ fee[f].confirmed /\ fee[f].audited
      [] k = "WAREHOUSE" -> Live(f) /\ fee[f].confirmed /\ fee[f].audited

Business(x) == IF x.business = None THEN 0 ELSE x.business

\* An amount in RMB is there once the fee is audited, and counts as 0 before.
\* Mutant: a cost that was never given is passed on as it is.
SnapshotUnset(t, k, f) ==
    [settlement |-> t,
     business   |-> IF k = "FINANCE" THEN 0 ELSE fee[f].business,
     payable    |-> IF fee[f].audited THEN fee[f].payable ELSE 0]

Snapshot(t, k, f) ==
    [settlement |-> t,
     business   |-> IF k = "FINANCE" THEN 0 ELSE Business(fee[f]),
     payable    |-> IF fee[f].audited THEN fee[f].payable ELSE 0]

\* The lines of t are those of F; a line of another settlement is left alone.
SetLines(t, k, F) ==
    line' = [f \in Fees |-> [j \in SettlementTypes |->
        IF j = k /\ f \in F THEN Snapshot(t, k, f)
        ELSE IF line[f][j].settlement = t THEN NoLine ELSE line[f][j]]]

\* F is what falls into the period of what no other settlement of the type has.
Countable(t, k, F) == \A f \in F : Counts(k, f) /\ line[f][k].settlement \in {None, t}

CreateProfitSettlement(t, k, F) ==
    /\ settlement[t].status = "ABSENT"
    /\ Countable(t, k, F)
    /\ settlement' = [settlement EXCEPT ![t] = [status |-> "DRAFT", type |-> k]]
    /\ SetLines(t, k, F)
    /\ UNCHANGED <<fee, item, request, row>>

RecomputeProfitSettlement(t, F) ==
    /\ settlement[t].status = "DRAFT"
    /\ Countable(t, settlement[t].type, F)
    /\ SetLines(t, settlement[t].type, F)
    /\ UNCHANGED <<fee, item, request, row, settlement>>

\* The settlement is deleted, and its lines with it.
ReleaseProfitSettlement(t) ==
    /\ settlement[t].status = "DRAFT"
    /\ settlement' = [settlement EXCEPT ![t].status = "ABSENT"]
    /\ SetLines(t, settlement[t].type, {})
    /\ UNCHANGED <<fee, item, request, row>>

\* submit, audit, reverse-audit and archive
Transitions == {<<"DRAFT", "PENDING_AUDIT">>, <<"PENDING_AUDIT", "APPROVED">>,
                <<"APPROVED", "DRAFT">>, <<"APPROVED", "ARCHIVED">>}

TransitionProfitSettlement(t, s) ==
    /\ <<settlement[t].status, s>> \in Transitions
    /\ settlement' = [settlement EXCEPT ![t].status = s]
    /\ UNCHANGED <<fee, item, request, row, line>>

-----------------------------------------------------------------------------
FeeStep ==
    \/ \E f \in Fees :
         \/ \E m \in BOOLEAN, p \in Amounts : ClaimKuayueImportLine(f, m, p)
         \/ \E k \in Kinds, m \in BOOLEAN, n \in Amounts \cup {None}, p \in Amounts : CreateMiscFee(f, k, m, n, p)
         \/ \E n \in Amounts \cup {None}, p \in Amounts : UpdateMiscFee(f, n, p)
         \/ \E n \in Amounts : AssignMiscFeeBusinessCost(f, n)
         \/ MatchMiscFee(f)
         \/ ConfirmMiscFee(f)
         \/ AuditMiscFee(f)
         \/ DirectPayAndArchiveKuayueMiscFee(f)
         \/ ReverseAuditMiscFee(f)
         \/ VoidMiscFee(f)
    \/ \E F \in SUBSET Fees \ {{}} : MatchTallyMiscFees(F)

HangStep ==
    \/ \E f \in Fees, h \in Requests : CreateMiscFeeHangRequest(f, h) \/ ApplyPurchasePayment(f, h)
    \/ \E H \in SUBSET Requests \ {{}} : ApproveMiscFeeHangRequests(H)
    \/ \E h \in Requests, s \in {"REJECTED", "WITHDRAWN"} : TransitionMiscFeeHangRequest(h, s)

OrderStep ==
    \/ \E S \in SUBSET (Fees \X Roles) \ {{}} :
         ReenterOrder(S) \/ ReplaceShipmentAgent(S) \/ UpdateShipmentBusinessData(S)
    \/ \E f \in Fees, r \in Roles : UpdateCustomerServiceFinanceItem(f, r)

SettlementStep ==
    \E t \in Settlements :
        \/ \E F \in SUBSET Fees :
             \/ \E k \in SettlementTypes : CreateProfitSettlement(t, k, F)
             \/ RecomputeProfitSettlement(t, F)
        \/ ReleaseProfitSettlement(t)
        \/ \E s \in {"DRAFT", "PENDING_AUDIT", "APPROVED", "ARCHIVED"} : TransitionProfitSettlement(t, s)

Next == FeeStep \/ HangStep \/ OrderStep \/ SettlementStep

Spec == Init /\ [][Next]_vars

-----------------------------------------------------------------------------
(* Properties.                                                             *)

HangOf(f) ==
    /\ \A h \in OpenRequests(f) : request[h].status = fee[f].hang
    /\ \A g, h \in OpenRequests(f) : g = h
    /\ fee[f].hang \in Open => OpenRequests(f) # {}
    /\ fee[f].hang = "PENDING" => CanApprove(f)
    /\ fee[f].hang = "APPROVED" <=> row[f].status = "READY"
    /\ fee[f].hang = "APPROVED" => Live(f) /\ fee[f].audited /\ row[f].amount = fee[f].payable
    /\ fee[f].archived => /\ Live(f) /\ fee[f].kind = "KUAYUE" /\ fee[f].confirmed /\ fee[f].audited
                          /\ fee[f].hang = "NONE"

\* The fee, its requests and its row to be paid tell one story: a fee is hung just
\* while one request is open, an approved one has a row of the fee's payable, a
\* pending one can be approved, and a bill marked as paid directly is not hung.
\* Audits, reversals and voids go on meanwhile (auditMiscFee, reverseAuditMiscFee,
\* voidMiscFee, 28100-28378).
HangBooks == \A f \in Fees : HangOf(f)

\* A confirmed cost on an order has its decision behind it: a payable the audit, a
\* business cost the confirmation, a pickup's both, of a fee that is not void.  Holds
\* whatever order entry, agent replacement and customer service do to the items.
OrderCostsStand ==
    \A f \in Fees, r \in Roles :
        item[f][r].status = "CONFIRMED" =>
            /\ Live(f)
            /\ r = "PAYABLE" \/ fee[f].kind = "PICKUP" => fee[f].audited
            /\ r = "BUSINESS_COST" => fee[f].confirmed

\* What a profit settlement counted stays true, whatever becomes of the settlement:
\* the fee is live and audited and has the amounts that were counted
\* (reverseAuditMiscFee and voidMiscFee look for lines, 28274 and 28363; edits do not).
SettledAsAudited ==
    \A f \in Fees, k \in SettlementTypes :
        LET l == line[f][k]
        IN  l.settlement # None =>
              /\ l.payable # 0 => Live(f) /\ fee[f].audited /\ l.payable = fee[f].payable
              /\ k # "FINANCE" => /\ Live(f) /\ fee[f].audited /\ fee[f].confirmed
                                  /\ l.payable = fee[f].payable /\ l.business = Business(fee[f])
=============================================================================
