--------------------------- MODULE FeeBooksProofs ---------------------------
(***************************************************************************)
(* No receivable is paid twice, its books are right, and both receipts and *)
(* receivables are the budgets that module Budget describes, for any       *)
(* number of each.                                                         *)
(***************************************************************************)
EXTENDS ReceiptBooksProofs

\* The books of receivable f, and that what is pending for it fits in.
FeeBooked(f) ==
    /\ fee[f].received = Total(MatchAmount, MatchedFor(f))
    /\ fee[f].receiptStatus = ReceiptStatus(fee[f].received, fee[f].amount)
    /\ fee[f].received + ReservedFor(f) <= fee[f].amount

HasRow(f) == f \in Fees /\ fee[f].status \in {"LIVE", "VOIDED"}

\* Requests and matches that count are for receivables that have a row, and an
\* approved request is for the same one as its match.
RequestRows(q) ==
    /\ request[q].status \in {"PENDING", "APPROVED"} => HasRow(request[q].fee)
    /\ request[q].status = "APPROVED" => match[request[q].match].fee = request[q].fee

Claimed(m) == \E q \in Requests : request[q].status = "APPROVED" /\ request[q].match = m

MatchRows(m) ==
    match[m].status = "LIVE" =>
        /\ match[m].receipt \in Receipts /\ HasRow(match[m].fee)
        /\ m \in Legacy \/ Claimed(m)

\* A receipt and a receivable have at most one match without a request: with
\* two, unmatchWaterReceipt may take both back in one call, and since it reads
\* the receivable once and writes it once per match, one of them stays counted.
UnclaimedOnce ==
    \A m, n \in Matches :
        /\ match[m].status = "LIVE" /\ ~ Claimed(m)
        /\ match[n].status = "LIVE" /\ ~ Claimed(n)
        /\ match[m].receipt = match[n].receipt /\ match[m].fee = match[n].fee
        => m = n

\* Of the database the earlier release left: it never matched a receipt twice
\* to one receivable.  No index and no check of that release ensures it
\* (matchWaterReceipt, its direct-post path), so it is an assumption on the
\* initial state, made where a theorem is about receivables.
LegacyOncePerPair ==
    \A m, n \in Matches :
        /\ match[m].status = "LIVE" /\ match[n].status = "LIVE"
        /\ match[m].receipt = match[n].receipt /\ match[m].fee = match[n].fee
        => m = n

FeesOK == \A f \in Fees : FeeBooked(f)
RowsOK == /\ \A q \in Requests : RequestRows(q)
          /\ \A m \in Matches : MatchRows(m)

FeesInv == FeesOK /\ RowsOK /\ UnclaimedOnce

\* What a step does to receivable f, as Budget sees it: its amount stays, and
\* so does what it has received, or what it has received and reserved together,
\* or what is reserved while a posting is withdrawn; or nothing counts for it.
FeeKept(f) ==
    /\ fee'[f].amount = fee[f].amount
    /\ fee'[f].status = "DELETED" => fee[f].status = "DELETED"

FeeMoves(f) ==
    \/ FeeKept(f) /\ fee'[f].received = fee[f].received
    \/ FeeKept(f) /\ fee'[f].received + ReservedFor(f)' = fee[f].received + ReservedFor(f)
    \/ FeeKept(f) /\ fee'[f].received < fee[f].received /\ ReservedFor(f)' = ReservedFor(f)
    \/ PendingFor(f) = {} /\ MatchedFor(f) = {} /\ fee'[f].received = 0

FeesGoOn == FeesInv' /\ \A f \in Fees : FeeMoves(f)

-----------------------------------------------------------------------------
(* Sums for a receivable.                                                  *)

FeeSums ==
    \A f \in Fees :
        /\ fee[f].amount \in Nat /\ fee[f].received \in Int
        /\ IsFiniteSet(PendingFor(f)) /\ \A q \in PendingFor(f) : RequestAmount[q] \in Nat
        /\ IsFiniteSet(MatchedFor(f)) /\ \A m \in MatchedFor(f) : MatchAmount[m] \in Nat
        /\ ReservedFor(f) \in Nat /\ Total(MatchAmount, MatchedFor(f)) \in Nat

LEMMA FeeSumsHold == TypeOK => FeeSums
<1>1. SUFFICES ASSUME TypeOK, NEW f \in Fees
               PROVE  /\ fee[f].amount \in Nat /\ fee[f].received \in Int
                      /\ IsFiniteSet(PendingFor(f)) /\ \A q \in PendingFor(f) : RequestAmount[q] \in Nat
                      /\ IsFiniteSet(MatchedFor(f)) /\ \A m \in MatchedFor(f) : MatchAmount[m] \in Nat
                      /\ ReservedFor(f) \in Nat /\ Total(MatchAmount, MatchedFor(f)) \in Nat
  BY DEF FeeSums
<1>2. PendingFor(f) \in SUBSET Requests /\ MatchedFor(f) \in SUBSET Matches
  BY DEF PendingFor, MatchedFor
<1>3. fee[f].amount \in Nat /\ fee[f].received \in Int
  BY <1>1 DEF TypeOK, FeeRow
<1>4. QED
  BY <1>1, <1>2, <1>3, RequestTotals, MatchTotals DEF ReservedFor

LEMMA FeeSumsNext == TypeOK' => FeeSums'
  BY FeeSumsHold, PTL

\* What request q reserves for receivable f, and what match m has paid of it.
HeldFor(q, f) == IF request[q].status = "PENDING" /\ request[q].fee = f THEN request[q].amount ELSE 0
PaidFor(m, f) == IF match[m].status = "LIVE" /\ match[m].fee = f THEN match[m].amount ELSE 0

LEMMA ReservedForChange ==
    ASSUME TypeOK, TypeOK', NEW f \in Fees, NEW q \in Requests,
           \A p \in Requests \ {q} : request'[p] = request[p]
    PROVE  ReservedFor(f)' = ReservedFor(f) - HeldFor(q, f) + HeldFor(q, f)'
<1>1. PendingFor(f) \ {q} = PendingFor(f)' \ {q}
  BY DEF PendingFor
<1>2. /\ IsFiniteSet(PendingFor(f)) /\ \A p \in PendingFor(f) : RequestAmount[p] \in Nat
      /\ IsFiniteSet(PendingFor(f)') /\ \A p \in PendingFor(f)' : RequestAmount'[p] \in Nat
      /\ ReservedFor(f) \in Nat /\ ReservedFor(f)' \in Nat
  BY FeeSumsHold, FeeSumsNext DEF FeeSums
<1>3. \A p \in PendingFor(f) \ {q} : RequestAmount'[p] = RequestAmount[p]
  BY DEF PendingFor, RequestAmount
<1>4. Total(RequestAmount', PendingFor(f)') - (IF q \in PendingFor(f)' THEN RequestAmount'[q] ELSE 0)
        = Total(RequestAmount, PendingFor(f)) - (IF q \in PendingFor(f) THEN RequestAmount[q] ELSE 0)
  BY <1>1, <1>2, <1>3, TotalChange
<1>5. /\ (IF q \in PendingFor(f) THEN RequestAmount[q] ELSE 0) = HeldFor(q, f)
      /\ (IF q \in PendingFor(f)' THEN RequestAmount'[q] ELSE 0) = HeldFor(q, f)'
  BY DEF PendingFor, RequestAmount, HeldFor
<1>6. HeldFor(q, f) \in Nat /\ HeldFor(q, f)' \in Nat
  BY DEF HeldFor, TypeOK, RequestRow
<1>7. ReservedFor(f)' - HeldFor(q, f)' = ReservedFor(f) - HeldFor(q, f)
  BY <1>4, <1>5 DEF ReservedFor
<1>8. QED
  BY <1>2, <1>6, <1>7

LEMMA MatchedForChange ==
    ASSUME TypeOK, TypeOK', NEW f \in Fees, NEW m \in Matches,
           \A n \in Matches \ {m} :
              match'[n] = match[n] \/ (match[n].fee # f /\ match'[n].fee # f)
    PROVE  Total(MatchAmount, MatchedFor(f))'
             = Total(MatchAmount, MatchedFor(f)) - PaidFor(m, f) + PaidFor(m, f)'
<1>1. MatchedFor(f) \ {m} = MatchedFor(f)' \ {m}
  BY DEF MatchedFor
<1>2. /\ IsFiniteSet(MatchedFor(f)) /\ \A n \in MatchedFor(f) : MatchAmount[n] \in Nat
      /\ IsFiniteSet(MatchedFor(f)') /\ \A n \in MatchedFor(f)' : MatchAmount'[n] \in Nat
      /\ Total(MatchAmount, MatchedFor(f)) \in Nat /\ Total(MatchAmount, MatchedFor(f))' \in Nat
  BY FeeSumsHold, FeeSumsNext DEF FeeSums
<1>3. \A n \in MatchedFor(f) \ {m} : MatchAmount'[n] = MatchAmount[n]
  BY DEF MatchedFor, MatchAmount
<1>4. Total(MatchAmount', MatchedFor(f)') - (IF m \in MatchedFor(f)' THEN MatchAmount'[m] ELSE 0)
        = Total(MatchAmount, MatchedFor(f)) - (IF m \in MatchedFor(f) THEN MatchAmount[m] ELSE 0)
  BY <1>1, <1>2, <1>3, TotalChange
<1>5. /\ (IF m \in MatchedFor(f) THEN MatchAmount[m] ELSE 0) = PaidFor(m, f)
      /\ (IF m \in MatchedFor(f)' THEN MatchAmount'[m] ELSE 0) = PaidFor(m, f)'
  BY DEF MatchedFor, MatchAmount, PaidFor
<1>6. PaidFor(m, f) \in Nat /\ PaidFor(m, f)' \in Nat
  BY DEF PaidFor, TypeOK, MatchRow
<1>7. QED
  BY <1>2, <1>4, <1>5, <1>6

\* A receivable without pending requests and live matches.
LEMMA NothingFor ==
    ASSUME NEW f, PendingFor(f) = {}, MatchedFor(f) = {}
    PROVE  ReservedFor(f) = 0 /\ Total(MatchAmount, MatchedFor(f)) = 0
  BY TotalEmpty DEF ReservedFor

\* Nothing counts for a receivable without a row ...
LEMMA NoRowNothing ==
    ASSUME RowsOK, NEW f \in Fees, fee[f].status \notin {"LIVE", "VOIDED"}
    PROVE  PendingFor(f) = {} /\ MatchedFor(f) = {}
  BY DEF RowsOK, RequestRows, MatchRows, HasRow, PendingFor, MatchedFor

\* ... nor for one that no request or match refers to.
LEMMA UnreferencedNothing ==
    ASSUME NEW f, ~ Referenced(f)
    PROVE  PendingFor(f) = {} /\ MatchedFor(f) = {}
  BY DEF Referenced, PendingFor, MatchedFor

\* The match of an approved request counts for the request's receivable.
LEMMA ApprovedCounts ==
    ASSUME AllocationsOK, RowsOK, NEW q \in Requests, request[q].status = "APPROVED"
    PROVE  request[q].match \in MatchedFor(request[q].fee)
  BY DEF AllocationsOK, RequestFits, RowsOK, RequestRows, MatchedFor

-----------------------------------------------------------------------------
(* Steps that post no match and take none back.                            *)

\* The row of f keeps what counts, or nothing counts for f.
FeeEdited(f) ==
    \/ /\ fee'[f].amount = fee[f].amount /\ fee'[f].received = fee[f].received
       /\ fee'[f].receiptStatus = fee[f].receiptStatus
       /\ (fee'[f].status = fee[f].status \/ (fee'[f].status = "VOIDED" /\ fee[f].status = "LIVE"))
    \/ /\ PendingFor(f) = {} /\ MatchedFor(f) = {}
       /\ fee'[f].received = 0 /\ fee'[f].receiptStatus = "UNPAID"

\* Such a step keeps the books if what is pending still fits and approved
\* requests stay as they are.
LEMMA PaperStep ==
    ASSUME BooksInv, BooksInv', FeesInv, match' = match,
           \A f \in Fees : FeeEdited(f) /\ fee'[f].received + ReservedFor(f)' <= fee'[f].amount,
           \A q \in Requests :
              \/ request'[q] = request[q]
              \/ /\ request[q].status # "APPROVED" /\ request'[q].status # "APPROVED"
                 /\ RequestRows(q)'
    PROVE  FeesGoOn
<1>0. RowsOK /\ AllocationsOK
  BY DEF FeesInv, BooksInv
<1>1. ASSUME NEW f \in Fees PROVE FeeBooked(f)' /\ FeeMoves(f)
  <2>1. Total(MatchAmount, MatchedFor(f))' = Total(MatchAmount, MatchedFor(f))
    BY DEF MatchAmount, MatchedFor
  <2>2. FeeBooked(f) /\ FeeEdited(f) /\ fee'[f].received + ReservedFor(f)' <= fee'[f].amount
    BY DEF FeesInv, FeesOK
  <2>3. CASE /\ fee'[f].amount = fee[f].amount /\ fee'[f].received = fee[f].received
             /\ fee'[f].receiptStatus = fee[f].receiptStatus
             /\ (fee'[f].status = fee[f].status \/ (fee'[f].status = "VOIDED" /\ fee[f].status = "LIVE"))
    BY <2>1, <2>2, <2>3 DEF FeeBooked, FeeMoves, FeeKept
  <2>4. CASE /\ PendingFor(f) = {} /\ MatchedFor(f) = {}
             /\ fee'[f].received = 0 /\ fee'[f].receiptStatus = "UNPAID"
    <3>1. Total(MatchAmount, MatchedFor(f)) = 0
      BY <2>4, NothingFor
    <3>2. ReceiptStatus(0, fee'[f].amount) = "UNPAID"
      BY DEF ReceiptStatus
    <3>3. QED
      BY <2>1, <2>2, <2>4, <3>1, <3>2 DEF FeeBooked, FeeMoves
  <2>5. QED
    BY <2>2, <2>3, <2>4 DEF FeeEdited
<1>2. ASSUME NEW f \in Fees, PendingFor(f) \cup MatchedFor(f) # {}, HasRow(f) PROVE HasRow(f)'
  BY <1>2 DEF FeeEdited, HasRow
<1>3. ASSUME NEW q \in Requests PROVE RequestRows(q)'
  <2>1. CASE request'[q] = request[q]
    <3>1. RequestRows(q)
      BY <1>0 DEF RowsOK
    <3>2. request[q].status = "PENDING" => q \in PendingFor(request[q].fee)
      BY DEF PendingFor
    <3>3. request[q].status = "APPROVED" => MatchedFor(request[q].fee) # {}
      BY <1>0, ApprovedCounts
    <3>4. request[q].status \in {"PENDING", "APPROVED"} => HasRow(request[q].fee)'
      BY <1>2, <2>1, <3>1, <3>2, <3>3 DEF RequestRows, HasRow
    <3>5. QED
      BY <2>1, <3>1, <3>4 DEF RequestRows, HasRow
  <2>2. QED
    BY <2>1
<1>4. \A m \in Matches : Claimed(m)' <=> Claimed(m)
  BY DEF Claimed
<1>5. ASSUME NEW m \in Matches PROVE MatchRows(m)'
  <2>1. MatchRows(m)
    BY <1>0 DEF RowsOK
  <2>2. match[m].status = "LIVE" => m \in MatchedFor(match[m].fee)
    BY DEF MatchedFor
  <2>3. match[m].status = "LIVE" => HasRow(match[m].fee)'
    BY <1>2, <2>1, <2>2 DEF MatchRows, HasRow
  <2>4. QED
    BY <1>4, <2>1, <2>3 DEF MatchRows, HasRow
<1>6. UnclaimedOnce'
  BY <1>4 DEF FeesInv, UnclaimedOnce
<1>7. QED
  BY <1>1, <1>3, <1>5, <1>6 DEF FeesGoOn, FeesInv, FeesOK, RowsOK

\* Steps of the receivables alone.
LEMMA EditedFees ==
    ASSUME BooksInv, BooksInv', FeesInv, UNCHANGED <<request, match>>, \A f \in Fees : FeeEdited(f)
    PROVE  FeesGoOn
<1>1. ASSUME NEW f \in Fees PROVE fee'[f].received + ReservedFor(f)' <= fee'[f].amount
  <2>1. ReservedFor(f)' = ReservedFor(f)
    BY DEF ReservedFor, RequestAmount, PendingFor
  <2>2. FeeBooked(f) /\ FeeEdited(f)
    BY DEF FeesInv, FeesOK
  <2>3. fee'[f].amount \in Nat
    BY FeeSumsNext DEF BooksInv, FeeSums
  <2>4. CASE fee'[f].amount = fee[f].amount /\ fee'[f].received = fee[f].received
    BY <2>1, <2>2, <2>4 DEF FeeBooked
  <2>5. CASE PendingFor(f) = {} /\ MatchedFor(f) = {} /\ fee'[f].received = 0
    BY <2>1, <2>3, <2>5, NothingFor
  <2>6. QED
    BY <2>2, <2>4, <2>5 DEF FeeEdited
<1>2. QED
  BY <1>1, PaperStep

\* The actions of the receivables page ...
LEMMA FeeStepFees ==
    ASSUME BooksInv, BooksInv', FeesInv, FeeStep
    PROVE  FeesGoOn
<1>0. UNCHANGED <<request, match>> /\ RowsOK /\ TypeOK
  BY FeeStepKeeps DEF FeesInv, BooksInv
<1>1. ASSUME NEW f \in Fees, NEW a \in Amounts, CreateFee(f, a) PROVE FeesGoOn
  <2>1. /\ fee'[f].received = 0 /\ fee'[f].receiptStatus = "UNPAID"
        /\ \A g \in Fees \ {f} : fee'[g] = fee[g]
    BY <1>0, <1>1 DEF CreateFee, TypeOK, NewFee, NoFee
  <2>2. PendingFor(f) = {} /\ MatchedFor(f) = {}
    BY <1>0, <1>1, NoRowNothing DEF CreateFee
  <2>3. QED
    BY <1>0, <2>1, <2>2, EditedFees DEF FeeEdited
<1>2. ASSUME NEW f \in Fees, NEW a \in Amounts, UpdateFee(f, a) PROVE FeesGoOn
  <2>1. /\ PendingFor(f) = {} /\ MatchedFor(f) = {}
        /\ fee'[f].received = fee[f].received /\ fee'[f].receiptStatus = fee[f].receiptStatus
        /\ \A g \in Fees \ {f} : fee'[g] = fee[g]
    BY <1>0, <1>2 DEF UpdateFee, TypeOK, FeeRow
  <2>2. fee[f].received = 0 /\ fee[f].receiptStatus = "UNPAID"
    BY <2>1, NothingFor DEF FeesInv, FeesOK, FeeBooked, ReceiptStatus
  <2>3. QED
    BY <1>0, <2>1, <2>2, EditedFees DEF FeeEdited
<1>3. ASSUME NEW f \in Fees, AuditFee(f) \/ LockFee(f) \/ UnlockFee(f) \/ ReverseAuditWrite(f)
      PROVE  FeesGoOn
  <2>1. PICK audit : fee' = [fee EXCEPT ![f].audit = audit]
    BY <1>3 DEF AuditFee, LockFee, UnlockFee, ReverseAuditWrite
  <2>2. \A g \in Fees : /\ fee'[g].status = fee[g].status /\ fee'[g].amount = fee[g].amount
                        /\ fee'[g].received = fee[g].received
                        /\ fee'[g].receiptStatus = fee[g].receiptStatus
    BY <1>0, <2>1 DEF TypeOK, FeeRow
  <2>3. QED
    BY <1>0, <2>2, EditedFees DEF FeeEdited
<1>4. ASSUME NEW f \in Fees, DeleteFinanceItem(f) \/ DeleteFeeWrite(f) PROVE FeesGoOn
  <2>1. /\ fee'[f].received = 0 /\ fee'[f].receiptStatus = "UNPAID" /\ ~ Referenced(f)
        /\ \A g \in Fees \ {f} : fee'[g] = fee[g]
    BY <1>0, <1>4 DEF DeleteFinanceItem, DeleteFeeWrite, TypeOK, Deleted, NoFee
  <2>2. PendingFor(f) = {} /\ MatchedFor(f) = {}
    BY <2>1, UnreferencedNothing
  <2>3. QED
    BY <1>0, <2>1, <2>2, EditedFees DEF FeeEdited
<1>5. ASSUME NEW p \in Payments, NEW c \in Accounts, NEW F \in SUBSET Fees, NEW a \in Amounts,
             CreatePayment(p, c, F, a)
      PROVE  FeesGoOn
  <2>1. \A f \in Fees : fee'[f] = IF f \in F \ SystemFees
                                  THEN [fee[f] EXCEPT !.audit = "CONFIRMED"] ELSE fee[f]
    BY <1>5 DEF CreatePayment
  <2>2. \A g \in Fees : /\ fee'[g].status = fee[g].status /\ fee'[g].amount = fee[g].amount
                        /\ fee'[g].received = fee[g].received
                        /\ fee'[g].receiptStatus = fee[g].receiptStatus
    <3>1. TAKE g \in Fees
    <3>2. fee'[g] = fee[g] \/ fee'[g] = [fee[g] EXCEPT !.audit = "CONFIRMED"]
      BY <2>1
    <3>3. fee[g] \in FeeRow
      BY <1>0 DEF TypeOK
    <3>4. QED
      BY <3>2, <3>3 DEF FeeRow
  <2>3. QED
    BY <1>0, <2>2, EditedFees DEF FeeEdited
<1>6. CASE UNCHANGED fee
  BY <1>0, <1>6, EditedFees DEF FeeEdited
<1>7. \/ UNCHANGED fee
      \/ \E f \in Fees, a \in Amounts : CreateFee(f, a) \/ UpdateFee(f, a)
      \/ \E f \in Fees : \/ AuditFee(f) \/ LockFee(f) \/ UnlockFee(f) \/ ReverseAuditWrite(f)
                         \/ DeleteFinanceItem(f) \/ DeleteFeeWrite(f)
      \/ \E p \in Payments, c \in Accounts, F \in SUBSET Fees, a \in Amounts :
            CreatePayment(p, c, F, a)
  BY DEF FeeStep, DeleteFeeCheck, ReverseAuditCheck, AbandonCall, OpenAccount
<1>8. QED
  BY <1>1, <1>2, <1>3, <1>4, <1>5, <1>6, <1>7

-----------------------------------------------------------------------------
(* Steps that change requests.                                             *)

\* New requests reserve, for each receivable, what the only one for it asks.
LEMMA NewReservedFor ==
    ASSUME TypeOK, TypeOK', NEW f \in Fees, NEW Q \in SUBSET AbsentRequests,
           NEW alloc \in [Q -> Allocation], ReceiptsCover(alloc), request' = WithRequests(alloc)
    PROVE  /\ (\A q \in Q : alloc[q].fee # f) => ReservedFor(f)' = ReservedFor(f)
           /\ \A q \in Q : alloc[q].fee = f => ReservedFor(f)' = ReservedFor(f) + alloc[q].amount
<1>1. Q \subseteq Requests /\ \A q \in Q : request[q].status = "ABSENT"
  BY DEF AbsentRequests
<1>2. /\ \A q \in Q : /\ request'[q].status = "PENDING" /\ request'[q].fee = alloc[q].fee
                      /\ request'[q].amount = alloc[q].amount
      /\ \A q \in Requests \ Q : request'[q] = request[q]
  BY <1>1 DEF WithRequests
<1>3. \A q \in PendingFor(f) : RequestAmount'[q] = RequestAmount[q]
  BY <1>1, <1>2 DEF PendingFor, RequestAmount
<1>4. ASSUME \A q \in Q : alloc[q].fee # f PROVE ReservedFor(f)' = ReservedFor(f)
  <2>1. PendingFor(f)' = PendingFor(f)
    BY <1>1, <1>2, <1>4 DEF PendingFor
  <2>2. QED
    BY <1>3, <2>1, TotalSame DEF ReservedFor
<1>5. ASSUME NEW q \in Q, alloc[q].fee = f PROVE ReservedFor(f)' = ReservedFor(f) + alloc[q].amount
  <2>1. \A p \in Q : alloc[p].fee = f => p = q
    BY <1>5 DEF ReceiptsCover
  <2>2. PendingFor(f)' = PendingFor(f) \cup {q} /\ q \notin PendingFor(f)
    BY <1>1, <1>2, <1>5, <2>1 DEF PendingFor
  <2>3. RequestAmount'[q] = alloc[q].amount
    BY <1>1, <1>2 DEF RequestAmount
  <2>4. IsFiniteSet(PendingFor(f)) /\ \A p \in PendingFor(f)' : RequestAmount'[p] \in Nat
    BY FeeSumsHold, FeeSumsNext DEF FeeSums
  <2>5. Total(RequestAmount', PendingFor(f) \cup {q})
          = Total(RequestAmount', PendingFor(f)) + RequestAmount'[q]
    BY <2>2, <2>4, TotalAdd
  <2>6. Total(RequestAmount', PendingFor(f)) = Total(RequestAmount, PendingFor(f))
    BY <1>3, TotalSame
  <2>7. QED
    BY <2>2, <2>3, <2>5, <2>6 DEF ReservedFor
<1>6. QED
  BY <1>4, <1>5

LEMMA SubmitFees ==
    ASSUME BooksInv, BooksInv', FeesInv, NEW Q \in SUBSET AbsentRequests, NEW r \in Receipts,
           NEW alloc \in [Q -> Allocation], Submit(r, alloc)
    PROVE  FeesGoOn
<1>1. /\ UNCHANGED <<fee, match>> /\ ReceiptsCover(alloc) /\ request' = WithRequests(alloc)
      /\ \A q \in Q : Live(alloc[q].fee)
                      /\ FitsFee(alloc[q].fee, alloc[q].amount, PendingFor(alloc[q].fee))
  BY DEF Submit
<1>2. TypeOK /\ TypeOK'
  BY DEF BooksInv
<1>3. ASSUME NEW f \in Fees PROVE fee'[f].received + ReservedFor(f)' <= fee'[f].amount
  <2>1. CASE \A q \in Q : alloc[q].fee # f
    <3>1. ReservedFor(f)' = ReservedFor(f)
      BY <1>1, <1>2, <2>1, NewReservedFor
    <3>2. QED
      BY <1>1, <3>1 DEF FeesInv, FeesOK, FeeBooked
  <2>2. ASSUME NEW q \in Q, alloc[q].fee = f
        PROVE  fee'[f].received + ReservedFor(f)' <= fee'[f].amount
    <3>1. ReservedFor(f)' = ReservedFor(f) + alloc[q].amount
      BY <1>1, <1>2, <2>2, NewReservedFor
    <3>2. alloc[q].amount + ReservedFor(f) <= fee[f].amount - fee[f].received
      BY <1>1, <2>2 DEF FitsFee, Unpaid, ReservedFor
    <3>3. alloc[q].amount \in Nat
      <4>1. alloc[q] \in Allocation
        BY <2>2
      <4>2. QED
        BY <4>1, EnteredAmount DEF Allocation
    <3>4. ReservedFor(f) \in Nat /\ fee[f].amount \in Nat /\ fee[f].received \in Int
      BY <1>2, FeeSumsHold DEF FeeSums
    <3>5. QED
      BY <1>1, <3>1, <3>2, <3>3, <3>4
  <2>3. QED
    BY <2>1, <2>2
<1>4. ASSUME NEW q \in Requests
      PROVE  \/ request'[q] = request[q]
             \/ /\ request[q].status # "APPROVED" /\ request'[q].status # "APPROVED"
                /\ RequestRows(q)'
  <2>1. CASE q \in Q
    <3>1. alloc[q] \in Allocation /\ request[q].status = "ABSENT"
      BY <2>1 DEF AbsentRequests
    <3>2. alloc[q].fee \in Fees /\ fee[alloc[q].fee].status = "LIVE"
      BY <1>1, <2>1, <3>1 DEF Allocation, Live
    <3>3. request'[q].status = "PENDING" /\ request'[q].fee = alloc[q].fee
      BY <1>1, <2>1 DEF WithRequests
    <3>4. QED
      BY <1>1, <3>1, <3>2, <3>3 DEF RequestRows, HasRow
  <2>2. CASE q \notin Q
    BY <1>1, <2>2 DEF WithRequests
  <2>3. QED
    BY <2>1, <2>2
<1>5. \A f \in Fees : FeeEdited(f)
  BY <1>1 DEF FeeEdited
<1>6. QED
  BY <1>1, <1>3, <1>4, <1>5, PaperStep

\* One request that is not approved changes its amount or is closed.
LEMMA ReviewFees ==
    ASSUME BooksInv, BooksInv', FeesInv, NEW q \in Requests,
           \/ \E a \in Amounts : UpdateRequest(q, a)
           \/ DeleteRequest(q) \/ RejectRequest(q)
    PROVE  FeesGoOn
<1>0. TypeOK /\ TypeOK' /\ RequestRows(q)
  BY DEF BooksInv, FeesInv, RowsOK
<1>1. /\ UNCHANGED <<fee, match>> /\ request[q].status = "PENDING"
      /\ request'[q].status # "APPROVED" /\ request'[q].fee = request[q].fee
      /\ \A p \in Requests \ {q} : request'[p] = request[p]
  BY <1>0 DEF UpdateRequest, DeleteRequest, RejectRequest, CloseRequest, TypeOK, RequestRow
<1>2. ASSUME NEW f \in Fees PROVE fee'[f].received + ReservedFor(f)' <= fee'[f].amount
  <2>1. ReservedFor(f)' = ReservedFor(f) - HeldFor(q, f) + HeldFor(q, f)'
    BY <1>0, <1>1, ReservedForChange
  <2>2. /\ ReservedFor(f) \in Nat /\ fee[f].amount \in Nat /\ fee[f].received \in Int
        /\ fee[f].received + ReservedFor(f) <= fee[f].amount
    BY <1>0, FeeSumsHold DEF FeeSums, FeesInv, FeesOK, FeeBooked
  <2>3. HeldFor(q, f) \in Nat /\ HeldFor(q, f)' \in Nat
    BY <1>0 DEF HeldFor, TypeOK, RequestRow
  <2>4. CASE HeldFor(q, f)' = 0
    BY <1>1, <2>1, <2>2, <2>3, <2>4
  <2>5. ASSUME HeldFor(q, f)' # 0, NEW a \in Amounts, UpdateRequest(q, a)
        PROVE  fee'[f].received + ReservedFor(f)' <= fee'[f].amount
    <3>1. request[q].fee = f /\ HeldFor(q, f) = request[q].amount /\ HeldFor(q, f)' = a
      BY <1>0, <1>1, <2>5 DEF HeldFor, UpdateRequest, TypeOK, RequestRow
    <3>2. a + Total(RequestAmount, PendingFor(f) \ {q}) <= fee[f].amount - fee[f].received
      BY <2>5, <3>1 DEF UpdateRequest, FitsFee, Unpaid
    <3>3. q \in PendingFor(f) /\ RequestAmount[q] = request[q].amount
      BY <1>1, <3>1 DEF PendingFor, RequestAmount
    <3>4. Total(RequestAmount, PendingFor(f) \ {q}) = ReservedFor(f) - request[q].amount
      BY <1>0, <3>3, FeeSumsHold, TotalWithout DEF FeeSums, ReservedFor
    <3>5. QED
      BY <1>1, <2>1, <2>2, <2>3, <3>1, <3>2, <3>4
  <2>6. CASE DeleteRequest(q) \/ RejectRequest(q)
    <3>1. HeldFor(q, f)' = 0
      BY <1>0, <2>6 DEF DeleteRequest, RejectRequest, CloseRequest, HeldFor, TypeOK, RequestRow
    <3>2. QED
      BY <2>4, <3>1
  <2>7. QED
    BY <2>4, <2>5, <2>6
<1>3. RequestRows(q)'
  BY <1>0, <1>1 DEF RequestRows, HasRow
<1>4. \A f \in Fees : FeeEdited(f)
  BY <1>1 DEF FeeEdited
<1>5. QED
  BY <1>1, <1>2, <1>3, <1>4, PaperStep

-----------------------------------------------------------------------------
(* Steps of the orders.                                                    *)

LEMMA RegenerateFeesBooks ==
    ASSUME BooksInv, BooksInv', FeesInv, NEW s \in Shipments, NEW F \in SUBSET SystemFees,
           NEW new \in [F -> Amounts], RegenerateFees(s, new)
    PROVE  FeesGoOn
<1> DEFINE old == {f \in FeesOf(s) \cap SystemFees :
                      fee[f].status \in {"LIVE", "VOIDED"} /\ ~ Settled(f)}
<1>1. /\ UNCHANGED <<request, match>>
      /\ \A f \in old : ~ Referenced(f)
      /\ \A f \in F : fee[f].status = "ABSENT"
      /\ fee' = [f \in Fees |-> IF f \in old THEN Deleted
                                ELSE IF f \in DOMAIN new THEN NewFee(new[f]) ELSE fee[f]]
  BY DEF RegenerateFees
<1> HIDE DEF old
<1>2. ASSUME NEW f \in Fees PROVE FeeEdited(f)
  <2>1. CASE f \in old
    BY <1>1, <2>1, UnreferencedNothing DEF FeeEdited, Deleted, NoFee
  <2>2. CASE f \notin old /\ f \in F
    <3>1. PendingFor(f) = {} /\ MatchedFor(f) = {}
      BY <1>1, <2>2, NoRowNothing DEF FeesInv
    <3>2. QED
      BY <1>1, <2>2, <3>1 DEF FeeEdited, NewFee, NoFee
  <2>3. CASE f \notin old /\ f \notin F
    BY <1>1, <2>3 DEF FeeEdited
  <2>4. QED
    BY <2>1, <2>2, <2>3
<1>3. QED
  BY <1>1, <1>2, EditedFees

LEMMA DeleteShipmentFees ==
    ASSUME BooksInv, BooksInv', FeesInv, NEW s \in Shipments, DeleteShipment(s)
    PROVE  FeesGoOn
<1>1. /\ UNCHANGED <<request, match>>
      /\ \A f \in FeesOf(s) : ~ Referenced(f)
      /\ fee' = [f \in Fees |-> IF f \in FeesOf(s) THEN Deleted ELSE fee[f]]
  BY DEF DeleteShipment
<1>2. ASSUME NEW f \in Fees PROVE FeeEdited(f)
  BY <1>1, UnreferencedNothing DEF FeeEdited, Deleted, NoFee
<1>3. QED
  BY <1>1, <1>2, EditedFees

\* A new receivable has at most one request, for no more than its amount.
LEMMA OrderEntryFees ==
    ASSUME BooksInv, BooksInv', FeesInv, NEW s \in Shipments, NEW c \in Accounts,
           NEW F \in SUBSET {f \in Fees \ SystemFees : fee[f].status = "ABSENT"},
           NEW new \in [F -> Amounts], NEW Q \in SUBSET AbsentRequests,
           NEW alloc \in [Q -> {x \in Allocation : x.fee \in F}], OrderEntry(s, c, new, alloc)
    PROVE  FeesGoOn
<1> DEFINE replaced == {f \in FeesOf(s) \ SystemFees : Editable(f)}
<1>1. /\ match' = match /\ ReceiptsCover(alloc) /\ request' = WithRequests(alloc)
      /\ \A q \in Q : alloc[q].amount <= new[alloc[q].fee]
      /\ fee' = [f \in Fees |-> IF f \in replaced THEN [fee[f] EXCEPT !.status = "VOIDED"]
                                ELSE IF f \in F THEN NewFee(new[f]) ELSE fee[f]]
  BY DEF OrderEntry
<1>2. /\ TypeOK /\ TypeOK' /\ alloc \in [Q -> Allocation]
      /\ \A q \in Q : alloc[q].fee \in F /\ alloc[q] \in Allocation
  <2>1. \A q \in Q : alloc[q] \in {x \in Allocation : x.fee \in F}
    OBVIOUS
  <2>2. QED
    BY <2>1 DEF BooksInv
<1>3. \A f \in replaced : fee[f].status = "LIVE"
  BY DEF Editable, Live
<1> HIDE DEF replaced
<1>4. ASSUME NEW f \in F
      PROVE  /\ f \in Fees /\ PendingFor(f) = {} /\ MatchedFor(f) = {}
             /\ fee'[f].received = 0 /\ fee'[f].receiptStatus = "UNPAID"
             /\ fee'[f].amount = new[f] /\ new[f] \in Nat /\ fee'[f].status = "LIVE"
  <2>1. f \in Fees /\ fee[f].status = "ABSENT" /\ f \notin replaced
    BY <1>3
  <2>2. fee'[f] = NewFee(new[f])
    BY <1>1, <2>1
  <2>3. QED
    BY <2>1, <2>2, NoRowNothing, EnteredAmount DEF NewFee, NoFee, FeesInv
<1>5. ASSUME NEW f \in Fees, f \notin F
      PROVE  /\ fee'[f].amount = fee[f].amount /\ fee'[f].received = fee[f].received
             /\ fee'[f].receiptStatus = fee[f].receiptStatus
             /\ (fee'[f].status = fee[f].status \/ (fee'[f].status = "VOIDED" /\ fee[f].status = "LIVE"))
             /\ ReservedFor(f)' = ReservedFor(f)
  <2>1. fee[f] \in FeeRow
    BY <1>2 DEF TypeOK
  <2>2. fee'[f] = IF f \in replaced THEN [fee[f] EXCEPT !.status = "VOIDED"] ELSE fee[f]
    BY <1>1, <1>5
  <2>3. ReservedFor(f)' = ReservedFor(f)
    BY <1>1, <1>2, <1>5, NewReservedFor
  <2>4. QED
    BY <1>3, <2>1, <2>2, <2>3 DEF FeeRow
<1>6. ASSUME NEW f \in Fees PROVE FeeEdited(f) /\ fee'[f].received + ReservedFor(f)' <= fee'[f].amount
  <2>1. CASE f \notin F
    BY <1>5, <2>1 DEF FeeEdited, FeesInv, FeesOK, FeeBooked
  <2>2. CASE f \in F
    <3>1. ReservedFor(f) = 0
      BY <1>4, <2>2, NothingFor
    <3>2. CASE \A q \in Q : alloc[q].fee # f
      <4>1. ReservedFor(f)' = 0
        BY <1>1, <1>2, <3>1, <3>2, NewReservedFor
      <4>2. QED
        BY <1>4, <2>2, <4>1 DEF FeeEdited
    <3>3. ASSUME NEW q \in Q, alloc[q].fee = f
          PROVE  FeeEdited(f) /\ fee'[f].received + ReservedFor(f)' <= fee'[f].amount
      <4>1. ReservedFor(f)' = ReservedFor(f) + alloc[q].amount
        BY <1>1, <1>2, <3>3, NewReservedFor
      <4>2. alloc[q].amount \in Nat /\ alloc[q].amount <= new[f]
        BY <1>1, <1>2, <3>3, EnteredAmount DEF Allocation
      <4>3. QED
        BY <1>4, <2>2, <3>1, <4>1, <4>2 DEF FeeEdited
    <3>4. QED
      BY <3>2, <3>3
  <2>3. QED
    BY <2>1, <2>2
<1>7. ASSUME NEW q \in Requests
      PROVE  \/ request'[q] = request[q]
             \/ /\ request[q].status # "APPROVED" /\ request'[q].status # "APPROVED"
                /\ RequestRows(q)'
  <2>1. CASE q \in Q
    <3>1. request[q].status = "ABSENT" /\ alloc[q].fee \in F
      BY <1>2, <2>1 DEF AbsentRequests
    <3>2. request'[q].status = "PENDING" /\ request'[q].fee = alloc[q].fee
      BY <1>1, <2>1 DEF WithRequests
    <3>3. QED
      BY <1>4, <3>1, <3>2 DEF RequestRows, HasRow
  <2>2. CASE q \notin Q
    BY <1>1, <2>2 DEF WithRequests
  <2>3. QED
    BY <2>1, <2>2
<1>8. QED
  BY <1>1, <1>6, <1>7, PaperStep

LEMMA ShipmentStepFees ==
    ASSUME BooksInv, BooksInv', FeesInv, ShipmentStep
    PROVE  FeesGoOn
<1>1. CASE \E s \in Shipments, c \in Accounts : ReassignShipment(s, c)
  <2>1. UNCHANGED <<fee, request, match>>
    BY <1>1 DEF ReassignShipment
  <2>2. QED
    BY <2>1, EditedFees DEF FeeEdited
<1>2. QED
  BY <1>1, RegenerateFeesBooks, OrderEntryFees, DeleteShipmentFees DEF ShipmentStep

-----------------------------------------------------------------------------
(* Steps that post matches and take them back.                             *)

LEMMA PostedFeeRow ==
    ASSUME NEW row \in FeeRow, NEW a
    PROVE  /\ PostedFee(row, a).status = row.status /\ PostedFee(row, a).amount = row.amount
           /\ PostedFee(row, a).received = row.received + a
           /\ PostedFee(row, a).receiptStatus =
                 IF row.received + a >= row.amount THEN "RECEIVED" ELSE "PARTIAL"
  BY DEF PostedFee, FeeRow

LEMMA UnpostedFeeRow ==
    ASSUME NEW row \in FeeRow, NEW a
    PROVE  /\ UnpostedFee(row, a).status = row.status /\ UnpostedFee(row, a).amount = row.amount
           /\ UnpostedFee(row, a).received = AtLeastZero(row.received - a)
           /\ UnpostedFee(row, a).receiptStatus
                 = ReceiptStatus(AtLeastZero(row.received - a), row.amount)
  BY DEF UnpostedFee, FeeRow

\* An approval turns what its request reserved for the receivable into a match.
LEMMA ApproveFees ==
    ASSUME BooksInv, BooksInv', FeesInv, NEW q \in Requests, NEW m \in Matches, ApproveRequest(q, m)
    PROVE  FeesGoOn
<1>0. PICK f, a : f = request[q].fee /\ a = request[q].amount
  OBVIOUS
<1>1. /\ TypeOK /\ TypeOK' /\ RowsOK /\ AllocationsOK /\ RequestFits(q) /\ RequestRows(q)
      /\ request[q].status = "PENDING" /\ match[m].status = "ABSENT"
  BY DEF BooksInv, FeesInv, RowsOK, AllocationsOK, ApproveRequest
<1>2. /\ f \in Fees /\ a \in Nat /\ a > 0 /\ request[q].receipt \in Receipts
      /\ fee[f] \in FeeRow /\ fee[f].status \in {"LIVE", "VOIDED"}
  BY <1>0, <1>1 DEF RequestFits, RequestRows, HasRow, TypeOK, RequestRow
<1>3. /\ fee'[f] = PostedFee(fee[f], a) /\ \A g \in Fees \ {f} : fee'[g] = fee[g]
      /\ request'[q].status = "APPROVED" /\ request'[q].match = m
      /\ request'[q].fee = f /\ request'[q].amount = a
      /\ \A p \in Requests \ {q} : request'[p] = request[p]
      /\ match'[m] = [status |-> "LIVE", receipt |-> request[q].receipt, fee |-> f, amount |-> a]
      /\ \A n \in Matches \ {m} : match'[n] = match[n]
  BY <1>0, <1>1, <1>2 DEF ApproveRequest, TypeOK, RequestRow
<1>4. ASSUME NEW g \in Fees
      PROVE  /\ ReservedFor(g)' = ReservedFor(g) - (IF g = f THEN a ELSE 0)
             /\ Total(MatchAmount, MatchedFor(g))'
                   = Total(MatchAmount, MatchedFor(g)) + (IF g = f THEN a ELSE 0)
  <2>1. ReservedFor(g)' = ReservedFor(g) - HeldFor(q, g) + HeldFor(q, g)'
    BY <1>1, <1>3, ReservedForChange
  <2>2. Total(MatchAmount, MatchedFor(g))'
          = Total(MatchAmount, MatchedFor(g)) - PaidFor(m, g) + PaidFor(m, g)'
    BY <1>1, <1>3, MatchedForChange
  <2>3. /\ HeldFor(q, g) = (IF g = f THEN a ELSE 0) /\ HeldFor(q, g)' = 0
        /\ PaidFor(m, g) = 0 /\ PaidFor(m, g)' = (IF g = f THEN a ELSE 0)
    BY <1>0, <1>1, <1>3 DEF HeldFor, PaidFor
  <2>4. ReservedFor(g) \in Nat /\ Total(MatchAmount, MatchedFor(g)) \in Nat
    BY <1>1, FeeSumsHold DEF FeeSums
  <2>5. QED
    BY <1>2, <2>1, <2>2, <2>3, <2>4
<1>5. /\ fee'[f].status = fee[f].status /\ fee'[f].amount = fee[f].amount
      /\ fee'[f].received = fee[f].received + a
      /\ fee'[f].receiptStatus = IF fee[f].received + a >= fee[f].amount THEN "RECEIVED" ELSE "PARTIAL"
  BY <1>2, <1>3, PostedFeeRow
<1>6. ASSUME NEW g \in Fees PROVE FeeBooked(g)' /\ FeeMoves(g)
  <2>1. /\ FeeBooked(g) /\ fee[g].amount \in Nat /\ fee[g].received \in Int
        /\ ReservedFor(g) \in Nat /\ Total(MatchAmount, MatchedFor(g)) \in Nat
    BY <1>1, FeeSumsHold DEF FeeSums, FeesInv, FeesOK
  <2>2. CASE g = f
    <3>1. fee'[g].receiptStatus = ReceiptStatus(fee'[g].received, fee'[g].amount)
      BY <1>2, <1>5, <2>1, <2>2 DEF FeeBooked, ReceiptStatus
    <3>2. /\ fee'[g].received = Total(MatchAmount, MatchedFor(g))'
          /\ fee'[g].received + ReservedFor(g)' = fee[g].received + ReservedFor(g)
      BY <1>2, <1>4, <1>5, <2>1, <2>2 DEF FeeBooked
    <3>3. QED
      BY <1>2, <1>5, <2>1, <2>2, <3>1, <3>2 DEF FeeBooked, FeeMoves, FeeKept
  <2>3. CASE g # f
    <3>1. fee'[g] = fee[g] /\ ReservedFor(g)' = ReservedFor(g)
          /\ Total(MatchAmount, MatchedFor(g))' = Total(MatchAmount, MatchedFor(g))
      BY <1>3, <1>4, <2>1, <2>3
    <3>2. QED
      BY <2>1, <3>1 DEF FeeBooked, FeeMoves, FeeKept
  <2>4. QED
    BY <2>2, <2>3
<1>7. \A g \in Fees : fee'[g].status = fee[g].status
  BY <1>3, <1>5
<1>8. ASSUME NEW p \in Requests PROVE RequestRows(p)'
  <2>1. CASE p = q
    BY <1>2, <1>3, <1>5, <2>1 DEF RequestRows, HasRow
  <2>2. CASE p # q
    <3>1. request'[p] = request[p] /\ RequestRows(p)
      BY <1>1, <1>3, <2>2 DEF RowsOK
    <3>2. request[p].status = "APPROVED" => match'[request[p].match] = match[request[p].match]
      BY <1>1, <1>3 DEF AllocationsOK, RequestFits
    <3>3. QED
      BY <1>7, <3>1, <3>2 DEF RequestRows, HasRow
  <2>3. QED
    BY <2>1, <2>2
<1>9. \A n \in Matches : Claimed(n) => Claimed(n)'
  BY <1>1, <1>3 DEF Claimed
<1>10. Claimed(m)'
  BY <1>3 DEF Claimed
<1>11. ASSUME NEW n \in Matches PROVE MatchRows(n)'
  <2>1. CASE n = m
    BY <1>2, <1>3, <1>5, <1>10, <2>1 DEF MatchRows, HasRow
  <2>2. CASE n # m
    BY <1>1, <1>3, <1>7, <1>9, <2>2 DEF RowsOK, MatchRows, HasRow
  <2>3. QED
    BY <2>1, <2>2
<1>12. UnclaimedOnce'
  BY <1>3, <1>9, <1>10 DEF FeesInv, UnclaimedOnce
<1>13. QED
  BY <1>6, <1>8, <1>11, <1>12 DEF FeesGoOn, FeesInv, FeesOK, RowsOK

\* Taking back one match of each receivable, whose amount is either reserved
\* again or free.
LEMMA TakeBackFees ==
    ASSUME BooksInv, BooksInv', FeesInv, NEW r \in Receipts, NEW ms \in SUBSET Matches, TakeBack(r, ms),
           \A m, n \in ms : match[m].fee = match[n].fee => m = n,
           \A f \in Fees : (\A m \in ms : match[m].fee # f) => ReservedFor(f)' = ReservedFor(f),
           \A m \in ms, f \in Fees : match[m].fee = f =>
              ReservedFor(f)' = ReservedFor(f) \/ ReservedFor(f)' = ReservedFor(f) + match[m].amount
    PROVE  \A f \in Fees : FeeBooked(f)' /\ FeeMoves(f) /\ fee'[f].status = fee[f].status
<1>1. TypeOK /\ TypeOK' /\ \A m \in Matches : MatchFits(m)
  BY DEF BooksInv, AllocationsOK
<1>2. /\ \A m \in ms : match[m].status = "LIVE" /\ match'[m].status = "VOIDED"
      /\ \A m \in Matches : match'[m].fee = match[m].fee /\ match'[m].amount = match[m].amount
      /\ \A m \in Matches \ ms : match'[m] = match[m]
  BY <1>1 DEF TakeBack, MatchedOn, TypeOK, MatchRow
<1>3. PICK last \in [{match[m].fee : m \in ms} -> ms] :
         /\ \A f \in DOMAIN last : match[last[f]].fee = f
         /\ fee' = [f \in Fees |-> IF f \in DOMAIN last
                                   THEN UnpostedFee(fee[f], match[last[f]].amount) ELSE fee[f]]
  BY DEF TakeBack
<1>4. SUFFICES ASSUME NEW f \in Fees
               PROVE  FeeBooked(f)' /\ FeeMoves(f) /\ fee'[f].status = fee[f].status
  OBVIOUS
<1>5. /\ FeeBooked(f) /\ fee[f] \in FeeRow /\ fee[f].amount \in Nat /\ fee[f].received \in Int
      /\ ReservedFor(f) \in Nat /\ Total(MatchAmount, MatchedFor(f)) \in Nat
      /\ ReservedFor(f)' \in Nat /\ Total(MatchAmount, MatchedFor(f))' \in Nat
  BY <1>1, FeeSumsHold, FeeSumsNext DEF FeeSums, FeesInv, FeesOK, TypeOK
<1>6. CASE \A m \in ms : match[m].fee # f
  <2>1. fee'[f] = fee[f]
    BY <1>3, <1>6
  <2>2. MatchedFor(f)' = MatchedFor(f) /\ \A m \in MatchedFor(f) : MatchAmount[m] = MatchAmount'[m]
    BY <1>2, <1>6 DEF MatchedFor, MatchAmount
  <2>3. Total(MatchAmount, MatchedFor(f))' = Total(MatchAmount, MatchedFor(f))
    BY <2>2, TotalSame
  <2>4. ReservedFor(f)' = ReservedFor(f)
    BY <1>6
  <2>5. QED
    BY <1>5, <2>1, <2>3, <2>4 DEF FeeBooked, FeeMoves, FeeKept
<1>7. ASSUME NEW m \in ms, match[m].fee = f
      PROVE  FeeBooked(f)' /\ FeeMoves(f) /\ fee'[f].status = fee[f].status
  <2> DEFINE a == match[m].amount
  <2>1. a \in Nat /\ a > 0
    BY <1>1, <1>2 DEF MatchFits, TypeOK, MatchRow
  <2>2. f \in DOMAIN last /\ last[f] = m
    BY <1>3, <1>7
  <2>3. fee'[f] = UnpostedFee(fee[f], a)
    BY <1>3, <2>2
  <2>4. \A n \in Matches \ {m} : match'[n] = match[n] \/ (match[n].fee # f /\ match'[n].fee # f)
    BY <1>2, <1>7
  <2>5. Total(MatchAmount, MatchedFor(f))'
          = Total(MatchAmount, MatchedFor(f)) - PaidFor(m, f) + PaidFor(m, f)'
    BY <1>1, <2>4, MatchedForChange
  <2>6. PaidFor(m, f) = a /\ PaidFor(m, f)' = 0
    BY <1>2, <1>7 DEF PaidFor
  <2> HIDE DEF a
  <2>7. Total(MatchAmount, MatchedFor(f))' = Total(MatchAmount, MatchedFor(f)) - a
    BY <1>5, <2>1, <2>5, <2>6
  <2>8. AtLeastZero(fee[f].received - a) = Total(MatchAmount, MatchedFor(f))'
    BY <1>5, <2>1, <2>7 DEF FeeBooked, AtLeastZero
  <2>9. /\ fee'[f].status = fee[f].status /\ fee'[f].amount = fee[f].amount
        /\ fee'[f].received = Total(MatchAmount, MatchedFor(f))'
        /\ fee'[f].receiptStatus = ReceiptStatus(fee'[f].received, fee'[f].amount)
    BY <1>5, <2>3, <2>8, UnpostedFeeRow
  <2>10. fee'[f].received = fee[f].received - a
    BY <1>5, <2>7, <2>9 DEF FeeBooked
  <2>11. ReservedFor(f)' = ReservedFor(f) \/ ReservedFor(f)' = ReservedFor(f) + a
    BY <1>7 DEF a
  <2>12. FeeBooked(f)'
    BY <1>5, <2>1, <2>9, <2>10, <2>11 DEF FeeBooked
  <2>13. FeeMoves(f)
    BY <1>5, <2>1, <2>9, <2>10, <2>11 DEF FeeMoves, FeeKept
  <2>14. QED
    BY <2>9, <2>12, <2>13
<1>8. QED
  BY <1>6, <1>7

\* The amount of a reversed request goes back from received to reserved.
LEMMA ReverseFees ==
    ASSUME BooksInv, BooksInv', FeesInv, NEW q \in Requests, ReverseRequest(q)
    PROVE  FeesGoOn
<1>0. PICK r, f, a, m : /\ r = request[q].receipt /\ f = request[q].fee
                        /\ a = request[q].amount /\ m = request[q].match
  OBVIOUS
<1>1. /\ TypeOK /\ TypeOK' /\ RowsOK /\ AllocationsOK /\ RequestFits(q) /\ RequestRows(q)
      /\ request[q].status = "APPROVED" /\ TakeBack(r, {m})
  BY <1>0 DEF BooksInv, FeesInv, RowsOK, AllocationsOK, ReverseRequest
<1>2. /\ request'[q].status = "PENDING" /\ request'[q].fee = f /\ request'[q].amount = a
      /\ \A p \in Requests \ {q} : request'[p] = request[p]
  BY <1>0, <1>1 DEF ReverseRequest, TypeOK, RequestRow
<1>3. /\ r \in Receipts /\ m \in Matches /\ HasRow(f) /\ a \in Nat
      /\ match[m].amount = a /\ match[m].fee = f
  BY <1>0, <1>1 DEF RequestFits, RequestRows, TypeOK, RequestRow
<1>4. ASSUME NEW g \in Fees PROVE ReservedFor(g)' = ReservedFor(g) + (IF g = f THEN a ELSE 0)
  <2>1. ReservedFor(g)' = ReservedFor(g) - HeldFor(q, g) + HeldFor(q, g)'
    BY <1>1, <1>2, ReservedForChange
  <2>2. HeldFor(q, g) = 0 /\ HeldFor(q, g)' = (IF g = f THEN a ELSE 0)
    BY <1>1, <1>2 DEF HeldFor
  <2>3. ReservedFor(g) \in Nat
    BY <1>1, FeeSumsHold DEF FeeSums
  <2>4. QED
    BY <1>3, <2>1, <2>2, <2>3
<1>5. \A g \in Fees : FeeBooked(g)' /\ FeeMoves(g) /\ fee'[g].status = fee[g].status
  <2>1. \A g \in Fees : g # f => ReservedFor(g)' = ReservedFor(g)
    BY <1>1, <1>4, FeeSumsHold DEF FeeSums
  <2>2. f \in Fees /\ ReservedFor(f)' = ReservedFor(f) + match[m].amount
    BY <1>3, <1>4 DEF HasRow
  <2>3. \A g \in Fees : (\A n \in {m} : match[n].fee # g) => ReservedFor(g)' = ReservedFor(g)
    BY <1>3, <2>1
  <2>4. \A n \in {m}, g \in Fees : match[n].fee = g =>
           ReservedFor(g)' = ReservedFor(g) \/ ReservedFor(g)' = ReservedFor(g) + match[n].amount
    BY <1>3, <2>2
  <2>5. QED
    BY <1>1, <1>3, <2>3, <2>4, TakeBackFees
<1>6. /\ match'[m].status = "VOIDED"
      /\ \A n \in Matches \ {m} : match'[n] = match[n]
  BY <1>1, <1>3 DEF TakeBack, TypeOK, MatchRow
<1>7. ASSUME NEW p \in Requests PROVE RequestRows(p)'
  <2>1. CASE p = q
    BY <1>2, <1>3, <1>5, <2>1 DEF RequestRows, HasRow
  <2>2. CASE p # q
    <3>1. request'[p] = request[p] /\ RequestRows(p)
      BY <1>1, <1>2, <2>2 DEF RowsOK
    <3>2. request[p].status = "APPROVED" => match'[request[p].match] = match[request[p].match]
      BY <1>0, <1>1, <1>6, <2>2 DEF AllocationsOK, RequestFits, MatchOfOne
    <3>3. QED
      BY <1>5, <3>1, <3>2 DEF RequestRows, HasRow
  <2>3. QED
    BY <2>1, <2>2
<1>8. \A n \in Matches \ {m} : Claimed(n) => Claimed(n)'
  BY <1>0, <1>2 DEF Claimed
<1>9. ASSUME NEW n \in Matches PROVE MatchRows(n)'
  BY <1>1, <1>5, <1>6, <1>8 DEF RowsOK, MatchRows, HasRow
<1>10. UnclaimedOnce'
  BY <1>6, <1>8 DEF FeesInv, UnclaimedOnce
<1>11. QED
  BY <1>5, <1>7, <1>9, <1>10 DEF FeesGoOn, FeesInv, FeesOK, RowsOK

\* Matches without a request are taken back for good.
LEMMA UnmatchFees ==
    ASSUME BooksInv, BooksInv', FeesInv, NEW r \in Receipts, NEW ms \in SUBSET MatchedOn(r), Unmatch(r, ms)
    PROVE  FeesGoOn
<1>1. /\ TypeOK /\ RowsOK /\ AllocationsOK /\ TakeBack(r, ms) /\ request' = request
      /\ ms \in SUBSET Matches /\ \A m \in ms : ~ Claimed(m)
      /\ \A m \in ms : match[m].status = "LIVE" /\ match[m].receipt = r
  BY DEF BooksInv, FeesInv, Unmatch, MatchedOn, Claimed
<1>2. \A m, n \in ms : match[m].fee = match[n].fee => m = n
  BY <1>1 DEF FeesInv, UnclaimedOnce
<1>3. \A f \in Fees : ReservedFor(f)' = ReservedFor(f)
  BY <1>1 DEF ReservedFor, RequestAmount, PendingFor
<1>4. \A f \in Fees : FeeBooked(f)' /\ FeeMoves(f) /\ fee'[f].status = fee[f].status
  BY <1>1, <1>2, <1>3, TakeBackFees
<1>5. /\ \A m \in ms : match'[m].status = "VOIDED"
      /\ \A m \in Matches \ ms : match'[m] = match[m]
  BY <1>1 DEF TakeBack, TypeOK, MatchRow
<1>6. \A m \in Matches : Claimed(m)' <=> Claimed(m)
  BY <1>1 DEF Claimed
<1>7. ASSUME NEW p \in Requests PROVE RequestRows(p)'
  <2>1. RequestRows(p) /\ request'[p] = request[p]
    BY <1>1 DEF RowsOK
  <2>2. request[p].status = "APPROVED" => match'[request[p].match] = match[request[p].match]
    BY <1>1, <1>5 DEF AllocationsOK, RequestFits, Claimed
  <2>3. QED
    BY <1>4, <2>1, <2>2 DEF RequestRows, HasRow
<1>8. ASSUME NEW n \in Matches PROVE MatchRows(n)'
  BY <1>1, <1>4, <1>5, <1>6 DEF RowsOK, MatchRows, HasRow
<1>9. UnclaimedOnce'
  BY <1>5, <1>6 DEF FeesInv, UnclaimedOnce
<1>10. QED
  BY <1>4, <1>7, <1>8, <1>9 DEF FeesGoOn, FeesInv, FeesOK, RowsOK

LEMMA MatchStepFees ==
    ASSUME BooksInv, BooksInv', FeesInv, MatchStep
    PROVE  FeesGoOn
<1>1. ASSUME NEW Q \in SUBSET AbsentRequests, NEW r \in Receipts,
             NEW alloc \in [Q -> {x \in Allocation : x.receipt = r}], Submit(r, alloc)
      PROVE  FeesGoOn
  <2>1. alloc \in [Q -> Allocation]
    OBVIOUS
  <2>2. QED
    BY <1>1, <2>1, SubmitFees
<1>2. QED
  BY <1>1, ReviewFees, ReverseFees, ApproveFees, UnmatchFees DEF MatchStep

-----------------------------------------------------------------------------
(* The invariant.                                                          *)

\* The receivables of the database that an earlier release left behind.
LEMMA MigratedFees ==
    ASSUME BooksInv, NEW L \in SUBSET Legacy, NEW posting \in [L -> Allocation],
           NEW paid \in [Receipts -> Amounts], NEW due \in [Fees -> Amounts],
           NEW owner \in [Receipts -> Accounts],
           LegacyOncePerPair, Migrated(posting, paid, due, owner)
    PROVE  FeesInv
<1> DEFINE received(f) == Total(Posted(posting), PostedFor(posting, f))
           charged     == {posting[m].fee : m \in DOMAIN posting}
<1>1. /\ \A f \in charged : received(f) <= due[f]
      /\ fee = [f \in Fees |->
             IF f \in charged
             THEN [PostedFee(NewFee(due[f]), received(f)) EXCEPT !.audit = "PENDING"] ELSE NoFee]
      /\ match = [m \in Matches |->
             IF m \in DOMAIN posting
             THEN [status |-> "LIVE", receipt |-> posting[m].receipt,
                   fee |-> posting[m].fee, amount |-> posting[m].amount]
             ELSE NoMatch]
      /\ request = [q \in Requests |-> NoRequest]
  BY DEF Migrated
<1>2. ASSUME NEW m \in DOMAIN posting
      PROVE  /\ m \in Matches /\ m \in Legacy
             /\ posting[m].receipt \in Receipts /\ posting[m].fee \in Fees
             /\ posting[m].amount \in Nat /\ posting[m].amount > 0
  <2>1. posting[m] \in Allocation
    OBVIOUS
  <2>2. QED
    BY <2>1, EnteredAmount, ConstantsOK DEF ConstantsOK, Allocation
<1>3. /\ \A q \in Requests : request[q].status = "ABSENT"
      /\ \A m \in DOMAIN posting : /\ match[m].status = "LIVE" /\ match[m].fee = posting[m].fee
                                   /\ match[m].receipt = posting[m].receipt
                                   /\ match[m].amount = posting[m].amount
      /\ \A m \in Matches \ DOMAIN posting : match[m].status = "ABSENT"
  BY <1>1, <1>2 DEF NoMatch, NoRequest
<1>4. ASSUME NEW f \in Fees PROVE FeeBooked(f) /\ (f \in charged => HasRow(f))
  <2>1. PendingFor(f) = {}
    BY <1>3 DEF PendingFor
  <2>2. ReservedFor(f) = 0
    BY <2>1, TotalEmpty DEF ReservedFor
  <2>3. MatchedFor(f) = PostedFor(posting, f)
    BY <1>2, <1>3 DEF MatchedFor, PostedFor
  <2>4. Total(MatchAmount, MatchedFor(f)) = received(f)
    <3>1. \A m \in MatchedFor(f) : MatchAmount[m] = Posted(posting)[m]
      BY <1>2, <1>3, <2>3 DEF PostedFor, MatchAmount, Posted
    <3>2. QED
      BY <2>3, <3>1, TotalSame
  <2>5. /\ Total(MatchAmount, MatchedFor(f)) \in Nat
        /\ IsFiniteSet(MatchedFor(f)) /\ \A m \in MatchedFor(f) : MatchAmount[m] \in Nat
    BY FeeSumsHold DEF FeeSums, BooksInv
  <2>6. CASE f \in charged
    <3>1. due[f] \in Nat /\ due[f] > 0
      BY EnteredAmount
    <3>2. received(f) \in Nat /\ received(f) <= due[f]
      BY <1>1, <2>4, <2>5, <2>6
    <3>3. received(f) > 0
      <4>1. PICK m \in DOMAIN posting : posting[m].fee = f
        BY <2>6
      <4>2. m \in MatchedFor(f) /\ MatchAmount[m] = posting[m].amount
        BY <1>2, <1>3, <4>1 DEF MatchedFor, MatchAmount
      <4>3. MatchAmount[m] <= Total(MatchAmount, MatchedFor(f))
        BY <2>5, <4>2, TotalCovers
      <4>4. QED
        BY <1>2, <2>4, <3>2, <4>2, <4>3
    <3> HIDE DEF received
    <3>4. /\ NewFee(due[f]) \in FeeRow /\ NewFee(due[f]).received = 0
          /\ NewFee(due[f]).amount = due[f] /\ NewFee(due[f]).status = "LIVE"
      <4>1. NewFee(due[f]) \in FeeRow
        BY <3>1, NewFeeType
      <4>2. /\ NewFee(due[f]).received = 0 /\ NewFee(due[f]).amount = due[f]
            /\ NewFee(due[f]).status = "LIVE"
        BY DEF NewFee, NoFee
      <4>3. QED
        BY <4>1, <4>2
    <3>5. PostedFee(NewFee(due[f]), received(f)) \in FeeRow
      BY <3>2, <3>4, FeePostingTypes
    <3>6. fee[f] = [PostedFee(NewFee(due[f]), received(f)) EXCEPT !.audit = "PENDING"]
      BY <1>1, <2>6
    <3>7. /\ fee[f].status = "LIVE" /\ fee[f].amount = due[f] /\ fee[f].received = 0 + received(f)
          /\ fee[f].receiptStatus = IF 0 + received(f) >= due[f] THEN "RECEIVED" ELSE "PARTIAL"
      <4>1. /\ fee[f].status = PostedFee(NewFee(due[f]), received(f)).status
            /\ fee[f].amount = PostedFee(NewFee(due[f]), received(f)).amount
            /\ fee[f].received = PostedFee(NewFee(due[f]), received(f)).received
            /\ fee[f].receiptStatus = PostedFee(NewFee(due[f]), received(f)).receiptStatus
        BY <3>5, <3>6 DEF FeeRow
      <4>2. QED
        BY <3>4, <4>1, PostedFeeRow
    <3>8. QED
      BY <2>2, <2>4, <3>1, <3>2, <3>3, <3>7 DEF FeeBooked, HasRow, ReceiptStatus
  <2>7. CASE f \notin charged
    <3>1. fee[f] = NoFee
      BY <1>1, <2>7
    <3>2. MatchedFor(f) = {}
      BY <2>3, <2>7 DEF PostedFor
    <3>3. Total(MatchAmount, MatchedFor(f)) = 0
      BY <3>2, TotalEmpty
    <3>4. QED
      BY <2>2, <2>7, <3>1, <3>3 DEF FeeBooked, ReceiptStatus, NoFee
  <2>8. QED
    BY <2>6, <2>7
<1>5. \A q \in Requests : RequestRows(q)
  BY <1>3 DEF RequestRows
<1>6. \A m \in Matches : MatchRows(m)
  BY <1>2, <1>3, <1>4 DEF MatchRows
<1>7. UnclaimedOnce
  BY DEF LegacyOncePerPair, UnclaimedOnce
<1>8. QED
  BY <1>4, <1>5, <1>6, <1>7 DEF FeesInv, FeesOK, RowsOK

LEMMA FeesInit == Init /\ LegacyOncePerPair => FeesInv
  BY BooksInit, MigratedFees DEF Init

LEMMA FeesStep == BooksInv /\ BooksInv' /\ FeesInv /\ [Next]_vars => FeesGoOn
<1>1. SUFFICES ASSUME BooksInv, BooksInv', FeesInv, [Next]_vars PROVE FeesGoOn
  OBVIOUS
<1>2. CASE ReceiptStep
  <2>1. UNCHANGED <<request, match>>
    BY <1>1, <1>2, ReceiptStepBooks DEF BooksInv
  <2>2. UNCHANGED fee
    <3>1. ASSUME NEW r \in Receipts, NEW c \in Accounts \cup {None}, NEW a \in Amounts,
                 CreateReceipt(r, c, a) \/ UpdatePendingReceipt(r, c, a)
          PROVE  UNCHANGED fee
      BY <3>1 DEF CreateReceipt, UpdatePendingReceipt
    <3>2. ASSUME NEW r \in Receipts, NEW c \in Accounts, NEW a \in Amounts, UpdateArrivedReceipt(r, c, a)
          PROVE  UNCHANGED fee
      BY <3>2 DEF UpdateArrivedReceipt
    <3>3. ASSUME NEW r \in Receipts,
                 MarkArrived(r) \/ ArchiveReceipt(r) \/ VoidPendingReceipt(r) \/ VoidArrivedReceipt(r)
          PROVE  UNCHANGED fee
      BY <3>3 DEF MarkArrived, ArchiveReceipt, VoidPendingReceipt, VoidArrivedReceipt
    <3>4. QED
      BY <1>2, <3>1, <3>2, <3>3 DEF ReceiptStep
  <2>3. QED
    BY <1>1, <2>1, <2>2, EditedFees DEF FeeEdited
<1>3. CASE UNCHANGED vars
  BY <1>1, <1>3, EditedFees DEF FeeEdited, vars
<1>4. QED
  BY <1>1, <1>2, <1>3, MatchStepFees, FeeStepFees, ShipmentStepFees DEF Next

LEMMA FeesInvariant == LegacyOncePerPair /\ Spec => []FeesInv
<1>1. BooksInv /\ BooksInv' /\ FeesInv /\ [Next]_vars => FeesInv'
  BY FeesStep DEF FeesGoOn
<1>2. QED
  BY <1>1, BooksInvariant, FeesInit, PTL DEF Spec

-----------------------------------------------------------------------------
(* The theorems, for a database of the earlier release with at most one     *)
(* match of each receipt and receivable.                                   *)

\* Whatever the users do, a receivable is never matched or reserved for more
\* than its amount, by however many receipts
\* (prisma.repository.ts, createWaterReceiptMatchRequests to
\* unmatchWaterReceipt).
THEOREM FeeCapacityCorrect == LegacyOncePerPair /\ Spec => []FeeCapacity
<1>1. FeesInv => FeeCapacity
  BY DEF FeesInv, FeesOK, FeeBooked, FeeCapacity
<1>2. QED
  BY <1>1, FeesInvariant, PTL

\* What a receivable has received is the sum of its live matches, and its
\* receipt status says so.  A reversal reads each receivable once and writes it
\* once per match: matches made by approval are taken back one by one, and of
\* the others the premise leaves one for each receipt and receivable.
THEOREM FeeBooksCorrect == LegacyOncePerPair /\ Spec => []FeeBooks
<1>1. FeesInv => FeeBooks
  BY DEF FeesInv, FeesOK, FeeBooked, FeeBooks
<1>2. QED
  BY <1>1, FeesInvariant, PTL

\* An approved request has its live match, and nobody else has the same.
THEOREM ApprovedHasOneMatchCorrect == LegacyOncePerPair /\ Spec => []ApprovedHasOneMatch
<1>1. BooksInv /\ FeesInv => ApprovedHasOneMatch
  <2>1. SUFFICES ASSUME BooksInv, FeesInv PROVE ApprovedHasOneMatch
    OBVIOUS
  <2>2. ASSUME NEW q \in Requests, request[q].status = "APPROVED"
        PROVE  /\ request[q].match # None
               /\ match[request[q].match].status = "LIVE"
               /\ match[request[q].match].receipt = request[q].receipt
               /\ match[request[q].match].fee = request[q].fee
               /\ match[request[q].match].amount = request[q].amount
    BY <2>1, <2>2, ConstantsOK
    DEF BooksInv, AllocationsOK, RequestFits, FeesInv, RowsOK, RequestRows, ConstantsOK
  <2>3. ASSUME NEW m \in Matches \ Legacy, match[m].status = "LIVE"
        PROVE  Cardinality({q \in Requests : request[q].status = "APPROVED" /\ request[q].match = m}) = 1
    <3>1. PICK q \in Requests : request[q].status = "APPROVED" /\ request[q].match = m
      BY <2>1, <2>3 DEF FeesInv, RowsOK, MatchRows, Claimed
    <3>2. {p \in Requests : request[p].status = "APPROVED" /\ request[p].match = m} = {q}
      BY <2>1, <3>1 DEF BooksInv, AllocationsOK, MatchOfOne
    <3>3. QED
      BY <3>2, FS_Singleton
  <2>4. QED
    BY <2>2, <2>3 DEF ApprovedHasOneMatch
<1>2. QED
  BY <1>1, BooksInvariant, FeesInvariant, PTL

\* What still counts points to a receipt that has arrived and to a receivable
\* that has a row, whichever check a concurrent delete has passed before.
THEOREM OpenAllocationsCorrect == LegacyOncePerPair /\ Spec => []OpenAllocationsHaveRows
<1>1. BooksInv /\ AccountsInv /\ FeesInv => OpenAllocationsHaveRows
  <2>1. SUFFICES ASSUME BooksInv, AccountsInv, FeesInv PROVE OpenAllocationsHaveRows
    OBVIOUS
  <2>2. MatchesArrived
    BY <2>1, BooksArriveMatches
  <2>3. ASSUME NEW m \in Matches, match[m].status = "LIVE"
        PROVE  Arrived(match[m].receipt) /\ fee[match[m].fee].status \in {"LIVE", "VOIDED"}
    <3>1. match[m].receipt \in Receipts /\ HasRow(match[m].fee)
      BY <2>1, <2>3 DEF FeesInv, RowsOK, MatchRows
    <3>2. QED
      BY <2>2, <2>3, <3>1 DEF MatchesArrived, Arrived, HasRow
  <2>4. ASSUME NEW q \in Requests, request[q].status \in {"PENDING", "APPROVED"}
        PROVE  Arrived(request[q].receipt) /\ fee[request[q].fee].status \in {"LIVE", "VOIDED"}
    <3>1. HasRow(request[q].fee)
      BY <2>1, <2>4 DEF FeesInv, RowsOK, RequestRows
    <3>2. CASE request[q].status = "PENDING"
      BY <2>1, <3>1, <3>2 DEF AccountsInv, LivesOK, RequestWaits, Matchable, Arrived, HasRow
    <3>3. CASE request[q].status = "APPROVED"
      BY <2>1, <2>3, <3>1, <3>3 DEF BooksInv, AllocationsOK, RequestFits, HasRow
    <3>4. QED
      BY <2>4, <3>2, <3>3
  <2>5. QED
    BY <2>3, <2>4 DEF OpenAllocationsHaveRows
<1>2. QED
  BY <1>1, BooksInvariant, AccountsInvariant, FeesInvariant, PTL

\* What a pending request reserves is still there on both sides when it is
\* reviewed, and its receipt is open and has a customer.
THEOREM PendingCanBeApprovedCorrect == LegacyOncePerPair /\ Spec => []PendingCanBeApproved
<1>1. BooksInv /\ AccountsInv /\ FeesInv => PendingCanBeApproved
  <2>1. SUFFICES ASSUME BooksInv, AccountsInv, FeesInv, NEW q \in Requests, request[q].status = "PENDING",
                        NEW r, r = request[q].receipt, NEW f, f = request[q].fee
                 PROVE  /\ Matchable(r) /\ receipt[r].account # None
                        /\ request[q].amount <= receipt[r].balance
                        /\ request[q].amount <= Unpaid(f)
    BY DEF PendingCanBeApproved
  <2>2. Matchable(r) /\ r \in Receipts /\ request[q].amount <= receipt[r].balance
    BY <2>1, BooksCoverPending DEF AccountsInv, LivesOK, RequestWaits, PendingCovered
  <2>3. receipt[r].account \in Accounts
    BY <2>1, <2>2 DEF AccountsInv, LivesOK, ReceiptStands, Matchable, Arrived
  <2>4. f \in Fees /\ q \in PendingFor(f) /\ RequestAmount[q] = request[q].amount
    BY <2>1 DEF FeesInv, RowsOK, RequestRows, HasRow, PendingFor, RequestAmount
  <2>5. /\ FeeBooked(f) /\ fee[f].amount \in Nat /\ fee[f].received \in Int
        /\ IsFiniteSet(PendingFor(f)) /\ (\A p \in PendingFor(f) : RequestAmount[p] \in Nat)
        /\ ReservedFor(f) \in Nat
    BY <2>1, <2>4, FeeSumsHold DEF FeeSums, FeesInv, FeesOK, BooksInv
  <2>6. RequestAmount[q] <= ReservedFor(f)
    BY <2>4, <2>5, TotalCovers DEF ReservedFor
  <2>7. request[q].amount <= Unpaid(f)
    BY <2>4, <2>5, <2>6 DEF FeeBooked, Unpaid
  <2>8. QED
    BY <2>2, <2>3, <2>7, ConstantsOK DEF ConstantsOK
<1>2. QED
  BY <1>1, BooksInvariant, AccountsInvariant, FeesInvariant, PTL

FeesFrozen ==
    \A f \in Fees : PendingFor(f) \cup MatchedFor(f) # {} =>
        /\ fee'[f].amount = fee[f].amount
        /\ fee'[f].status # "DELETED"

\* A receivable keeps its amount and its row while anything is allocated to it,
\* although deleteReceivableAudit checks before the transaction that deletes.
THEOREM FrozenFeesCorrect == LegacyOncePerPair /\ Spec => OpenAllocationFreezesFee
<1>1. BooksInv /\ BooksInv' /\ FeesInv /\ [Next]_vars => [FeesFrozen]_vars
  <2>1. SUFFICES ASSUME BooksInv, BooksInv', FeesInv, [Next]_vars, NEW f \in Fees,
                        PendingFor(f) \cup MatchedFor(f) # {}
                 PROVE  fee'[f].amount = fee[f].amount /\ fee'[f].status # "DELETED"
    BY DEF FeesFrozen
  <2>2. FeeMoves(f)
    BY <2>1, FeesStep DEF FeesGoOn
  <2>3. fee[f].status \in {"LIVE", "VOIDED"}
    BY <2>1, NoRowNothing DEF FeesInv
  <2>4. QED
    BY <2>1, <2>2, <2>3 DEF FeeMoves, FeeKept
<1>2. LegacyOncePerPair /\ Spec => [][FeesFrozen]_vars
  BY <1>1, BooksInvariant, FeesInvariant, PTL DEF Spec
<1>3. QED
  BY <1>2 DEF OpenAllocationFreezesFee, FeesFrozen

-----------------------------------------------------------------------------
(* Approvals and reversals move amounts of both sides.                     *)

\* What request q reserves on receipt r, and what match m has taken of it.
HeldOn(q, r) == IF request[q].status = "PENDING" /\ request[q].receipt = r THEN request[q].amount ELSE 0
TakenOf(m, r) == IF match[m].status = "LIVE" /\ match[m].receipt = r THEN match[m].amount ELSE 0

LEMMA ReservedOnChange ==
    ASSUME TypeOK, TypeOK', NEW r \in Receipts, NEW q \in Requests,
           \A p \in Requests \ {q} : request'[p] = request[p]
    PROVE  Reserved(r)' = Reserved(r) - HeldOn(q, r) + HeldOn(q, r)'
<1>1. PendingOn(r) \ {q} = PendingOn(r)' \ {q}
  BY DEF PendingOn
<1>2. PendingOn(r) \in SUBSET Requests /\ PendingOn(r)' \in SUBSET Requests
  BY DEF PendingOn
<1>3. /\ IsFiniteSet(PendingOn(r)) /\ \A p \in PendingOn(r) : RequestAmount[p] \in Nat
      /\ IsFiniteSet(PendingOn(r)') /\ \A p \in PendingOn(r)' : RequestAmount'[p] \in Nat
      /\ Reserved(r) \in Nat /\ Reserved(r)' \in Nat
  <2>1. IsFiniteSet(PendingOn(r)')
    BY <1>2, FS_Subset, ConstantsOK DEF ConstantsOK
  <2>2. \A p \in PendingOn(r)' : RequestAmount'[p] \in Nat
    BY <1>2 DEF TypeOK, RequestAmount, RequestRow
  <2>3. QED
    BY <1>2, <2>1, <2>2, RequestTotals, ReservedAfter DEF Reserved
<1>4. \A p \in PendingOn(r) \ {q} : RequestAmount'[p] = RequestAmount[p]
  BY DEF PendingOn, RequestAmount
<1>5. Total(RequestAmount', PendingOn(r)') - (IF q \in PendingOn(r)' THEN RequestAmount'[q] ELSE 0)
        = Total(RequestAmount, PendingOn(r)) - (IF q \in PendingOn(r) THEN RequestAmount[q] ELSE 0)
  BY <1>1, <1>3, <1>4, TotalChange
<1>6. /\ (IF q \in PendingOn(r) THEN RequestAmount[q] ELSE 0) = HeldOn(q, r)
      /\ (IF q \in PendingOn(r)' THEN RequestAmount'[q] ELSE 0) = HeldOn(q, r)'
  BY DEF PendingOn, RequestAmount, HeldOn
<1>7. HeldOn(q, r) \in Nat /\ HeldOn(q, r)' \in Nat
  BY DEF HeldOn, TypeOK, RequestRow
<1>8. Reserved(r)' - HeldOn(q, r)' = Reserved(r) - HeldOn(q, r)
  BY <1>5, <1>6 DEF Reserved
<1>9. QED
  BY <1>3, <1>7, <1>8

LEMMA MatchedOnChange ==
    ASSUME TypeOK, TypeOK', NEW r \in Receipts, NEW m \in Matches,
           \A n \in Matches \ {m} : match'[n] = match[n]
    PROVE  /\ Total(MatchAmount, MatchedOn(r)) \in Nat /\ Total(MatchAmount, MatchedOn(r))' \in Nat
           /\ Total(MatchAmount, MatchedOn(r))'
                = Total(MatchAmount, MatchedOn(r)) - TakenOf(m, r) + TakenOf(m, r)'
<1>1. MatchedOn(r) \ {m} = MatchedOn(r)' \ {m}
  BY DEF MatchedOn
<1>2. MatchedOn(r) \in SUBSET Matches /\ MatchedOn(r)' \in SUBSET Matches
  BY DEF MatchedOn
<1>3. /\ IsFiniteSet(MatchedOn(r)) /\ \A n \in MatchedOn(r) : MatchAmount[n] \in Nat
      /\ IsFiniteSet(MatchedOn(r)') /\ \A n \in MatchedOn(r)' : MatchAmount'[n] \in Nat
  <2>1. IsFiniteSet(MatchedOn(r)')
    BY <1>2, FS_Subset, ConstantsOK DEF ConstantsOK
  <2>2. \A n \in MatchedOn(r)' : MatchAmount'[n] \in Nat
    BY <1>2 DEF TypeOK, MatchAmount, MatchRow
  <2>3. QED
    BY <1>2, <2>1, <2>2, MatchTotals
<1>4. /\ Total(MatchAmount, MatchedOn(r)) \in Nat
      /\ Total(MatchAmount', MatchedOn(r)') \in Nat
  BY <1>3, TotalType
<1>5. \A n \in MatchedOn(r) \ {m} : MatchAmount'[n] = MatchAmount[n]
  BY DEF MatchedOn, MatchAmount
<1>6. Total(MatchAmount', MatchedOn(r)') - (IF m \in MatchedOn(r)' THEN MatchAmount'[m] ELSE 0)
        = Total(MatchAmount, MatchedOn(r)) - (IF m \in MatchedOn(r) THEN MatchAmount[m] ELSE 0)
  BY <1>1, <1>3, <1>5, TotalChange
<1>7. /\ (IF m \in MatchedOn(r) THEN MatchAmount[m] ELSE 0) = TakenOf(m, r)
      /\ (IF m \in MatchedOn(r)' THEN MatchAmount'[m] ELSE 0) = TakenOf(m, r)'
  BY DEF MatchedOn, MatchAmount, TakenOf
<1>8. TakenOf(m, r) \in Nat /\ TakenOf(m, r)' \in Nat
  BY DEF TakenOf, TypeOK, MatchRow
<1>9. QED
  BY <1>4, <1>6, <1>7, <1>8

\* An approval posts on receipt r what its request had reserved there.
LEMMA ApproveTransfers ==
    ASSUME BooksInv, BooksInv', NEW q \in Requests, NEW m \in Matches, ApproveRequest(q, m),
           NEW r \in Receipts
    PROVE  /\ receipt'[r].amount = receipt[r].amount
           /\ receipt'[r].matched + Reserved(r)' = receipt[r].matched + Reserved(r)
<1>1. TypeOK /\ TypeOK' /\ Booked(r) /\ Booked(r)' /\ Reserved(r) \in Nat
  BY ReceiptNumbers DEF BooksInv, ReceiptsOK
<1>2. /\ request[q].status = "PENDING" /\ match[m].status = "ABSENT"
      /\ receipt' = [receipt EXCEPT ![request[q].receipt] = PostedReceipt(@, request[q].amount)]
  BY DEF ApproveRequest
<1>3. /\ request'[q].status = "APPROVED" /\ \A p \in Requests \ {q} : request'[p] = request[p]
      /\ match'[m].status = "LIVE" /\ match'[m].receipt = request[q].receipt
      /\ match'[m].amount = request[q].amount
      /\ \A n \in Matches \ {m} : match'[n] = match[n]
  BY <1>1 DEF ApproveRequest, TypeOK, RequestRow
<1>4. receipt'[r].amount = receipt[r].amount
  <2>1. receipt'[r] \in {receipt[r], PostedReceipt(receipt[r], request[q].amount)}
    BY <1>1, <1>2 DEF TypeOK
  <2>2. receipt[r] \in ReceiptRow
    BY <1>1 DEF TypeOK
  <2>3. QED
    BY <2>1, <2>2, PostedRow
<1>5. HeldOn(q, r)' = 0 /\ TakenOf(m, r) = 0 /\ TakenOf(m, r)' = HeldOn(q, r)
  BY <1>2, <1>3 DEF HeldOn, TakenOf
<1>6. HeldOn(q, r) \in Nat
  BY <1>1 DEF HeldOn, TypeOK, RequestRow
<1>7. /\ Reserved(r)' = Reserved(r) - HeldOn(q, r)
      /\ receipt'[r].matched = receipt[r].matched + HeldOn(q, r)
      /\ receipt[r].matched \in Nat
  BY <1>1, <1>3, <1>5, <1>6, ReservedOnChange, MatchedOnChange DEF Booked
<1>8. QED
  BY <1>1, <1>4, <1>6, <1>7

\* A reversal reserves on receipt r what it takes out of the posted part.
LEMMA ReverseTransfers ==
    ASSUME BooksInv, BooksInv', NEW q \in Requests, ReverseRequest(q), NEW r \in Receipts
    PROVE  /\ receipt'[r].amount = receipt[r].amount
           /\ receipt'[r].matched + Reserved(r)' = receipt[r].matched + Reserved(r)
<1>0. PICK m, o : m = request[q].match /\ o = request[q].receipt
  OBVIOUS
<1>1. TypeOK /\ TypeOK' /\ Booked(r) /\ Booked(r)' /\ Reserved(r) \in Nat /\ RequestFits(q)
  BY ReceiptNumbers DEF BooksInv, ReceiptsOK, AllocationsOK
<1>2. /\ request[q].status = "APPROVED" /\ TakeBack(o, {m})
      /\ m \in Matches /\ match[m].status = "LIVE"
      /\ match[m].amount = request[q].amount /\ match[m].receipt = o
  BY <1>0, <1>1 DEF ReverseRequest, RequestFits
<1>3. /\ request'[q].status = "PENDING" /\ request'[q].receipt = o
      /\ request'[q].amount = request[q].amount
      /\ \A p \in Requests \ {q} : request'[p] = request[p]
  BY <1>0, <1>1 DEF ReverseRequest, TypeOK, RequestRow
<1>4. match'[m].status = "VOIDED" /\ \A n \in Matches \ {m} : match'[n] = match[n]
  BY <1>1, <1>2 DEF TakeBack, TypeOK, MatchRow
<1>5. receipt'[r].amount = receipt[r].amount
  <2>1. receipt'[r] \in {receipt[r], UnpostedReceipt(receipt[r], Total(MatchAmount, {m}))}
    BY <1>1, <1>2 DEF TakeBack, TypeOK
  <2>2. receipt[r] \in ReceiptRow
    BY <1>1 DEF TypeOK
  <2>3. QED
    BY <2>1, <2>2, UnpostedRow
<1>6. HeldOn(q, r) = 0 /\ TakenOf(m, r)' = 0 /\ HeldOn(q, r)' = TakenOf(m, r)
  BY <1>2, <1>3, <1>4 DEF HeldOn, TakenOf
<1>7. TakenOf(m, r) \in Nat
  BY <1>1, <1>2 DEF TakenOf, TypeOK, MatchRow
<1>8. /\ Reserved(r)' = Reserved(r) + TakenOf(m, r)
      /\ receipt'[r].matched = receipt[r].matched - TakenOf(m, r)
      /\ receipt[r].matched \in Nat
  BY <1>1, <1>2, <1>3, <1>4, <1>6, <1>7, ReservedOnChange, MatchedOnChange DEF Booked
<1>9. QED
  BY <1>1, <1>5, <1>7, <1>8

\* The same of receivable f.
LEMMA ReverseFeeTransfers ==
    ASSUME BooksInv, BooksInv', FeesInv, FeesInv', NEW q \in Requests, ReverseRequest(q), NEW f \in Fees
    PROVE  /\ fee'[f].amount = fee[f].amount
           /\ fee'[f].received + ReservedFor(f)' = fee[f].received + ReservedFor(f)
<1>0. PICK m, o : m = request[q].match /\ o = request[q].receipt
  OBVIOUS
<1>1. /\ TypeOK /\ TypeOK' /\ FeeBooked(f) /\ FeeBooked(f)' /\ ReservedFor(f) \in Nat
      /\ fee[f] \in FeeRow /\ fee[f].received \in Int
      /\ RequestFits(q) /\ RequestRows(q)
  BY FeeSumsHold DEF BooksInv, AllocationsOK, FeesInv, FeesOK, RowsOK, FeeSums, TypeOK
<1>2. /\ request[q].status = "APPROVED" /\ TakeBack(o, {m})
      /\ m \in Matches /\ match[m].status = "LIVE"
      /\ match[m].amount = request[q].amount /\ match[m].fee = request[q].fee
  BY <1>0, <1>1 DEF ReverseRequest, RequestFits, RequestRows
<1>3. /\ request'[q].status = "PENDING" /\ request'[q].fee = request[q].fee
      /\ request'[q].amount = request[q].amount
      /\ \A p \in Requests \ {q} : request'[p] = request[p]
  BY <1>0, <1>1 DEF ReverseRequest, TypeOK, RequestRow
<1>4. match'[m].status = "VOIDED" /\ \A n \in Matches \ {m} : match'[n] = match[n]
  BY <1>1, <1>2 DEF TakeBack, TypeOK, MatchRow
<1>5. fee'[f].amount = fee[f].amount
  <2>1. \E a : fee'[f] = fee[f] \/ fee'[f] = UnpostedFee(fee[f], a)
    BY <1>2 DEF TakeBack
  <2>2. QED
    BY <1>1, <2>1, UnpostedFeeRow
<1>6. HeldFor(q, f) = 0 /\ PaidFor(m, f)' = 0 /\ HeldFor(q, f)' = PaidFor(m, f)
  BY <1>2, <1>3, <1>4 DEF HeldFor, PaidFor
<1>7. PaidFor(m, f) \in Nat
  BY <1>1, <1>2 DEF PaidFor, TypeOK, MatchRow
<1>8. ReservedFor(f)' = ReservedFor(f) - HeldFor(q, f) + HeldFor(q, f)'
  BY <1>1, <1>3, ReservedForChange
<1>9. Total(MatchAmount, MatchedFor(f))'
        = Total(MatchAmount, MatchedFor(f)) - PaidFor(m, f) + PaidFor(m, f)'
  BY <1>1, <1>2, <1>4, MatchedForChange
<1>10. fee'[f].received = fee[f].received - PaidFor(m, f) + PaidFor(m, f)'
  BY <1>1, <1>9 DEF FeeBooked
<1>11. QED
  BY <1>1, <1>5, <1>6, <1>7, <1>8, <1>10

\* Nothing but its reversal makes an approved request pending again.
LEMMA OnlyReversalReopens ==
    ASSUME BooksInv, Next, NEW q \in Requests,
           request[q].status = "APPROVED", request'[q].status = "PENDING"
    PROVE  ReverseRequest(q)
<1>1. TypeOK /\ ReceiptsOK
  BY DEF BooksInv
<1>2. request' # request
  OBVIOUS
<1>3. ASSUME NEW Q \in SUBSET AbsentRequests, NEW alloc \in [Q -> Allocation], request' = WithRequests(alloc)
      PROVE  FALSE
  BY <1>3 DEF WithRequests, AbsentRequests
<1>4. CASE ReceiptStep
  BY <1>1, <1>2, <1>4, ReceiptStepBooks
<1>5. CASE FeeStep
  BY <1>2, <1>5, FeeStepKeeps
<1>6. CASE ShipmentStep
  <2>1. ASSUME NEW s \in Shipments, NEW c \in Accounts,
               NEW F \in SUBSET {f \in Fees \ SystemFees : fee[f].status = "ABSENT"},
               NEW new \in [F -> Amounts], NEW Q \in SUBSET AbsentRequests,
               NEW alloc \in [Q -> {x \in Allocation : x.fee \in F}],
               OrderEntry(s, c, new, alloc)
        PROVE  FALSE
    <3>1. alloc \in [Q -> Allocation] /\ request' = WithRequests(alloc)
      BY <2>1 DEF OrderEntry
    <3>2. QED
      BY <1>3, <3>1
  <2>2. \/ UNCHANGED request
        \/ \E s \in Shipments, c \in Accounts,
              F \in SUBSET {f \in Fees \ SystemFees : fee[f].status = "ABSENT"} :
              \E new \in [F -> Amounts], Q \in SUBSET AbsentRequests :
              \E alloc \in [Q -> {x \in Allocation : x.fee \in F}] : OrderEntry(s, c, new, alloc)
    BY <1>6 DEF ShipmentStep, RegenerateFees, ReassignShipment, DeleteShipment
  <2>3. QED
    BY <1>2, <2>1, <2>2
<1>7. CASE MatchStep
  <2>1. ASSUME NEW Q \in SUBSET AbsentRequests, NEW r \in Receipts,
               NEW alloc \in [Q -> {x \in Allocation : x.receipt = r}], Submit(r, alloc)
        PROVE  FALSE
    <3>1. alloc \in [Q -> Allocation] /\ request' = WithRequests(alloc)
      BY <2>1 DEF Submit
    <3>2. QED
      BY <1>3, <3>1
  <2>2. ASSUME NEW p \in Requests, NEW a \in Amounts, UpdateRequest(p, a) PROVE FALSE
    BY <1>1, <2>2 DEF UpdateRequest, TypeOK
  <2>3. ASSUME NEW p \in Requests, DeleteRequest(p) \/ RejectRequest(p) PROVE FALSE
    BY <1>1, <2>3 DEF DeleteRequest, RejectRequest, CloseRequest, TypeOK
  <2>4. ASSUME NEW p \in Requests, ReverseRequest(p) PROVE p = q
    BY <1>1, <2>4 DEF ReverseRequest, TypeOK
  <2>5. ASSUME NEW p \in Requests, NEW m \in Matches, ApproveRequest(p, m) PROVE FALSE
    BY <1>1, <2>5 DEF ApproveRequest, TypeOK
  <2>6. ASSUME NEW r \in Receipts, NEW ms \in SUBSET MatchedOn(r), Unmatch(r, ms) PROVE FALSE
    BY <1>2, <2>6 DEF Unmatch
  <2>7. QED
    BY <1>7, <2>1, <2>2, <2>3, <2>4, <2>5, <2>6 DEF MatchStep
<1>8. QED
  BY <1>4, <1>5, <1>6, <1>7 DEF Next

ReversalReserves ==
    \A q \in Requests :
        request[q].status = "APPROVED" /\ request'[q].status = "PENDING" =>
           LET r == request[q].receipt
               f == request[q].fee
           IN
           /\ receipt'[r].balance - Reserved(r)' = receipt[r].balance - Reserved(r)
           /\ Unpaid(f)' - ReservedFor(f)' = Unpaid(f) - ReservedFor(f)

\* A reversal reserves at once what it takes back (reverseReceivableMatchRequest):
\* on neither side can anyone else be given it before the request is reviewed.
THEOREM ReversalReservesCorrect == LegacyOncePerPair /\ Spec => ReversalReservesCapacity
<1>1. BooksInv /\ BooksInv' /\ FeesInv /\ FeesInv' /\ [Next]_vars => [ReversalReserves]_vars
  <2>1. SUFFICES ASSUME BooksInv, BooksInv', FeesInv, FeesInv', Next, NEW q \in Requests,
                        request[q].status = "APPROVED", request'[q].status = "PENDING"
                 PROVE  LET r == request[q].receipt
                            f == request[q].fee
                        IN
                        /\ receipt'[r].balance - Reserved(r)' = receipt[r].balance - Reserved(r)
                        /\ Unpaid(f)' - ReservedFor(f)' = Unpaid(f) - ReservedFor(f)
    BY DEF ReversalReserves
  <2>2. PICK r, f : r = request[q].receipt /\ f = request[q].fee
    OBVIOUS
  <2>3. ReverseRequest(q)
    BY <2>1, OnlyReversalReopens
  <2>4. r \in Receipts /\ f \in Fees
    BY <2>1, <2>2 DEF BooksInv, AllocationsOK, RequestFits, FeesInv, RowsOK, RequestRows, HasRow
  <2>5. request'[q].receipt = r /\ request'[q].fee = f
    BY <2>1, <2>2, <2>3 DEF ReverseRequest, BooksInv, TypeOK, RequestRow
  <2>6. receipt'[r].balance - Reserved(r)' = receipt[r].balance - Reserved(r)
    <3>1. /\ receipt'[r].amount = receipt[r].amount
          /\ receipt'[r].matched + Reserved(r)' = receipt[r].matched + Reserved(r)
      BY <2>1, <2>3, <2>4, ReverseTransfers
    <3>2. /\ receipt[r].balance = receipt[r].amount - receipt[r].matched
          /\ receipt'[r].balance = receipt'[r].amount - receipt'[r].matched
      BY <2>1, <2>4 DEF BooksInv, ReceiptsOK, Booked
    <3>3. /\ receipt[r].amount \in Nat /\ receipt[r].matched \in Int /\ Reserved(r) \in Nat
          /\ receipt'[r].matched \in Int /\ Reserved(r)' \in Nat
      BY <2>1, <2>4, ReceiptNumbers, ReservedAfter DEF BooksInv, TypeOK, ReceiptRow
    <3>4. QED
      BY <3>1, <3>2, <3>3
  <2>7. Unpaid(f)' - ReservedFor(f)' = Unpaid(f) - ReservedFor(f)
    <3>1. /\ fee'[f].amount = fee[f].amount
          /\ fee'[f].received + ReservedFor(f)' = fee[f].received + ReservedFor(f)
      BY <2>1, <2>3, <2>4, ReverseFeeTransfers
    <3>2. /\ fee[f].amount \in Nat /\ fee[f].received \in Int /\ ReservedFor(f) \in Nat
          /\ fee'[f].received \in Int /\ ReservedFor(f)' \in Nat
      BY <2>1, <2>4, FeeSumsHold, FeeSumsNext DEF BooksInv, FeeSums
    <3>3. QED
      BY <3>1, <3>2 DEF Unpaid
  <2>8. /\ Reserved(request[q].receipt)' = Reserved(r)'
        /\ ReservedFor(request[q].fee)' = ReservedFor(f)' /\ Unpaid(request[q].fee)' = Unpaid(f)'
    BY <2>5 DEF Reserved, ReservedFor, Unpaid, PendingOn, PendingFor
  <2>9. QED
    BY <2>2, <2>6, <2>7, <2>8
<1>2. LegacyOncePerPair /\ Spec => [][ReversalReserves]_vars
  BY <1>1, BooksInvariant, FeesInvariant, PTL DEF Spec
<1>3. QED
  BY <1>2 DEF ReversalReservesCapacity, ReversalReserves

-----------------------------------------------------------------------------
(* Receipts and receivables are budgets.                                   *)

\* What a step does to receipt r, as FeeMoves says it of a receivable.
ReceiptMoves(r) ==
    LET row == receipt[r]
        new == receipt'[r]
    IN
    \/ new.amount = row.amount /\ new.matched = row.matched
    \/ new.amount = row.amount /\ new.matched + Reserved(r)' = row.matched + Reserved(r)
    \/ new.amount = row.amount /\ new.matched < row.matched /\ Reserved(r)' = Reserved(r)
    \/ Reserved(r) = 0 /\ row.matched = 0 /\ new.matched = 0

\* A receipt is entered and edited while nothing counts for it.
LEMMA ReceiptStepMoves ==
    ASSUME BooksInv, AccountsInv, ReceiptStep, NEW r \in Receipts
    PROVE  ReceiptMoves(r)
<1>1. /\ TypeOK /\ Booked(r) /\ StatusFits(r) /\ LivesOK /\ Reserved(r) \in Nat
      /\ receipt[r].amount \in Nat /\ receipt[r].matched \in Int
  BY ReceiptNumbers DEF BooksInv, ReceiptsOK, AccountsInv
<1>2. receipt[r].status \in {"ABSENT", "PENDING"} =>
         Reserved(r) = 0 /\ receipt[r].matched = 0
  <2>1. SUFFICES ASSUME receipt[r].status \in {"ABSENT", "PENDING"}
                 PROVE  Reserved(r) = 0 /\ receipt[r].matched = 0
    OBVIOUS
  <2>2. PendingOn(r) = {}
    BY <1>1, <2>1, NobodyWaits DEF Matchable
  <2>3. Reserved(r) = 0
    BY <2>2, TotalEmpty DEF Reserved
  <2>4. receipt[r].matched = 0
    <3>1. receipt[r].status = "ABSENT" => receipt[r].matched = 0
      <4>1. Total(MatchAmount, MatchedOn(r)) \in Nat
        BY <1>1, ReceiptNumbers
      <4>2. QED
        BY <1>1, <4>1 DEF Booked
    <3>2. QED
      BY <1>1, <2>1, <3>1 DEF StatusFits
  <2>5. QED
    BY <2>3, <2>4
<1>3. ASSUME NEW x \in Receipts, NEW c \in Accounts \cup {None}, NEW a \in Amounts, CreateReceipt(x, c, a)
      PROVE  ReceiptMoves(r)
  <2>1. CASE x = r
    <3>1. receipt[r].status = "ABSENT" /\ receipt'[r].matched = 0
      BY <1>1, <1>3, <2>1 DEF CreateReceipt, NoReceipt, TypeOK
    <3>2. QED
      BY <1>2, <3>1 DEF ReceiptMoves
  <2>2. CASE x # r
    BY <1>1, <1>3, <2>2 DEF CreateReceipt, TypeOK, ReceiptMoves
  <2>3. QED
    BY <2>1, <2>2
<1>4. ASSUME NEW x \in Receipts, NEW c \in Accounts \cup {None}, NEW a \in Amounts,
             UpdatePendingReceipt(x, c, a)
      PROVE  ReceiptMoves(r)
  <2>1. CASE x = r
    <3>1. receipt[r].status = "PENDING" /\ receipt'[r].matched = receipt[r].matched
      BY <1>1, <1>4, <2>1 DEF UpdatePendingReceipt, TypeOK, ReceiptRow
    <3>2. QED
      BY <1>2, <3>1 DEF ReceiptMoves
  <2>2. CASE x # r
    BY <1>1, <1>4, <2>2 DEF UpdatePendingReceipt, TypeOK, ReceiptMoves
  <2>3. QED
    BY <2>1, <2>2
<1>5. ASSUME NEW x \in Receipts, NEW c \in Accounts, NEW a \in Amounts, UpdateArrivedReceipt(x, c, a)
      PROVE  ReceiptMoves(r)
  <2>1. CASE x = r
    <3>1. MatchedOn(r) = {} /\ Reserved(r) = 0
      BY <1>5, <2>1 DEF UpdateArrivedReceipt
    <3>2. receipt[r].matched = 0
      BY <1>1, <3>1, TotalEmpty DEF Booked
    <3>3. receipt'[r].matched = receipt[r].matched
      BY <1>1, <1>5, <2>1 DEF UpdateArrivedReceipt, TypeOK, ReceiptRow
    <3>4. QED
      BY <3>1, <3>2, <3>3 DEF ReceiptMoves
  <2>2. CASE x # r
    BY <1>1, <1>5, <2>2 DEF UpdateArrivedReceipt, TypeOK, ReceiptMoves
  <2>3. QED
    BY <2>1, <2>2
<1>6. ASSUME NEW x \in Receipts,
             MarkArrived(x) \/ ArchiveReceipt(x) \/ VoidPendingReceipt(x) \/ VoidArrivedReceipt(x)
      PROVE  ReceiptMoves(r)
  <2>1. receipt[r] \in ReceiptRow
    BY <1>1 DEF TypeOK
  <2>2. \E s : receipt' = [receipt EXCEPT ![x].status = s]
    BY <1>6 DEF MarkArrived, ArchiveReceipt, VoidPendingReceipt, VoidArrivedReceipt
  <2>3. receipt'[r].amount = receipt[r].amount /\ receipt'[r].matched = receipt[r].matched
    BY <1>1, <2>1, <2>2 DEF TypeOK, ReceiptRow
  <2>4. QED
    BY <2>3 DEF ReceiptMoves
<1>7. QED
  BY <1>3, <1>4, <1>5, <1>6 DEF ReceiptStep

\* Matches without a request are withdrawn for good.
LEMMA UnmatchMoves ==
    ASSUME BooksInv, NEW x \in Receipts, NEW ms \in SUBSET MatchedOn(x), Unmatch(x, ms),
           NEW r \in Receipts
    PROVE  ReceiptMoves(r)
<1>1. TypeOK /\ TakeBack(x, ms) /\ request' = request /\ ms # {}
  BY DEF BooksInv, Unmatch, TakeBack
<1>2. Reserved(r)' = Reserved(r)
  BY <1>1 DEF Reserved, RequestAmount, PendingOn
<1>3. CASE x # r
  BY <1>1, <1>3 DEF TakeBack, TypeOK, ReceiptMoves
<1>4. CASE x = r
  <2>1. PICK m \in ms : TRUE
    BY <1>1
  <2>2. ms \in SUBSET Matches /\ m \in Matches /\ match[m].status = "LIVE" /\ match[m].receipt = r
    BY <1>4, <2>1 DEF MatchedOn
  <2>3. MatchAmount[m] \in Nat /\ MatchAmount[m] > 0
    BY <1>1, <2>2 DEF BooksInv, AllocationsOK, MatchFits, MatchAmount, TypeOK, MatchRow
  <2>4. /\ MatchAmount[m] <= Total(MatchAmount, ms)
        /\ Total(MatchAmount, ms) \in Nat
    BY <1>1, <2>1, <2>2, MatchTotals, TotalCovers
  <2>5. receipt[r].matched > 0
    BY <2>2, BooksArriveMatches DEF MatchesArrived
  <2>6. /\ receipt[r] \in ReceiptRow /\ receipt[r].matched \in Int
        /\ receipt'[r] = UnpostedReceipt(receipt[r], Total(MatchAmount, ms))
    BY <1>1, <1>4, ReceiptNumbers DEF TakeBack, TypeOK
  <2>7. /\ receipt'[r].amount = receipt[r].amount
        /\ receipt'[r].matched = AtLeastZero(receipt[r].matched - Total(MatchAmount, ms))
    BY <2>6, UnpostedRow
  <2>8. receipt'[r].matched < receipt[r].matched
    BY <2>3, <2>4, <2>5, <2>6, <2>7 DEF AtLeastZero
  <2>9. QED
    BY <1>2, <2>7, <2>8 DEF ReceiptMoves
<1>5. QED
  BY <1>3, <1>4

LEMMA ReceiptsMove ==
    BooksInv /\ BooksInv' /\ AccountsInv /\ [Next]_vars => \A r \in Receipts : ReceiptMoves(r)
<1>1. SUFFICES ASSUME BooksInv, BooksInv', AccountsInv, [Next]_vars, NEW r \in Receipts
               PROVE  ReceiptMoves(r)
  OBVIOUS
<1>2. CASE receipt' = receipt
  BY <1>2 DEF ReceiptMoves
<1>3. CASE ReceiptStep
  BY <1>1, <1>3, ReceiptStepMoves
<1>4. CASE MatchStep
  <2>1. ASSUME NEW q \in Requests, NEW m \in Matches, ApproveRequest(q, m) PROVE ReceiptMoves(r)
    BY <1>1, <2>1, ApproveTransfers DEF ReceiptMoves
  <2>2. ASSUME NEW q \in Requests, ReverseRequest(q) PROVE ReceiptMoves(r)
    BY <1>1, <2>2, ReverseTransfers DEF ReceiptMoves
  <2>3. ASSUME NEW x \in Receipts, NEW ms \in SUBSET MatchedOn(x), Unmatch(x, ms) PROVE ReceiptMoves(r)
    BY <1>1, <2>3, UnmatchMoves
  <2>4. ASSUME NEW Q \in SUBSET AbsentRequests, NEW x \in Receipts,
               NEW alloc \in [Q -> {y \in Allocation : y.receipt = x}], Submit(x, alloc)
        PROVE  receipt' = receipt
    BY <2>4 DEF Submit
  <2>5. ASSUME NEW q \in Requests, NEW a \in Amounts, UpdateRequest(q, a)
        PROVE  receipt' = receipt
    BY <2>5 DEF UpdateRequest
  <2>6. ASSUME NEW q \in Requests, DeleteRequest(q) \/ RejectRequest(q) PROVE receipt' = receipt
    BY <2>6 DEF DeleteRequest, RejectRequest, CloseRequest
  <2>7. QED
    BY <1>2, <1>4, <2>1, <2>2, <2>3, <2>4, <2>5, <2>6 DEF MatchStep
<1>5. CASE FeeStep
  BY <1>2, <1>5, FeeStepKeeps
<1>6. CASE ShipmentStep
  BY <1>2, <1>6 DEF ShipmentStep, RegenerateFees, OrderEntry, ReassignShipment, DeleteShipment
<1>7. CASE UNCHANGED vars
  BY <1>2, <1>7 DEF vars
<1>8. QED
  BY <1>1, <1>3, <1>4, <1>5, <1>6, <1>7 DEF Next

\* What a receipt has matched and a receivable received is not negative.
LEMMA ReceiptBudgetTypes == BooksInv => ReceiptBudget!TypeOK
<1>1. SUFFICES ASSUME BooksInv, NEW r \in Receipts
               PROVE  receipt[r].amount \in Nat /\ Reserved(r) \in Nat /\ receipt[r].matched \in Nat
  BY DEF ReceiptBudget!TypeOK
<1>2. QED
  BY <1>1, ReceiptNumbers DEF BooksInv, ReceiptsOK, Booked

LEMMA FeeBudgetTypes == BooksInv /\ FeesInv => FeeBudget!TypeOK
<1>1. SUFFICES ASSUME BooksInv, FeesInv, NEW f \in Fees
               PROVE  fee[f].amount \in Nat /\ ReservedFor(f) \in Nat /\ fee[f].received \in Nat
  BY DEF FeeBudget!TypeOK
<1>2. QED
  BY <1>1, FeeSumsHold DEF BooksInv, FeeSums, FeesInv, FeesOK, FeeBooked

\* Whatever a call does, it reserves, transfers, withdraws or resizes each
\* receipt, and never two of these at once: the books of a receipt are a budget.
THEOREM ReceiptsAreBudgetsCorrect == Spec => ReceiptsAreBudgets
<1>1. BooksInv => ReceiptBudget!Init
  <2>1. SUFFICES ASSUME BooksInv, NEW r \in Receipts
                 PROVE  Reserved(r) + receipt[r].matched <= receipt[r].amount
    BY ReceiptBudgetTypes DEF ReceiptBudget!Init, ReceiptBudget!Covered
  <2>2. QED
    BY <2>1, ReceiptNumbers DEF BooksInv, ReceiptsOK, Booked
<1>2. BooksInv' => ReceiptBudget!TypeOK'
  BY ReceiptBudgetTypes, PTL
<1>3. BooksInv /\ BooksInv' /\ AccountsInv /\ [Next]_vars => ReceiptBudget!Next
  <2>1. SUFFICES ASSUME BooksInv, BooksInv', AccountsInv, [Next]_vars, NEW r \in Receipts
                 PROVE  ReceiptBudget!Step(r)
    BY <1>2 DEF ReceiptBudget!Next
  <2>2. ReceiptMoves(r)
    BY <2>1, ReceiptsMove
  <2>3. /\ receipt[r].amount \in Nat /\ receipt[r].matched \in Int /\ Reserved(r) \in Nat
        /\ receipt'[r].amount \in Nat /\ receipt'[r].matched \in Int /\ Reserved(r)' \in Nat
    BY <2>1, ReceiptNumbers, ReservedAfter DEF BooksInv, TypeOK, ReceiptRow
  <2>4. Reserved(r)' + receipt'[r].matched <= receipt'[r].amount
    BY <2>1, <2>3 DEF BooksInv, ReceiptsOK, Booked
  <2>5. QED
    BY <2>2, <2>3, <2>4
    DEF ReceiptMoves, ReceiptBudget!Step, ReceiptBudget!Reserve, ReceiptBudget!Transfer,
        ReceiptBudget!Withdraw, ReceiptBudget!Resize
<1>4. QED
  BY <1>1, <1>3, BooksInvariant, AccountsInvariant, PTL DEF Spec, ReceiptsAreBudgets, ReceiptBudget!Spec

\* The same of each receivable, over all the receipts that pay for it.
THEOREM FeesAreBudgetsCorrect == LegacyOncePerPair /\ Spec => FeesAreBudgets
<1>1. BooksInv /\ FeesInv => FeeBudget!Init
  <2>1. SUFFICES ASSUME BooksInv, FeesInv, NEW f \in Fees
                 PROVE  ReservedFor(f) + fee[f].received <= fee[f].amount
    BY FeeBudgetTypes DEF FeeBudget!Init, FeeBudget!Covered
  <2>2. QED
    BY <2>1, FeeSumsHold DEF BooksInv, FeeSums, FeesInv, FeesOK, FeeBooked
<1>2. BooksInv' /\ FeesInv' => FeeBudget!TypeOK'
  BY FeeBudgetTypes, PTL
<1>3. BooksInv /\ BooksInv' /\ FeesInv /\ [Next]_vars => FeeBudget!Next
  <2>1. SUFFICES ASSUME BooksInv, BooksInv', FeesInv, FeesInv', \A g \in Fees : FeeMoves(g),
                        NEW f \in Fees
                 PROVE  FeeBudget!Step(f)
    BY <1>2, FeesStep DEF FeeBudget!Next, FeesGoOn
  <2>2. /\ fee[f].amount \in Nat /\ fee[f].received \in Int /\ ReservedFor(f) \in Nat
        /\ fee'[f].amount \in Nat /\ fee'[f].received \in Int /\ ReservedFor(f)' \in Nat
    BY <2>1, FeeSumsHold, FeeSumsNext DEF BooksInv, FeeSums
  <2>3. ReservedFor(f)' + fee'[f].received <= fee'[f].amount
    BY <2>1, <2>2 DEF FeesInv, FeesOK, FeeBooked
  <2>4. PendingFor(f) = {} /\ MatchedFor(f) = {} => ReservedFor(f) = 0 /\ fee[f].received = 0
    BY <2>1, NothingFor DEF FeesInv, FeesOK, FeeBooked
  <2>5. FeeMoves(f)
    BY <2>1
  <2>6. QED
    BY <2>2, <2>3, <2>4, <2>5
    DEF FeeMoves, FeeKept, FeeBudget!Step, FeeBudget!Reserve, FeeBudget!Transfer,
        FeeBudget!Withdraw, FeeBudget!Resize
<1>4. QED
  BY <1>1, <1>3, BooksInvariant, FeesInvariant, PTL DEF Spec, FeesAreBudgets, FeeBudget!Spec
=============================================================================
