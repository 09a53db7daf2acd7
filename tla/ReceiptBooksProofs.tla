------------------------- MODULE ReceiptBooksProofs -------------------------
(***************************************************************************)
(* No money of a water receipt is promised twice, its books and the        *)
(* accounts and ledger of its customers are right, and what is closed      *)
(* stays closed, for any number of receipts, receivables, requests,        *)
(* matches and payments.                                                   *)
(***************************************************************************)
EXTENDS WaterReceiptsProofs

\* The books of receipt r, and that its pending requests fit in.
Booked(r) ==
    /\ receipt[r].matched = Total(MatchAmount, MatchedOn(r))
    /\ receipt[r].balance = receipt[r].amount - receipt[r].matched
    /\ Reserved(r) <= receipt[r].balance
    /\ receipt[r].status = "ABSENT" => receipt[r].amount = 0

\* What its status says.
StatusFits(r) ==
    /\ receipt[r].status = "ARCHIVED" => receipt[r].balance = 0
    /\ receipt[r].status = "PARTIAL_MATCHED" =>
          receipt[r].matched > 0 /\ receipt[r].balance > 0
    /\ receipt[r].status \in {"PENDING", "ARRIVED", "VOIDED"} => receipt[r].matched = 0

\* What a reversal relies on: an approved request is what its match says, and
\* no two have the same.
RequestFits(q) ==
    /\ request[q].status \in {"PENDING", "APPROVED"} =>
          request[q].receipt \in Receipts /\ request[q].amount > 0
    /\ request[q].status = "APPROVED" =>
          /\ request[q].match \in Matches
          /\ match[request[q].match].status = "LIVE"
          /\ match[request[q].match].amount = request[q].amount
          /\ match[request[q].match].receipt = request[q].receipt

MatchOfOne ==
    \A p, q \in Requests :
        request[p].status = "APPROVED" /\ request[q].status = "APPROVED"
          /\ request[p].match = request[q].match => p = q

MatchFits(m) == match[m].status = "LIVE" => match[m].amount > 0

ReceiptsOK    == \A r \in Receipts : Booked(r) /\ StatusFits(r)
AllocationsOK == /\ \A q \in Requests : RequestFits(q)
                 /\ \A m \in Matches : MatchFits(m)
                 /\ MatchOfOne

-----------------------------------------------------------------------------
(* Sums over requests and matches.                                         *)

\* Sums of requests are amounts ...
LEMMA RequestTotals ==
    ASSUME TypeOK, NEW S \in SUBSET Requests
    PROVE  /\ IsFiniteSet(S)
           /\ \A q \in S : RequestAmount[q] \in Nat
           /\ Total(RequestAmount, S) \in Nat
<1>1. IsFiniteSet(S)
  BY FS_Subset, ConstantsOK DEF ConstantsOK
<1>2. QED
  BY <1>1, AmountTypes, TotalType

\* ... and so are sums of matches.
LEMMA MatchTotals ==
    ASSUME TypeOK, NEW S \in SUBSET Matches
    PROVE  /\ IsFiniteSet(S)
           /\ \A m \in S : MatchAmount[m] \in Nat
           /\ Total(MatchAmount, S) \in Nat
<1>1. IsFiniteSet(S)
  BY FS_Subset, ConstantsOK DEF ConstantsOK
<1>2. QED
  BY <1>1, AmountTypes, TotalType

\* What users enter is more than nothing.
LEMMA EnteredAmount ==
    ASSUME NEW a \in Amounts
    PROVE  a \in Nat /\ a > 0
  BY ConstantsOK DEF ConstantsOK

\* The numbers of a receipt's books.
LEMMA ReceiptNumbers ==
    ASSUME TypeOK, NEW r \in Receipts
    PROVE  /\ receipt[r].amount \in Nat
           /\ receipt[r].matched \in Int
           /\ receipt[r].balance \in Int
           /\ Reserved(r) \in Nat
           /\ Total(MatchAmount, MatchedOn(r)) \in Nat
<1>1. PendingOn(r) \in SUBSET Requests /\ MatchedOn(r) \in SUBSET Matches
  BY DEF PendingOn, MatchedOn
<1>2. Reserved(r) \in Nat /\ Total(MatchAmount, MatchedOn(r)) \in Nat
  BY <1>1, RequestTotals, MatchTotals DEF Reserved
<1>3. QED
  BY <1>2 DEF TypeOK, ReceiptRow

\* The same of what is reserved after a step.
LEMMA ReservedAfter ==
    ASSUME TypeOK', NEW r
    PROVE  Reserved(r)' \in Nat
<1>1. PendingOn(r)' \in SUBSET Requests
  BY DEF PendingOn
<1>2. IsFiniteSet(PendingOn(r)')
  BY <1>1, FS_Subset, ConstantsOK DEF ConstantsOK
<1>3. \A q \in PendingOn(r)' : RequestAmount'[q] \in Nat
  BY <1>1 DEF TypeOK, RequestAmount, RequestRow
<1>4. Total(RequestAmount', PendingOn(r)') \in Nat
  BY <1>2, <1>3, TotalType
<1>5. QED
  BY <1>4 DEF Reserved

\* What is reserved depends on the pending requests alone, what is matched on
\* the live matches alone.
LEMMA ReservedSame ==
    ASSUME NEW r, PendingOn(r)' = PendingOn(r),
           \A q \in PendingOn(r) : request'[q].amount = request[q].amount
    PROVE  Reserved(r)' = Reserved(r)
<1>1. \A q \in PendingOn(r) : RequestAmount[q] = RequestAmount'[q]
  BY DEF RequestAmount, PendingOn
<1>2. Total(RequestAmount, PendingOn(r)) = Total(RequestAmount', PendingOn(r))
  BY <1>1, TotalSame
<1>3. QED
  BY <1>2 DEF Reserved

LEMMA MatchedSame ==
    ASSUME NEW r, MatchedOn(r)' = MatchedOn(r),
           \A m \in MatchedOn(r) : match'[m].amount = match[m].amount
    PROVE  Total(MatchAmount, MatchedOn(r))' = Total(MatchAmount, MatchedOn(r))
<1>1. \A m \in MatchedOn(r) : MatchAmount[m] = MatchAmount'[m]
  BY DEF MatchAmount, MatchedOn
<1>2. Total(MatchAmount, MatchedOn(r)) = Total(MatchAmount', MatchedOn(r))
  BY <1>1, TotalSame
<1>3. QED
  BY <1>2

-----------------------------------------------------------------------------
(* Steps that leave requests and matches alone.                            *)

\* Neither sum of any receipt changes.
LEMMA SumsKept ==
    ASSUME UNCHANGED <<request, match>>, NEW r
    PROVE  /\ Reserved(r)' = Reserved(r)
           /\ Total(MatchAmount, MatchedOn(r))' = Total(MatchAmount, MatchedOn(r))
<1>1. PendingOn(r)' = PendingOn(r) /\ MatchedOn(r)' = MatchedOn(r)
  BY DEF PendingOn, MatchedOn
<1>2. QED
  BY <1>1, ReservedSame, MatchedSame

\* Nor does anything about the allocations.
LEMMA AllocationsKept ==
    ASSUME AllocationsOK, UNCHANGED <<request, match>>
    PROVE  AllocationsOK'
  BY DEF AllocationsOK, RequestFits, MatchFits, MatchOfOne

\* The books of a receipt depend on its row and on the two sums.
LEMMA BooksKept ==
    ASSUME NEW r, Booked(r), StatusFits(r), receipt'[r] = receipt[r],
           Reserved(r)' = Reserved(r),
           Total(MatchAmount, MatchedOn(r))' = Total(MatchAmount, MatchedOn(r))
    PROVE  Booked(r)' /\ StatusFits(r)'
  BY DEF Booked, StatusFits

\* A step that touches neither receipts nor allocations.
LEMMA NothingBooked ==
    ASSUME TypeOK, ReceiptsOK, AllocationsOK, UNCHANGED <<receipt, request, match>>
    PROVE  ReceiptsOK' /\ AllocationsOK'
<1>1. \A r \in Receipts : receipt'[r] = receipt[r] /\ Booked(r) /\ StatusFits(r)
  BY DEF ReceiptsOK
<1>2. \A r \in Receipts : Booked(r)' /\ StatusFits(r)'
  BY <1>1, SumsKept, BooksKept
<1>3. ReceiptsOK'
  BY <1>2 DEF ReceiptsOK
<1>4. QED
  BY <1>3, AllocationsKept

\* Only receipt r is written, by a step that touches no allocation.
LEMMA OneReceipt ==
    ASSUME TypeOK, ReceiptsOK, NEW r \in Receipts, UNCHANGED <<request, match>>,
           \A x \in Receipts \ {r} : receipt'[x] = receipt[x],
           receipt'[r].matched = receipt[r].matched,
           receipt'[r].balance = receipt'[r].amount - receipt'[r].matched,
           Reserved(r) <= receipt'[r].balance,
           receipt'[r].status # "ABSENT", StatusFits(r)'
    PROVE  ReceiptsOK'
<1>1. ASSUME NEW x \in Receipts, x # r PROVE Booked(x)' /\ StatusFits(x)'
  BY <1>1, SumsKept, BooksKept DEF ReceiptsOK
<1>2. Booked(r)'
  BY SumsKept DEF ReceiptsOK, Booked
<1>3. QED
  BY <1>1, <1>2 DEF ReceiptsOK

\* The actions of the receipts page: create, update, arrive, archive, void.
LEMMA ReceiptStepBooks ==
    ASSUME TypeOK, ReceiptsOK, ReceiptStep
    PROVE  ReceiptsOK' /\ UNCHANGED <<request, match>>
<1>1. ASSUME NEW r \in Receipts, NEW c \in Accounts \cup {None}, NEW a \in Amounts,
             CreateReceipt(r, c, a)
      PROVE  ReceiptsOK' /\ UNCHANGED <<request, match>>
  <2>1. a \in Nat /\ a > 0
    BY ConstantsOK DEF ConstantsOK
  <2>2. /\ receipt[r].status = "ABSENT" /\ UNCHANGED <<request, match>>
        /\ receipt'[r].status = "PENDING" /\ receipt'[r].amount = a
        /\ receipt'[r].balance = a /\ receipt'[r].matched = 0
        /\ \A x \in Receipts \ {r} : receipt'[x] = receipt[x]
    BY <1>1 DEF CreateReceipt, NoReceipt, TypeOK
  <2>3. receipt[r].matched = 0 /\ Reserved(r) = 0
    BY <2>2, ReceiptNumbers DEF ReceiptsOK, Booked
  <2>4. StatusFits(r)'
    BY <2>2 DEF StatusFits
  <2>5. QED
    BY <2>1, <2>2, <2>3, <2>4, OneReceipt
<1>2. ASSUME NEW r \in Receipts, NEW c \in Accounts \cup {None}, NEW a \in Amounts,
             UpdatePendingReceipt(r, c, a)
      PROVE  ReceiptsOK' /\ UNCHANGED <<request, match>>
  <2>1. a \in Nat
    BY ConstantsOK DEF ConstantsOK
  <2>2. /\ receipt[r].status = "PENDING" /\ UNCHANGED <<request, match>>
        /\ a >= receipt[r].matched + Reserved(r)
        /\ receipt'[r].status = "PENDING" /\ receipt'[r].amount = a
        /\ receipt'[r].balance = a - receipt[r].matched
        /\ receipt'[r].matched = receipt[r].matched
        /\ \A x \in Receipts \ {r} : receipt'[x] = receipt[x]
    BY <1>2 DEF UpdatePendingReceipt, TypeOK, ReceiptRow
  <2>3. StatusFits(r)'
    BY <2>2 DEF StatusFits, ReceiptsOK
  <2>4. Reserved(r) <= receipt'[r].balance
    BY <2>1, <2>2, ReceiptNumbers
  <2>5. QED
    BY <2>1, <2>2, <2>3, <2>4, OneReceipt
<1>3. ASSUME NEW r \in Receipts, NEW c \in Accounts, NEW a \in Amounts,
             UpdateArrivedReceipt(r, c, a)
      PROVE  ReceiptsOK' /\ UNCHANGED <<request, match>>
  <2>1. a \in Nat /\ a > 0
    BY ConstantsOK DEF ConstantsOK
  <2>2. /\ UNCHANGED <<request, match>>
        /\ receipt[r].matched <= 0 /\ Reserved(r) = 0
        /\ receipt'[r].amount = a /\ receipt'[r].balance = a - receipt[r].matched
        /\ receipt'[r].matched = receipt[r].matched
        /\ receipt'[r].status = IF a - receipt[r].matched <= 0 THEN "ARCHIVED"
              ELSE IF receipt[r].matched > 0 THEN "PARTIAL_MATCHED" ELSE "ARRIVED"
        /\ \A x \in Receipts \ {r} : receipt'[x] = receipt[x]
    BY <1>3 DEF UpdateArrivedReceipt, TypeOK, ReceiptRow
  <2>3. receipt[r].matched = 0
    BY <2>2, ReceiptNumbers DEF ReceiptsOK, Booked
  <2>4. receipt'[r].status = "ARRIVED"
    BY <2>1, <2>2, <2>3
  <2>5. StatusFits(r)'
    BY <2>2, <2>3, <2>4 DEF StatusFits
  <2>6. QED
    BY <2>1, <2>2, <2>3, <2>4, <2>5, OneReceipt
<1>4. ASSUME NEW r \in Receipts, MarkArrived(r)
      PROVE  ReceiptsOK' /\ UNCHANGED <<request, match>>
  <2>1. /\ receipt[r].status = "PENDING" /\ UNCHANGED <<request, match>>
        /\ receipt'[r].status = "ARRIVED" /\ receipt'[r].amount = receipt[r].amount
        /\ receipt'[r].balance = receipt[r].balance
        /\ receipt'[r].matched = receipt[r].matched
        /\ \A x \in Receipts \ {r} : receipt'[x] = receipt[x]
    BY <1>4 DEF MarkArrived, TypeOK, ReceiptRow
  <2>2. StatusFits(r)'
    BY <2>1 DEF StatusFits, ReceiptsOK
  <2>3. QED
    BY <2>1, <2>2, OneReceipt DEF ReceiptsOK, Booked
<1>5. ASSUME NEW r \in Receipts, ArchiveReceipt(r)
      PROVE  ReceiptsOK' /\ UNCHANGED <<request, match>>
  <2>1. /\ UNCHANGED <<request, match>> /\ receipt[r].balance <= 0
        /\ receipt'[r].status = "ARCHIVED" /\ receipt'[r].amount = receipt[r].amount
        /\ receipt'[r].balance = receipt[r].balance
        /\ receipt'[r].matched = receipt[r].matched
        /\ \A x \in Receipts \ {r} : receipt'[x] = receipt[x]
    BY <1>5 DEF ArchiveReceipt, TypeOK, ReceiptRow
  <2>2. receipt[r].balance = 0
    BY <2>1, ReceiptNumbers DEF ReceiptsOK, Booked
  <2>3. StatusFits(r)'
    BY <2>1, <2>2 DEF StatusFits
  <2>4. QED
    BY <2>1, <2>3, OneReceipt DEF ReceiptsOK, Booked
<1>6. ASSUME NEW r \in Receipts, VoidPendingReceipt(r) \/ VoidArrivedReceipt(r)
      PROVE  ReceiptsOK' /\ UNCHANGED <<request, match>>
  <2>1. /\ UNCHANGED <<request, match>>
        /\ receipt[r].status \in {"PENDING", "ARRIVED"}
        /\ receipt'[r].status = "VOIDED" /\ receipt'[r].amount = receipt[r].amount
        /\ receipt'[r].balance = receipt[r].balance
        /\ receipt'[r].matched = receipt[r].matched
        /\ \A x \in Receipts \ {r} : receipt'[x] = receipt[x]
    BY <1>6 DEF VoidPendingReceipt, VoidArrivedReceipt, TypeOK, ReceiptRow
  <2>2. StatusFits(r)'
    BY <2>1 DEF StatusFits, ReceiptsOK
  <2>3. QED
    BY <2>1, <2>2, OneReceipt DEF ReceiptsOK, Booked
<1>7. QED
  BY <1>1, <1>2, <1>3, <1>4, <1>5, <1>6 DEF ReceiptStep

\* The actions of the receivables page do not touch the receipts.
LEMMA FeeStepKeeps ==
    ASSUME FeeStep
    PROVE  UNCHANGED <<receipt, request, match>>
  BY DEF FeeStep, CreateFee, UpdateFee, AuditFee, LockFee, UnlockFee, DeleteFinanceItem,
         DeleteFeeCheck, DeleteFeeWrite, ReverseAuditCheck, ReverseAuditWrite, AbandonCall,
         OpenAccount, CreatePayment

-----------------------------------------------------------------------------
(* Steps that change requests alone.                                       *)

\* The books stay right when what is reserved still fits.
LEMMA RequestsOnly ==
    ASSUME TypeOK, ReceiptsOK, UNCHANGED <<receipt, match>>,
           \A r \in Receipts : Reserved(r)' <= receipt[r].balance
    PROVE  ReceiptsOK'
<1>1. ASSUME NEW r \in Receipts PROVE Booked(r)' /\ StatusFits(r)'
  <2>1. MatchedOn(r)' = MatchedOn(r)
    BY DEF MatchedOn
  <2>2. Total(MatchAmount, MatchedOn(r))' = Total(MatchAmount, MatchedOn(r))
    BY <2>1, MatchedSame
  <2>3. QED
    BY <2>2 DEF ReceiptsOK, Booked, StatusFits
<1>2. QED
  BY <1>1 DEF ReceiptsOK

\* New requests fit beside those that a receipt has pending.
LEMMA NewRequests ==
    ASSUME TypeOK, TypeOK', ReceiptsOK, AllocationsOK, UNCHANGED <<receipt, match>>,
           NEW Q \in SUBSET AbsentRequests, NEW alloc \in [Q -> Allocation],
           ReceiptsCover(alloc), request' = WithRequests(alloc)
    PROVE  ReceiptsOK' /\ AllocationsOK'
<1>1. Q \subseteq Requests /\ \A q \in Q : request[q].status = "ABSENT"
  BY DEF AbsentRequests
<1>2. \A q \in Q : /\ request'[q].status = "PENDING"
                   /\ request'[q].receipt = alloc[q].receipt
                   /\ request'[q].amount = alloc[q].amount
  BY <1>1 DEF WithRequests
<1>3. \A q \in Requests \ Q : request'[q] = request[q]
  BY DEF WithRequests
<1>4. ASSUME NEW q \in Q
      PROVE  alloc[q].receipt \in Receipts /\ alloc[q].amount \in Nat /\ alloc[q].amount > 0
  <2>1. alloc[q] \in Allocation
    OBVIOUS
  <2>2. alloc[q].receipt \in Receipts /\ alloc[q].amount \in Amounts
    BY <2>1 DEF Allocation
  <2>3. QED
    BY <2>2, EnteredAmount
<1>5. ASSUME NEW r \in Receipts PROVE Reserved(r)' <= receipt[r].balance
  <2> DEFINE new == ChargedTo(alloc, r)
             old == PendingOn(r)
  <2>1. /\ PendingOn(r)' = old \cup new /\ old \cap new = {}
        /\ new \subseteq Q /\ old \subseteq Requests \ Q
    BY <1>1, <1>2, <1>3 DEF PendingOn, ChargedTo
  <2>2. /\ Total(RequestAmount', old) = Total(RequestAmount, old)
        /\ Total(RequestAmount', old) \in Nat /\ IsFiniteSet(old)
    <3>1. \A q \in old : RequestAmount'[q] = RequestAmount[q]
      BY <1>3, <2>1 DEF RequestAmount
    <3>2. Total(RequestAmount', old) = Total(RequestAmount, old)
      BY <3>1, TotalSame
    <3>3. QED
      BY <2>1, <3>2, RequestTotals
  <2>3. Total(RequestAmount', new) = Total(AmountsOf(alloc), new)
    <3>1. \A q \in new : RequestAmount'[q] = AmountsOf(alloc)[q]
      BY <1>1, <1>2, <2>1 DEF RequestAmount, AmountsOf
    <3>2. QED
      BY <3>1, TotalSame
  <2>4. IsFiniteSet(new) /\ \A q \in old \cup new : RequestAmount'[q] \in Nat
    <3>1. IsFiniteSet(new)
      BY <1>1, <2>1, FS_Subset, ConstantsOK DEF ConstantsOK
    <3>2. \A q \in old : RequestAmount'[q] = RequestAmount[q]
      BY <1>3, <2>1 DEF RequestAmount
    <3>3. \A q \in new : RequestAmount'[q] = alloc[q].amount
      BY <1>1, <1>2, <2>1 DEF RequestAmount
    <3>4. QED
      BY <1>4, <2>1, <3>1, <3>2, <3>3, RequestTotals
  <2> HIDE DEF new, old
  <2>5. Total(RequestAmount', old \cup new)
          = Total(RequestAmount, old) + Total(AmountsOf(alloc), new)
    <3>1. Total(RequestAmount', old \cup new)
            = Total(RequestAmount', old) + Total(RequestAmount', new)
      BY <2>1, <2>2, <2>4, TotalDisjoint
    <3>2. QED
      BY <2>2, <2>3, <3>1
  <2>6. Reserved(r)' = Total(RequestAmount', old \cup new)
    BY <2>1 DEF Reserved
  <2>7. CASE new = {}
    <3>1. Reserved(r)' = Total(RequestAmount, old)
      BY <2>2, <2>6, <2>7
    <3>2. QED
      BY <3>1 DEF ReceiptsOK, Booked, Reserved, old
  <2>8. CASE new # {}
    <3>1. Total(AmountsOf(alloc), new) + Total(RequestAmount, old) <= receipt[r].balance
      BY <2>8 DEF ReceiptsCover, FitsReceipt, new, old
    <3>2. Total(AmountsOf(alloc), new) \in Nat
      <4>1. Total(RequestAmount', new) \in Nat
        BY <2>4, TotalType
      <4>2. QED
        BY <2>3, <4>1
    <3>3. QED
      BY <2>2, <2>5, <2>6, <3>1, <3>2
  <2>9. QED
    BY <2>7, <2>8
<1>6. ReceiptsOK'
  BY <1>5, RequestsOnly
<1>7. AllocationsOK'
  <2>1. ASSUME NEW q \in Requests PROVE RequestFits(q)'
    <3>1. CASE q \in Q
      BY <1>2, <1>4, <3>1 DEF RequestFits
    <3>2. CASE q \notin Q
      BY <1>3, <3>2 DEF AllocationsOK, RequestFits
    <3>3. QED
      BY <3>1, <3>2
  <2>2. ASSUME NEW m \in Matches PROVE MatchFits(m)'
    BY DEF AllocationsOK, MatchFits
  <2>3. MatchOfOne'
    BY <1>2, <1>3 DEF AllocationsOK, MatchOfOne
  <2>4. QED
    BY <2>1, <2>2, <2>3 DEF AllocationsOK
<1>8. QED
  BY <1>6, <1>7

\* The new amount of a request fits beside the other pending ones.
LEMMA UpdateRequestBooks ==
    ASSUME TypeOK, TypeOK', ReceiptsOK, AllocationsOK, NEW q \in Requests, NEW a \in Amounts,
           UpdateRequest(q, a)
    PROVE  ReceiptsOK' /\ AllocationsOK'
<1>1. a \in Nat /\ a > 0
  BY ConstantsOK DEF ConstantsOK
<1>2. /\ UNCHANGED <<receipt, match>>
      /\ request[q].status = "PENDING"
      /\ FitsReceipt(request[q].receipt, a, PendingOn(request[q].receipt) \ {q})
      /\ request' = [request EXCEPT ![q].amount = a]
  BY DEF UpdateRequest
<1>3. /\ request'[q].status = request[q].status /\ request'[q].receipt = request[q].receipt
      /\ request'[q].match = request[q].match /\ request'[q].amount = a
      /\ \A p \in Requests \ {q} : request'[p] = request[p]
  BY <1>2 DEF TypeOK, RequestRow
<1>4. ASSUME NEW r \in Receipts PROVE Reserved(r)' <= receipt[r].balance
  <2>1. PendingOn(r)' = PendingOn(r)
    BY <1>3 DEF PendingOn
  <2>2. CASE r # request[q].receipt
    <3>1. \A p \in PendingOn(r) : request'[p].amount = request[p].amount
      BY <1>3, <2>2 DEF PendingOn
    <3>2. Reserved(r)' = Reserved(r)
      BY <2>1, <3>1, ReservedSame
    <3>3. QED
      BY <3>2 DEF ReceiptsOK, Booked
  <2>3. CASE r = request[q].receipt
    <3> DEFINE others == PendingOn(r) \ {q}
    <3>1. PendingOn(r) = others \cup {q} /\ others \in SUBSET Requests /\ q \notin others
      BY <1>2, <2>3 DEF PendingOn
    <3>2. \A p \in others : RequestAmount'[p] = RequestAmount[p]
      BY <1>3, <3>1 DEF RequestAmount
    <3> HIDE DEF others
    <3>3. Total(RequestAmount', others) = Total(RequestAmount, others)
      BY <3>2, TotalSame
    <3>4. RequestAmount'[q] = a
      BY <1>3 DEF RequestAmount
    <3>5. IsFiniteSet(others) /\ \A p \in others \cup {q} : RequestAmount'[p] \in Nat
      BY <1>1, <3>1, <3>2, <3>4, RequestTotals
    <3>6. Total(RequestAmount', others \cup {q}) = Total(RequestAmount, others) + a
      BY <3>1, <3>3, <3>4, <3>5, TotalAdd
    <3>7. Reserved(r)' = Total(RequestAmount, others) + a
      BY <2>1, <3>1, <3>6 DEF Reserved
    <3>8. a + Total(RequestAmount, others) <= receipt[r].balance
      BY <1>2, <2>3 DEF FitsReceipt, others
    <3>9. Total(RequestAmount, others) \in Nat
      BY <3>1, RequestTotals
    <3>10. QED
      BY <1>1, <3>7, <3>8, <3>9
  <2>4. QED
    BY <2>2, <2>3
<1>5. ReceiptsOK'
  BY <1>2, <1>4, RequestsOnly
<1>6. ASSUME NEW p \in Requests PROVE RequestFits(p)'
  BY <1>1, <1>2, <1>3 DEF AllocationsOK, RequestFits
<1>7. (\A m \in Matches : MatchFits(m)') /\ MatchOfOne'
  BY <1>2, <1>3 DEF AllocationsOK, MatchFits, MatchOfOne
<1>8. QED
  BY <1>5, <1>6, <1>7 DEF AllocationsOK

\* A request that is deleted or rejected gives back what it reserved.
LEMMA CloseRequestBooks ==
    ASSUME TypeOK, TypeOK', ReceiptsOK, AllocationsOK, NEW q \in Requests,
           NEW status \in {"REJECTED", "CANCELLED"}, CloseRequest(q, status)
    PROVE  ReceiptsOK' /\ AllocationsOK'
<1>1. /\ UNCHANGED <<receipt, match>>
      /\ request[q].status = "PENDING" /\ request'[q].status = status
      /\ \A p \in Requests \ {q} : request'[p] = request[p]
  BY DEF CloseRequest, TypeOK, RequestRow
<1>2. ASSUME NEW r \in Receipts PROVE Reserved(r)' <= receipt[r].balance
  <2>1. PendingOn(r)' = PendingOn(r) \ {q}
    BY <1>1 DEF PendingOn
  <2>2. Total(RequestAmount', PendingOn(r) \ {q}) = Total(RequestAmount, PendingOn(r) \ {q})
    <3>1. \A p \in PendingOn(r) \ {q} : RequestAmount'[p] = RequestAmount[p]
      BY <1>1 DEF RequestAmount, PendingOn
    <3>2. QED
      BY <3>1, TotalSame
  <2>3. Total(RequestAmount, PendingOn(r) \ {q}) <= Reserved(r)
    <3>1. CASE q \notin PendingOn(r)
      <4>1. PendingOn(r) \ {q} = PendingOn(r)
        BY <3>1
      <4>2. QED
        BY <4>1, ReceiptNumbers DEF Reserved
    <3>2. CASE q \in PendingOn(r)
      <4>1. PendingOn(r) \in SUBSET Requests
        BY DEF PendingOn
      <4>2. IsFiniteSet(PendingOn(r)) /\ \A p \in PendingOn(r) : RequestAmount[p] \in Nat
        BY <4>1, RequestTotals
      <4>3. Total(RequestAmount, PendingOn(r) \ {q}) = Reserved(r) - RequestAmount[q]
        BY <3>2, <4>2, TotalWithout DEF Reserved
      <4>4. QED
        BY <3>2, <4>2, <4>3, ReceiptNumbers
    <3>3. QED
      BY <3>1, <3>2
  <2>4. Reserved(r)' <= Reserved(r) /\ Reserved(r)' \in Nat
    <3>1. Reserved(r)' = Total(RequestAmount, PendingOn(r) \ {q})
      BY <2>1, <2>2 DEF Reserved
    <3>2. PendingOn(r) \ {q} \in SUBSET Requests
      BY DEF PendingOn
    <3>3. QED
      BY <2>3, <3>1, <3>2, RequestTotals
  <2>5. Reserved(r) <= receipt[r].balance
    BY DEF ReceiptsOK, Booked
  <2>6. QED
    BY <2>4, <2>5, ReceiptNumbers
<1>3. ReceiptsOK'
  BY <1>1, <1>2, RequestsOnly
<1>4. ASSUME NEW p \in Requests PROVE RequestFits(p)'
  BY <1>1 DEF AllocationsOK, RequestFits
<1>5. (\A m \in Matches : MatchFits(m)') /\ MatchOfOne'
  BY <1>1 DEF AllocationsOK, MatchFits, MatchOfOne
<1>6. QED
  BY <1>3, <1>4, <1>5 DEF AllocationsOK

-----------------------------------------------------------------------------
(* Steps that post matches and take them back.                             *)

\* The columns of a receipt after a posting ...
LEMMA PostedRow ==
    ASSUME NEW row \in ReceiptRow, NEW a
    PROVE  /\ PostedReceipt(row, a).amount = row.amount
           /\ PostedReceipt(row, a).matched = row.matched + a
           /\ PostedReceipt(row, a).balance = row.amount - (row.matched + a)
           /\ PostedReceipt(row, a).status =
                 IF row.amount - (row.matched + a) <= 0 THEN "ARCHIVED" ELSE "PARTIAL_MATCHED"
<1> DEFINE matched == row.matched + a
           balance == row.amount - (row.matched + a)
           status  == IF balance <= 0 THEN "ARCHIVED" ELSE "PARTIAL_MATCHED"
<1>1. PostedReceipt(row, a) =
        [row EXCEPT !.matched = matched, !.balance = balance, !.status = status]
  BY DEF PostedReceipt
<1> HIDE DEF matched, balance, status
<1>2. /\ PostedReceipt(row, a).amount = row.amount
      /\ PostedReceipt(row, a).matched = matched
      /\ PostedReceipt(row, a).balance = balance
      /\ PostedReceipt(row, a).status = status
  BY <1>1 DEF ReceiptRow
<1>3. QED
  BY <1>2 DEF matched, balance, status

\* ... and after it has been taken back.
LEMMA UnpostedRow ==
    ASSUME NEW row \in ReceiptRow, NEW a
    PROVE  /\ UnpostedReceipt(row, a).amount = row.amount
           /\ UnpostedReceipt(row, a).matched = AtLeastZero(row.matched - a)
           /\ UnpostedReceipt(row, a).balance = row.amount - AtLeastZero(row.matched - a)
           /\ UnpostedReceipt(row, a).status =
                 IF AtLeastZero(row.matched - a) <= 0 THEN "ARRIVED" ELSE "PARTIAL_MATCHED"
<1> DEFINE matched == AtLeastZero(row.matched - a)
           balance == row.amount - matched
           status  == IF matched <= 0 THEN "ARRIVED" ELSE "PARTIAL_MATCHED"
<1>1. UnpostedReceipt(row, a) =
        [row EXCEPT !.matched = matched, !.balance = balance, !.status = status]
  BY DEF UnpostedReceipt
<1> HIDE DEF matched
<1> HIDE DEF balance, status
<1>2. /\ UnpostedReceipt(row, a).amount = row.amount
      /\ UnpostedReceipt(row, a).matched = matched
      /\ UnpostedReceipt(row, a).balance = balance
      /\ UnpostedReceipt(row, a).status = status
  BY <1>1 DEF ReceiptRow
<1>3. QED
  BY <1>2 DEF matched, balance, status

\* Amount a, which its request had reserved, is posted against receipt r.
LEMMA PostedBooks ==
    ASSUME TypeOK, ReceiptsOK, NEW r \in Receipts, NEW a \in Nat, a > 0, a <= receipt[r].balance,
           receipt'[r] = PostedReceipt(receipt[r], a),
           Reserved(r)' = Reserved(r) - a, Reserved(r)' \in Nat,
           Total(MatchAmount, MatchedOn(r))' = Total(MatchAmount, MatchedOn(r)) + a
    PROVE  Booked(r)' /\ StatusFits(r)'
<1>1. /\ receipt'[r].amount = receipt[r].amount
      /\ receipt'[r].matched = receipt[r].matched + a
      /\ receipt'[r].balance = receipt[r].amount - (receipt[r].matched + a)
      /\ receipt'[r].status = IF receipt[r].amount - (receipt[r].matched + a) <= 0
                              THEN "ARCHIVED" ELSE "PARTIAL_MATCHED"
  BY PostedRow DEF TypeOK
<1>2. /\ receipt[r].amount \in Nat /\ receipt[r].matched \in Nat /\ receipt[r].balance \in Int
      /\ Reserved(r) \in Nat /\ Reserved(r) <= receipt[r].balance
      /\ receipt[r].balance = receipt[r].amount - receipt[r].matched
      /\ receipt[r].matched = Total(MatchAmount, MatchedOn(r))
  BY ReceiptNumbers DEF ReceiptsOK, Booked
<1>3. receipt'[r].balance = receipt[r].balance - a /\ receipt'[r].balance >= 0
  BY <1>1, <1>2
<1>4. Booked(r)'
  BY <1>1, <1>2, <1>3 DEF Booked
<1>5. StatusFits(r)'
  BY <1>1, <1>2, <1>3 DEF StatusFits
<1>6. QED
  BY <1>4, <1>5

\* Amount a is taken back from receipt r, which reserves at most that much more.
LEMMA UnpostedBooks ==
    ASSUME TypeOK, ReceiptsOK, NEW r \in Receipts, NEW a \in Nat, a > 0,
           a <= Total(MatchAmount, MatchedOn(r)),
           receipt'[r] = UnpostedReceipt(receipt[r], a),
           Reserved(r)' <= Reserved(r) + a, Reserved(r)' \in Nat,
           Total(MatchAmount, MatchedOn(r))' = Total(MatchAmount, MatchedOn(r)) - a
    PROVE  Booked(r)' /\ StatusFits(r)'
<1>1. /\ receipt[r].amount \in Nat /\ receipt[r].matched \in Nat /\ receipt[r].balance \in Int
      /\ Reserved(r) \in Nat /\ Reserved(r) <= receipt[r].balance
      /\ receipt[r].balance = receipt[r].amount - receipt[r].matched
      /\ receipt[r].matched = Total(MatchAmount, MatchedOn(r))
  BY ReceiptNumbers DEF ReceiptsOK, Booked
<1>2. AtLeastZero(receipt[r].matched - a) = receipt[r].matched - a
  BY <1>1 DEF AtLeastZero
<1>3. /\ receipt'[r].amount = receipt[r].amount
      /\ receipt'[r].matched = receipt[r].matched - a
      /\ receipt'[r].balance = receipt[r].amount - (receipt[r].matched - a)
      /\ receipt'[r].status = IF receipt[r].matched - a <= 0
                              THEN "ARRIVED" ELSE "PARTIAL_MATCHED"
  BY <1>2, UnpostedRow DEF TypeOK
<1>4. receipt'[r].balance = receipt[r].balance + a /\ receipt'[r].matched >= 0
  BY <1>1, <1>3
<1>5. Booked(r)'
  BY <1>1, <1>3, <1>4 DEF Booked
<1>6. StatusFits(r)'
  BY <1>1, <1>3, <1>4 DEF StatusFits
<1>7. QED
  BY <1>5, <1>6

\* An approval turns what its request reserved into a match.
LEMMA ApproveBooks ==
    ASSUME TypeOK, TypeOK', ReceiptsOK, AllocationsOK, NEW q \in Requests, NEW m \in Matches,
           ApproveRequest(q, m)
    PROVE  ReceiptsOK' /\ AllocationsOK'
<1>0. PICK r, a : r = request[q].receipt /\ a = request[q].amount
  OBVIOUS
<1>1. /\ request[q].status = "PENDING" /\ match[m].status = "ABSENT"
      /\ a <= receipt[r].balance
      /\ \A x \in Receipts \ {r} : receipt'[x] = receipt[x]
      /\ r \in Receipts => receipt'[r] = PostedReceipt(receipt[r], a)
  BY <1>0 DEF ApproveRequest, TypeOK
<1>2. /\ request'[q].status = "APPROVED" /\ request'[q].match = m
      /\ request'[q].amount = a /\ request'[q].receipt = r
      /\ \A p \in Requests \ {q} : request'[p] = request[p]
  BY <1>0 DEF ApproveRequest, TypeOK, RequestRow
<1>3. /\ match'[m].status = "LIVE" /\ match'[m].receipt = r /\ match'[m].amount = a
      /\ \A n \in Matches \ {m} : match'[n] = match[n]
  BY <1>0 DEF ApproveRequest, TypeOK
<1>4. r \in Receipts /\ a \in Nat /\ a > 0
  BY <1>0, <1>1 DEF AllocationsOK, RequestFits, TypeOK, RequestRow
<1>5. ASSUME NEW x \in Receipts, x # r PROVE Booked(x)' /\ StatusFits(x)'
  <2>1. PendingOn(x)' = PendingOn(x)
    BY <1>0, <1>1, <1>2, <1>5 DEF PendingOn
  <2>2. MatchedOn(x)' = MatchedOn(x)
    BY <1>1, <1>3, <1>5 DEF MatchedOn
  <2>3. \A p \in PendingOn(x) : request'[p].amount = request[p].amount
    BY <1>0, <1>2, <1>5 DEF PendingOn
  <2>4. \A n \in MatchedOn(x) : match'[n].amount = match[n].amount
    BY <1>1, <1>3 DEF MatchedOn
  <2>5. /\ Reserved(x)' = Reserved(x)
        /\ Total(MatchAmount, MatchedOn(x))' = Total(MatchAmount, MatchedOn(x))
    BY <2>1, <2>2, <2>3, <2>4, ReservedSame, MatchedSame
  <2>6. receipt'[x] = receipt[x] /\ Booked(x) /\ StatusFits(x)
    BY <1>1, <1>5 DEF ReceiptsOK
  <2>7. QED
    BY <2>5, <2>6, BooksKept
<1>6. Booked(r)' /\ StatusFits(r)'
  <2>1. /\ PendingOn(r)' = PendingOn(r) \ {q} /\ q \in PendingOn(r)
        /\ PendingOn(r) \in SUBSET Requests
    BY <1>0, <1>1, <1>2 DEF PendingOn
  <2>2. /\ MatchedOn(r)' = MatchedOn(r) \cup {m} /\ m \notin MatchedOn(r)
        /\ MatchedOn(r) \in SUBSET Matches
    BY <1>1, <1>3 DEF MatchedOn
  <2>3. /\ IsFiniteSet(PendingOn(r)) /\ \A p \in PendingOn(r) : RequestAmount[p] \in Nat
        /\ IsFiniteSet(MatchedOn(r)) /\ \A n \in MatchedOn(r) : MatchAmount[n] \in Nat
    BY <2>1, <2>2, RequestTotals, MatchTotals
  <2>4. Total(RequestAmount', PendingOn(r) \ {q}) = Total(RequestAmount, PendingOn(r) \ {q})
    <3>1. \A p \in PendingOn(r) \ {q} : RequestAmount'[p] = RequestAmount[p]
      BY <1>2, <2>1 DEF RequestAmount
    <3>2. QED
      BY <3>1, TotalSame
  <2>5. Total(RequestAmount, PendingOn(r) \ {q}) = Reserved(r) - a
    <3>1. RequestAmount[q] = a
      BY <1>0 DEF RequestAmount
    <3>2. QED
      BY <2>1, <2>3, <3>1, TotalWithout DEF Reserved
  <2>6. Reserved(r)' = Reserved(r) - a
    BY <2>1, <2>4, <2>5 DEF Reserved
  <2>7. Reserved(r)' \in Nat
    <3>1. PendingOn(r) \ {q} \in SUBSET Requests
      BY <2>1
    <3>2. Total(RequestAmount, PendingOn(r) \ {q}) \in Nat
      BY <3>1, RequestTotals
    <3>3. QED
      BY <2>5, <2>6, <3>2
  <2>8. Total(MatchAmount, MatchedOn(r))' = Total(MatchAmount, MatchedOn(r)) + a
    <3>1. \A n \in MatchedOn(r) : MatchAmount'[n] = MatchAmount[n]
      BY <1>3, <2>2 DEF MatchAmount
    <3>2. MatchAmount'[m] = a
      BY <1>3 DEF MatchAmount
    <3>3. Total(MatchAmount', MatchedOn(r)) = Total(MatchAmount, MatchedOn(r))
      BY <3>1, TotalSame
    <3>4. \A n \in MatchedOn(r) \cup {m} : MatchAmount'[n] \in Nat
      BY <1>4, <2>3, <3>1, <3>2
    <3>5. Total(MatchAmount', MatchedOn(r) \cup {m}) = Total(MatchAmount', MatchedOn(r)) + a
      BY <2>2, <2>3, <3>2, <3>4, TotalAdd
    <3>6. QED
      BY <2>2, <3>3, <3>5
  <2>9. a <= receipt[r].balance /\ receipt'[r] = PostedReceipt(receipt[r], a)
    BY <1>1, <1>4
  <2>10. QED
    BY <1>4, <2>6, <2>7, <2>8, <2>9, PostedBooks
<1>7. ReceiptsOK'
  BY <1>5, <1>6 DEF ReceiptsOK
<1>8. ASSUME NEW p \in Requests PROVE RequestFits(p)'
  <2>1. CASE p = q
    BY <1>2, <1>3, <1>4, <2>1 DEF RequestFits
  <2>2. CASE p # q
    <3>1. request'[p] = request[p] /\ RequestFits(p)
      BY <1>2, <2>2 DEF AllocationsOK
    <3>2. request[p].status = "APPROVED" => match'[request[p].match] = match[request[p].match]
      BY <1>1, <1>3, <3>1 DEF RequestFits
    <3>3. QED
      BY <3>1, <3>2 DEF RequestFits
  <2>3. QED
    BY <2>1, <2>2
<1>9. ASSUME NEW n \in Matches PROVE MatchFits(n)'
  BY <1>3, <1>4 DEF AllocationsOK, MatchFits
<1>10. MatchOfOne'
  <2>1. \A p \in Requests \ {q} : request[p].status = "APPROVED" => request[p].match # m
    BY <1>1 DEF AllocationsOK, RequestFits
  <2>2. QED
    BY <1>2, <2>1 DEF AllocationsOK, MatchOfOne
<1>11. QED
  BY <1>7, <1>8, <1>9, <1>10 DEF AllocationsOK

\* Taking back matches of receipt r, as long as what r reserves grows by no
\* more than what it gets back.
LEMMA TakeBackBooks ==
    ASSUME TypeOK, TypeOK', ReceiptsOK, AllocationsOK, NEW r \in Receipts,
           NEW ms \in SUBSET Matches, TakeBack(r, ms),
           Reserved(r)' <= Reserved(r) + Total(MatchAmount, ms),
           \A x \in Receipts \ {r} : Reserved(x)' = Reserved(x)
    PROVE  ReceiptsOK' /\ \A m \in Matches : MatchFits(m)'
<1>1. /\ ms # {} /\ ms \subseteq MatchedOn(r)
      /\ receipt'[r] = UnpostedReceipt(receipt[r], Total(MatchAmount, ms))
      /\ \A x \in Receipts \ {r} : receipt'[x] = receipt[x]
  BY DEF TakeBack, TypeOK
<1>2. /\ \A m \in ms : match'[m].status = "VOIDED"
      /\ \A m \in Matches : match'[m].amount = match[m].amount
                            /\ match'[m].receipt = match[m].receipt
      /\ \A m \in Matches \ ms : match'[m] = match[m]
  BY DEF TakeBack, TypeOK, MatchRow
<1>3. ASSUME NEW x \in Receipts, x # r PROVE Booked(x)' /\ StatusFits(x)'
  <2>1. MatchedOn(x)' = MatchedOn(x)
    BY <1>1, <1>2, <1>3 DEF MatchedOn
  <2>2. Total(MatchAmount, MatchedOn(x))' = Total(MatchAmount, MatchedOn(x))
    <3>1. \A m \in MatchedOn(x) : match'[m].amount = match[m].amount
      BY <1>2 DEF MatchedOn
    <3>2. QED
      BY <2>1, <3>1, MatchedSame
  <2>3. receipt'[x] = receipt[x] /\ Reserved(x)' = Reserved(x) /\ Booked(x) /\ StatusFits(x)
    BY <1>1, <1>3 DEF ReceiptsOK
  <2>4. QED
    BY <2>2, <2>3, BooksKept
<1>4. Booked(r)' /\ StatusFits(r)'
  <2> DEFINE rest == MatchedOn(r) \ ms
  <2>1. /\ MatchedOn(r)' = rest /\ MatchedOn(r) = rest \cup ms /\ rest \cap ms = {}
        /\ rest \in SUBSET Matches
    BY <1>1, <1>2 DEF MatchedOn
  <2> HIDE DEF rest
  <2>2. /\ IsFiniteSet(rest) /\ IsFiniteSet(ms)
        /\ Total(MatchAmount, rest) \in Nat /\ Total(MatchAmount, ms) \in Nat
        /\ \A m \in rest \cup ms : MatchAmount[m] \in Nat
    BY <2>1, MatchTotals
  <2>3. Total(MatchAmount, MatchedOn(r)) = Total(MatchAmount, rest) + Total(MatchAmount, ms)
    BY <2>1, <2>2, TotalDisjoint
  <2>4. Total(MatchAmount', rest) = Total(MatchAmount, rest)
    <3>1. \A m \in rest : MatchAmount'[m] = MatchAmount[m]
      BY <1>2, <2>1 DEF MatchAmount
    <3>2. QED
      BY <3>1, TotalSame
  <2>5. Total(MatchAmount, MatchedOn(r))'
          = Total(MatchAmount, MatchedOn(r)) - Total(MatchAmount, ms)
    BY <2>1, <2>2, <2>3, <2>4
  <2>6. Total(MatchAmount, ms) > 0
    <3>1. PICK m \in ms : TRUE
      BY <1>1
    <3>2. match[m].amount > 0 /\ MatchAmount[m] = match[m].amount
      BY <1>1 DEF AllocationsOK, MatchFits, MatchedOn, MatchAmount
    <3>3. MatchAmount[m] <= Total(MatchAmount, ms)
      BY <2>2, TotalCovers
    <3>4. MatchAmount[m] \in Nat
      BY <2>2
    <3>5. QED
      BY <2>2, <3>2, <3>3, <3>4
  <2>7. Reserved(r)' \in Nat
    BY ReservedAfter
  <2>8. Total(MatchAmount, ms) <= Total(MatchAmount, MatchedOn(r))
    BY <2>2, <2>3
  <2>9. QED
    BY <1>1, <2>2, <2>5, <2>6, <2>7, <2>8, UnpostedBooks
<1>5. ReceiptsOK'
  BY <1>3, <1>4 DEF ReceiptsOK
<1>6. ASSUME NEW m \in Matches PROVE MatchFits(m)'
  BY <1>2 DEF AllocationsOK, MatchFits
<1>7. QED
  BY <1>5, <1>6

\* Taking back matches that no approved request points to.
LEMMA UnmatchBooks ==
    ASSUME TypeOK, TypeOK', ReceiptsOK, AllocationsOK, NEW r \in Receipts,
           NEW ms \in SUBSET MatchedOn(r), Unmatch(r, ms)
    PROVE  ReceiptsOK' /\ AllocationsOK'
<1>1. /\ ms \in SUBSET Matches /\ TakeBack(r, ms) /\ request' = request
      /\ \A q \in Requests : request[q].status = "APPROVED" => request[q].match \notin ms
      /\ \A m \in Matches \ ms : match'[m] = match[m]
  BY DEF Unmatch, TakeBack, MatchedOn
<1>2. \A x \in Receipts : Reserved(x)' = Reserved(x)
  <2>1. \A x \in Receipts : PendingOn(x)' = PendingOn(x)
    BY <1>1 DEF PendingOn
  <2>2. QED
    BY <1>1, <2>1, ReservedSame
<1>3. Reserved(r)' <= Reserved(r) + Total(MatchAmount, ms)
  BY <1>1, <1>2, MatchTotals, ReceiptNumbers
<1>4. ReceiptsOK' /\ \A m \in Matches : MatchFits(m)'
  BY <1>1, <1>2, <1>3, TakeBackBooks
<1>5. ASSUME NEW q \in Requests PROVE RequestFits(q)'
  BY <1>1 DEF AllocationsOK, RequestFits
<1>6. MatchOfOne'
  BY <1>1 DEF AllocationsOK, MatchOfOne
<1>7. QED
  BY <1>4, <1>5, <1>6 DEF AllocationsOK

\* The amount of a reversed request goes back from posted to reserved.
LEMMA ReverseBooks ==
    ASSUME TypeOK, TypeOK', ReceiptsOK, AllocationsOK, NEW q \in Requests, ReverseRequest(q)
    PROVE  ReceiptsOK' /\ AllocationsOK'
<1>0. PICK r, a, m : r = request[q].receipt /\ a = request[q].amount /\ m = request[q].match
  OBVIOUS
<1>1. /\ request[q].status = "APPROVED" /\ TakeBack(r, {m})
      /\ \A n \in Matches \ {m} : match'[n] = match[n]
  BY <1>0 DEF ReverseRequest, TakeBack
<1>2. /\ request'[q].status = "PENDING" /\ request'[q].amount = a /\ request'[q].receipt = r
      /\ \A p \in Requests \ {q} : request'[p] = request[p]
  BY <1>0 DEF ReverseRequest, TypeOK, RequestRow
<1>3. /\ r \in Receipts /\ a \in Nat /\ a > 0 /\ m \in Matches
      /\ match[m].amount = a
  BY <1>0, <1>1 DEF AllocationsOK, RequestFits, TypeOK, RequestRow
<1>4. Total(MatchAmount, {m}) = a
  <2>1. MatchAmount[m] = a
    BY <1>3 DEF MatchAmount
  <2>2. QED
    BY <1>3, <2>1, TotalOfRow
<1>5. ASSUME NEW x \in Receipts, x # r PROVE Reserved(x)' = Reserved(x)
  <2>1. PendingOn(x)' = PendingOn(x)
    BY <1>0, <1>1, <1>2, <1>5 DEF PendingOn
  <2>2. \A p \in PendingOn(x) : request'[p].amount = request[p].amount
    BY <1>0, <1>2 DEF PendingOn
  <2>3. QED
    BY <2>1, <2>2, ReservedSame
<1>6. Reserved(r)' = Reserved(r) + a
  <2>1. /\ PendingOn(r)' = PendingOn(r) \cup {q} /\ q \notin PendingOn(r)
        /\ PendingOn(r) \in SUBSET Requests
    BY <1>1, <1>2 DEF PendingOn
  <2>2. \A p \in PendingOn(r) : RequestAmount'[p] = RequestAmount[p]
    BY <1>2, <2>1 DEF RequestAmount
  <2>3. RequestAmount'[q] = a
    BY <1>2 DEF RequestAmount
  <2>4. IsFiniteSet(PendingOn(r)) /\ \A p \in PendingOn(r) \cup {q} : RequestAmount'[p] \in Nat
    BY <1>3, <2>1, <2>2, <2>3, RequestTotals
  <2>5. Total(RequestAmount', PendingOn(r)) = Total(RequestAmount, PendingOn(r))
    BY <2>2, TotalSame
  <2>6. Total(RequestAmount', PendingOn(r) \cup {q}) = Total(RequestAmount', PendingOn(r)) + a
    BY <2>1, <2>3, <2>4, TotalAdd
  <2>7. QED
    BY <2>1, <2>5, <2>6 DEF Reserved
<1>7. ReceiptsOK' /\ \A n \in Matches : MatchFits(n)'
  <2>1. Reserved(r)' <= Reserved(r) + Total(MatchAmount, {m})
    BY <1>3, <1>4, <1>6, ReceiptNumbers
  <2>2. {m} \in SUBSET Matches
    BY <1>3
  <2>3. QED
    BY <1>1, <1>3, <1>5, <2>1, <2>2, TakeBackBooks
<1>8. ASSUME NEW p \in Requests PROVE RequestFits(p)'
  <2>1. CASE p = q
    BY <1>2, <1>3, <2>1 DEF RequestFits
  <2>2. CASE p # q
    <3>1. request'[p] = request[p] /\ RequestFits(p)
      BY <1>2, <2>2 DEF AllocationsOK
    <3>2. request[p].status = "APPROVED" => request[p].match # m
      BY <1>0, <1>1, <2>2 DEF AllocationsOK, MatchOfOne
    <3>3. QED
      BY <1>1, <3>1, <3>2 DEF RequestFits
  <2>3. QED
    BY <2>1, <2>2
<1>9. MatchOfOne'
  BY <1>2 DEF AllocationsOK, MatchOfOne
<1>10. QED
  BY <1>7, <1>8, <1>9 DEF AllocationsOK

-----------------------------------------------------------------------------
(* The theorem.                                                            *)

\* The books of the database that an earlier release left behind.
LEMMA MigratedBooks ==
    ASSUME TypeOK, NEW L \in SUBSET Legacy, NEW posting \in [L -> Allocation], NEW paid \in [Receipts -> Amounts],
           NEW due \in [Fees -> Amounts], NEW owner \in [Receipts -> Accounts],
           Migrated(posting, paid, due, owner)
    PROVE  ReceiptsOK /\ AllocationsOK
<1> DEFINE matched(r) == Total(Posted(posting), PostedOn(posting, r))
           posted     == {posting[m].receipt : m \in DOMAIN posting}
           row(r)     == [NoReceipt EXCEPT !.account = owner[r], !.amount = paid[r]]
<1>1. /\ \A r \in posted : matched(r) <= paid[r]
      /\ receipt = [r \in Receipts |->
             IF r \in posted THEN PostedReceipt(row(r), matched(r)) ELSE NoReceipt]
      /\ match = [m \in Matches |->
             IF m \in DOMAIN posting
             THEN [status |-> "LIVE", receipt |-> posting[m].receipt,
                   fee |-> posting[m].fee, amount |-> posting[m].amount]
             ELSE NoMatch]
      /\ request = [q \in Requests |-> NoRequest]
  BY DEF Migrated
<1>2. ASSUME NEW m \in DOMAIN posting
      PROVE  m \in Matches /\ posting[m].amount \in Nat /\ posting[m].amount > 0
  <2>1. posting[m] \in Allocation
    OBVIOUS
  <2>2. posting[m].amount \in Amounts
    BY <2>1 DEF Allocation
  <2>3. QED
    BY <2>2, EnteredAmount, ConstantsOK DEF ConstantsOK
<1>3. \A q \in Requests : request[q].status = "ABSENT"
  BY <1>1 DEF NoRequest
<1>4. /\ \A m \in DOMAIN posting : /\ match[m].status = "LIVE"
                           /\ match[m].receipt = posting[m].receipt
                           /\ match[m].amount = posting[m].amount
      /\ \A m \in Matches \ DOMAIN posting : match[m].status = "ABSENT"
  BY <1>1, <1>2 DEF NoMatch
<1>5. AllocationsOK
  BY <1>2, <1>3, <1>4 DEF AllocationsOK, RequestFits, MatchFits, MatchOfOne
<1>6. ASSUME NEW r \in Receipts PROVE Booked(r) /\ StatusFits(r)
  <2>1. PendingOn(r) = {}
    BY <1>3 DEF PendingOn
  <2>2. Reserved(r) = 0
    BY <2>1, TotalEmpty DEF Reserved
  <2>3. MatchedOn(r) = PostedOn(posting, r)
    BY <1>2, <1>4 DEF MatchedOn, PostedOn
  <2>4. Total(MatchAmount, MatchedOn(r)) = matched(r)
    <3>1. \A m \in MatchedOn(r) : MatchAmount[m] = Posted(posting)[m]
      BY <1>2, <1>4, <2>3 DEF PostedOn, MatchAmount, Posted
    <3>2. QED
      BY <2>3, <3>1, TotalSame
  <2>5. CASE r \in posted
    <3>1. paid[r] \in Nat
      BY EnteredAmount
    <3>2. row(r) \in ReceiptRow /\ row(r).amount = paid[r] /\ row(r).matched = 0
      BY <3>1, NewRowTypes DEF NoReceipt, ReceiptRow
    <3>3. matched(r) \in Nat /\ matched(r) <= paid[r]
      BY <1>1, <2>4, <2>5, ReceiptNumbers
    <3>4. matched(r) > 0
      <4>1. PICK m \in DOMAIN posting : posting[m].receipt = r
        BY <2>5
      <4>2. m \in MatchedOn(r) /\ MatchedOn(r) \in SUBSET Matches
        BY <1>2, <1>4, <4>1 DEF MatchedOn
      <4>3. MatchAmount[m] <= Total(MatchAmount, MatchedOn(r))
        BY <4>2, MatchTotals, TotalCovers
      <4>4. MatchAmount[m] \in Nat /\ MatchAmount[m] > 0
        BY <1>2, <1>4 DEF MatchAmount
      <4>5. QED
        BY <2>4, <3>3, <4>3, <4>4
    <3>5. receipt[r] = PostedReceipt(row(r), matched(r))
      BY <1>1, <2>5
    <3> HIDE DEF row, matched
    <3>6. /\ receipt[r].amount = paid[r] /\ receipt[r].matched = 0 + matched(r)
          /\ receipt[r].balance = paid[r] - (0 + matched(r))
          /\ receipt[r].status = IF paid[r] - (0 + matched(r)) <= 0
                                 THEN "ARCHIVED" ELSE "PARTIAL_MATCHED"
      BY <3>2, <3>5, PostedRow
    <3>7. Booked(r)
      BY <2>2, <2>4, <3>1, <3>3, <3>6 DEF Booked
    <3>8. StatusFits(r)
      BY <3>1, <3>3, <3>4, <3>6 DEF StatusFits
    <3>9. QED
      BY <3>7, <3>8
  <2>6. CASE r \notin posted
    <3>1. receipt[r] = NoReceipt
      BY <1>1, <2>6
    <3>2. MatchedOn(r) = {}
      BY <2>3, <2>6 DEF PostedOn
    <3>3. Total(MatchAmount, MatchedOn(r)) = 0
      BY <3>2, TotalEmpty
    <3>4. QED
      BY <2>2, <3>1, <3>3 DEF Booked, StatusFits, NoReceipt
  <2>7. QED
    BY <2>5, <2>6
<1>7. QED
  BY <1>5, <1>6 DEF ReceiptsOK

\* The actions of the allocations page ...
LEMMA MatchStepBooks ==
    ASSUME TypeOK, TypeOK', ReceiptsOK, AllocationsOK, MatchStep
    PROVE  ReceiptsOK' /\ AllocationsOK'
<1>1. ASSUME NEW Q \in SUBSET AbsentRequests, NEW r \in Receipts,
             NEW alloc \in [Q -> {x \in Allocation : x.receipt = r}], Submit(r, alloc)
      PROVE  ReceiptsOK' /\ AllocationsOK'
  <2>1. alloc \in [Q -> Allocation]
    OBVIOUS
  <2>2. ReceiptsCover(alloc) /\ request' = WithRequests(alloc) /\ UNCHANGED <<receipt, match>>
    BY <1>1 DEF Submit
  <2>3. QED
    BY <2>1, <2>2, NewRequests
<1>2. ASSUME NEW q \in Requests, NEW a \in Amounts, UpdateRequest(q, a)
      PROVE  ReceiptsOK' /\ AllocationsOK'
  BY <1>2, UpdateRequestBooks
<1>3. ASSUME NEW q \in Requests, DeleteRequest(q) \/ RejectRequest(q)
      PROVE  ReceiptsOK' /\ AllocationsOK'
  BY <1>3, CloseRequestBooks DEF DeleteRequest, RejectRequest
<1>4. ASSUME NEW q \in Requests, ReverseRequest(q)
      PROVE  ReceiptsOK' /\ AllocationsOK'
  BY <1>4, ReverseBooks
<1>5. ASSUME NEW q \in Requests, NEW m \in Matches, ApproveRequest(q, m)
      PROVE  ReceiptsOK' /\ AllocationsOK'
  BY <1>5, ApproveBooks
<1>6. ASSUME NEW r \in Receipts, NEW ms \in SUBSET MatchedOn(r), Unmatch(r, ms)
      PROVE  ReceiptsOK' /\ AllocationsOK'
  BY <1>6, UnmatchBooks
<1>7. QED
  BY <1>1, <1>2, <1>3, <1>4, <1>5, <1>6 DEF MatchStep

\* ... and of the order pages, where order entry may submit requests.
LEMMA ShipmentStepBooks ==
    ASSUME TypeOK, TypeOK', ReceiptsOK, AllocationsOK, ShipmentStep
    PROVE  ReceiptsOK' /\ AllocationsOK'
<1>1. ASSUME NEW s \in Shipments, NEW c \in Accounts,
             NEW F \in SUBSET {f \in Fees \ SystemFees : fee[f].status = "ABSENT"},
             NEW new \in [F -> Amounts], NEW Q \in SUBSET AbsentRequests,
             NEW alloc \in [Q -> {x \in Allocation : x.fee \in F}],
             OrderEntry(s, c, new, alloc)
      PROVE  ReceiptsOK' /\ AllocationsOK'
  <2>1. alloc \in [Q -> Allocation]
    OBVIOUS
  <2>2. ReceiptsCover(alloc) /\ request' = WithRequests(alloc) /\ UNCHANGED <<receipt, match>>
    BY <1>1 DEF OrderEntry
  <2>3. QED
    BY <2>1, <2>2, NewRequests
<1>2. \/ UNCHANGED <<receipt, request, match>>
      \/ \E s \in Shipments, c \in Accounts,
            F \in SUBSET {f \in Fees \ SystemFees : fee[f].status = "ABSENT"} :
            \E new \in [F -> Amounts], Q \in SUBSET AbsentRequests :
            \E alloc \in [Q -> {x \in Allocation : x.fee \in F}] : OrderEntry(s, c, new, alloc)
  BY DEF ShipmentStep, RegenerateFees, ReassignShipment, DeleteShipment
<1>3. QED
  BY <1>1, <1>2, NothingBooked

BooksInv == TypeOK /\ ReceiptsOK /\ AllocationsOK

LEMMA BooksInit == Init => BooksInv
<1>1. SUFFICES ASSUME Init PROVE BooksInv
  OBVIOUS
<1>2. TypeOK
  BY <1>1, InitType
<1>3. QED
  BY <1>1, <1>2, MigratedBooks DEF Init, BooksInv

LEMMA BooksStep == BooksInv /\ [Next]_vars => BooksInv'
<1>1. SUFFICES ASSUME TypeOK, ReceiptsOK, AllocationsOK, [Next]_vars PROVE BooksInv'
  BY DEF BooksInv
<1>2. TypeOK'
  <2>1. CASE Next
    BY <1>1, <2>1, ReceiptStepType, MatchStepType, FeeStepType, ShipmentStepType DEF Next
  <2>2. CASE UNCHANGED vars
    BY <1>1, <2>2 DEF TypeOK, vars
  <2>3. QED
    BY <1>1, <2>1, <2>2
<1>3. CASE ReceiptStep
  BY <1>1, <1>2, <1>3, ReceiptStepBooks, AllocationsKept DEF BooksInv
<1>4. CASE MatchStep
  BY <1>1, <1>2, <1>4, MatchStepBooks DEF BooksInv
<1>5. CASE FeeStep
  BY <1>1, <1>2, <1>5, FeeStepKeeps, NothingBooked DEF BooksInv
<1>6. CASE ShipmentStep
  BY <1>1, <1>2, <1>6, ShipmentStepBooks DEF BooksInv
<1>7. CASE UNCHANGED vars
  BY <1>1, <1>2, <1>7, NothingBooked DEF vars, BooksInv
<1>8. QED
  BY <1>1, <1>3, <1>4, <1>5, <1>6, <1>7 DEF Next

LEMMA BooksInvariant == Spec => []BooksInv
  BY BooksInit, BooksStep, PTL DEF Spec

\* Whatever the users do and in whatever order, a receipt's pending requests
\* fit into its balance, so every one of them can still be paid
\* (prisma.repository.ts, the transactions from createWaterReceipt to
\* unmatchWaterReceipt), for any number of receipts, receivables and users.
THEOREM ReceiptCapacityCorrect == Spec => []ReceiptCapacity
<1>1. BooksInv => ReceiptCapacity
  BY DEF BooksInv, ReceiptsOK, Booked, ReceiptCapacity
<1>2. QED
  BY <1>1, BooksInvariant, PTL

\* Matched amount, balance and status of a receipt are what its live matches
\* make them, however postings and reversals follow each other.
THEOREM ReceiptBooksCorrect == Spec => []ReceiptBooks
<1>1. BooksInv => ReceiptBooks
  BY DEF BooksInv, ReceiptsOK, Booked, StatusFits, ReceiptBooks
<1>2. QED
  BY <1>1, BooksInvariant, PTL

-----------------------------------------------------------------------------
(* The customers' accounts and the ledger follow the receipts, and what    *)
(* has been closed stays closed.                                           *)

\* An entered receipt has an amount, and one that has arrived a customer.
ReceiptStands(r) ==
    /\ receipt[r].status # "ABSENT" => receipt[r].amount > 0
    /\ Arrived(r) => receipt[r].account \in Accounts

\* A request is pending on a receipt that can be matched.
RequestWaits(q) == request[q].status = "PENDING" => Matchable(request[q].receipt)

LivesOK == /\ \A r \in Receipts : ReceiptStands(r)
           /\ \A q \in Requests : RequestWaits(q)

PaymentsOK == \A p \in Payments : payment[p].settled <= payment[p].amount

AccountsInv == LivesOK /\ PaymentsOK /\ LedgerFollowsReceipt /\ AccountConservation

-----------------------------------------------------------------------------
(* What the books of the receipts say of requests and matches.             *)

\* A pending request is covered by a receipt with a balance.
PendingCovered ==
    \A q \in Requests : request[q].status = "PENDING" =>
        LET row == receipt[request[q].receipt]
        IN  /\ request[q].receipt \in Receipts
            /\ request[q].amount <= row.balance /\ row.balance > 0
            /\ row.status \notin {"ABSENT", "ARCHIVED"}

LEMMA BooksCoverPending == BooksInv => PendingCovered
<1>1. SUFFICES ASSUME BooksInv, NEW q \in Requests, request[q].status = "PENDING"
               PROVE  LET row == receipt[request[q].receipt]
                      IN  /\ request[q].receipt \in Receipts
                          /\ request[q].amount <= row.balance /\ row.balance > 0
                          /\ row.status \notin {"ABSENT", "ARCHIVED"}
  BY DEF PendingCovered
<1>2. PICK r : r = request[q].receipt
  OBVIOUS
<1>3. TypeOK /\ r \in Receipts /\ request[q].amount > 0 /\ Booked(r) /\ StatusFits(r)
  BY <1>1, <1>2 DEF BooksInv, AllocationsOK, RequestFits, ReceiptsOK
<1>4. q \in PendingOn(r) /\ PendingOn(r) \in SUBSET Requests
  BY <1>1, <1>2 DEF PendingOn
<1>5. RequestAmount[q] <= Reserved(r)
  BY <1>3, <1>4, RequestTotals, TotalCovers DEF Reserved
<1>6. RequestAmount[q] = request[q].amount /\ request[q].amount \in Nat
  BY <1>3 DEF RequestAmount, TypeOK, RequestRow
<1>7. request[q].amount <= receipt[r].balance /\ receipt[r].balance > 0
  BY <1>3, <1>5, <1>6, ReceiptNumbers DEF Booked
<1>8. receipt[r].status \notin {"ABSENT", "ARCHIVED"}
  BY <1>3, <1>7, ReceiptNumbers DEF Booked, StatusFits
<1>9. QED
  BY <1>2, <1>3, <1>7, <1>8

LEMMA PendingCoveredNext == BooksInv' => PendingCovered'
  BY BooksCoverPending, PTL

\* A live match is on a receipt that has arrived.
MatchesArrived ==
    \A m \in Matches, r \in Receipts : match[m].status = "LIVE" /\ match[m].receipt = r =>
        receipt[r].matched > 0 /\ receipt[r].status \in {"PARTIAL_MATCHED", "ARCHIVED"}

LEMMA BooksArriveMatches == BooksInv => MatchesArrived
<1>1. SUFFICES ASSUME BooksInv, NEW m \in Matches, NEW r \in Receipts,
                      match[m].status = "LIVE", match[m].receipt = r
               PROVE  /\ receipt[r].matched > 0
                      /\ receipt[r].status \in {"PARTIAL_MATCHED", "ARCHIVED"}
  BY DEF MatchesArrived
<1>2. TypeOK /\ match[m].amount > 0 /\ Booked(r) /\ StatusFits(r)
  BY <1>1 DEF BooksInv, AllocationsOK, MatchFits, ReceiptsOK
<1>3. m \in MatchedOn(r) /\ MatchedOn(r) \in SUBSET Matches
  BY <1>1 DEF MatchedOn
<1>4. MatchAmount[m] <= Total(MatchAmount, MatchedOn(r))
  BY <1>2, <1>3, MatchTotals, TotalCovers
<1>5. MatchAmount[m] = match[m].amount /\ match[m].amount \in Nat
  BY <1>2 DEF MatchAmount, TypeOK, MatchRow
<1>6. receipt[r].matched > 0
  BY <1>2, <1>4, <1>5, ReceiptNumbers DEF Booked
<1>7. receipt[r].status # "ABSENT"
  BY <1>2, <1>6, ReceiptNumbers DEF Booked
<1>8. receipt[r].status \in {"ABSENT", "PENDING", "ARRIVED", "PARTIAL_MATCHED", "ARCHIVED", "VOIDED"}
  BY <1>2 DEF TypeOK, ReceiptRow
<1>9. QED
  BY <1>2, <1>6, <1>7, <1>8 DEF StatusFits

\* A receipt without a balance is archived already, unless it was never entered.
LEMMA NothingLeft ==
    ASSUME BooksInv, LivesOK, NEW r \in Receipts, receipt[r].status # "ABSENT", receipt[r].balance <= 0
    PROVE  receipt[r].status = "ARCHIVED"
<1>1. TypeOK /\ Booked(r) /\ StatusFits(r) /\ receipt[r].amount > 0
  BY DEF BooksInv, ReceiptsOK, LivesOK, ReceiptStands
<1>2. receipt[r].status \in {"ABSENT", "PENDING", "ARRIVED", "PARTIAL_MATCHED", "ARCHIVED", "VOIDED"}
  BY <1>1 DEF TypeOK, ReceiptRow
<1>3. QED
  BY <1>1, <1>2, ReceiptNumbers DEF Booked, StatusFits

\* What is reserved on a receipt without pending requests, and the reverse.
LEMMA NoneWaiting ==
    ASSUME BooksInv, NEW r \in Receipts, Reserved(r) = 0
    PROVE  PendingOn(r) = {}
<1>1. SUFFICES ASSUME NEW q \in PendingOn(r) PROVE FALSE
  OBVIOUS
<1>2. TypeOK /\ q \in Requests /\ request[q].amount > 0 /\ PendingOn(r) \in SUBSET Requests
  BY DEF BooksInv, AllocationsOK, RequestFits, PendingOn
<1>3. RequestAmount[q] <= Reserved(r)
  BY <1>2, RequestTotals, TotalCovers DEF Reserved
<1>4. RequestAmount[q] = request[q].amount /\ request[q].amount \in Nat
  BY <1>2 DEF RequestAmount, TypeOK, RequestRow
<1>5. QED
  BY <1>2, <1>3, <1>4

-----------------------------------------------------------------------------
(* The account of a customer as a sum over receipts and one over payments. *)

Balance == [r \in Receipts |-> receipt[r].balance]
Here(c) == {r \in Receipts : Arrived(r) /\ receipt[r].account = c}
Left    == [p \in Payments |-> payment[p].amount - payment[p].settled]
PaidBy(c) == {p \in Payments : payment[p].account = c}

\* What receipt r adds to the account of c.
Share(r, c) == IF Arrived(r) /\ receipt[r].account = c THEN receipt[r].balance ELSE 0

AccountFits(c) ==
    /\ account[c].balance = Total(Balance, Here(c)) + Total(Left, PaidBy(c))
    /\ Here(c) # {} => account[c].open

LEMMA AccountsFit == AccountConservation <=> \A c \in Accounts : AccountFits(c)
  BY DEF AccountConservation, AccountFits, Balance, Here, Left, PaidBy

LEMMA AccountsFitNext == AccountConservation' <=> \A c \in Accounts : AccountFits(c)'
  BY DEF AccountConservation, AccountFits, Balance, Here, Left, PaidBy

\* No balance is below zero.
BalancesStand == \A r \in Receipts : receipt[r].balance \in Nat /\ Balance[r] = receipt[r].balance

LEMMA BooksBalance == BooksInv => BalancesStand
<1>1. SUFFICES ASSUME BooksInv, NEW r \in Receipts PROVE receipt[r].balance \in Nat
  BY DEF BalancesStand, Balance
<1>2. TypeOK /\ Booked(r)
  BY <1>1 DEF BooksInv, ReceiptsOK
<1>3. QED
  BY <1>2, ReceiptNumbers DEF Booked

LEMMA BooksBalanceNext == BooksInv' => BalancesStand'
  BY BooksBalance, PTL

LEMMA HereTotals ==
    ASSUME BooksInv, NEW c
    PROVE  IsFiniteSet(Here(c)) /\ (\A r \in Here(c) : Balance[r] \in Nat) /\ Total(Balance, Here(c)) \in Nat
<1>1. IsFiniteSet(Here(c))
  BY FS_Subset, ConstantsOK DEF ConstantsOK, Here
<1>2. \A r \in Here(c) : Balance[r] \in Nat
  BY BooksBalance DEF BalancesStand, Here
<1>3. QED
  BY <1>1, <1>2, TotalType

LEMMA PaidTotals ==
    ASSUME TypeOK, PaymentsOK, NEW c
    PROVE  IsFiniteSet(PaidBy(c)) /\ (\A p \in PaidBy(c) : Left[p] \in Nat) /\ Total(Left, PaidBy(c)) \in Nat
<1>1. IsFiniteSet(PaidBy(c))
  BY FS_Subset, ConstantsOK DEF ConstantsOK, PaidBy
<1>2. \A p \in PaidBy(c) : Left[p] \in Nat
  BY DEF PaymentsOK, PaidBy, Left, TypeOK, PaymentRow
<1>3. QED
  BY <1>1, <1>2, TotalType

\* A step of receipt r that moves its share on the accounts along.
LEMMA ShareMoves ==
    ASSUME BooksInv, BooksInv', PaymentsOK, AccountConservation, NEW r \in Receipts,
           \A x \in Receipts \ {r} : receipt'[x] = receipt[x], payment' = payment,
           \A c \in Accounts :
              /\ account'[c].balance = account[c].balance + Share(r, c)' - Share(r, c)
              /\ account[c].open => account'[c].open
              /\ Arrived(r)' /\ receipt'[r].account = c => account'[c].open
    PROVE  AccountConservation'
<1>1. SUFFICES ASSUME NEW c \in Accounts PROVE AccountFits(c)'
  BY AccountsFitNext
<1>2. AccountFits(c)
  BY AccountsFit
<1>3. Here(c) \ {r} = Here(c)' \ {r}
  BY DEF Here, Arrived
<1>4. IsFiniteSet(Here(c)) /\ IsFiniteSet(Here(c)')
  BY FS_Subset, ConstantsOK DEF ConstantsOK, Here
<1>5. /\ \A x \in Here(c) : Balance[x] \in Nat
      /\ \A x \in Here(c)' : Balance'[x] \in Nat
      /\ \A x \in Here(c) \ {r} : Balance'[x] = Balance[x]
  BY BooksBalance, BooksBalanceNext DEF BalancesStand, Here, Balance
<1>6. Total(Balance', Here(c)') - (IF r \in Here(c)' THEN Balance'[r] ELSE 0)
        = Total(Balance, Here(c)) - (IF r \in Here(c) THEN Balance[r] ELSE 0)
  BY <1>3, <1>4, <1>5, TotalChange
<1>7. /\ (IF r \in Here(c) THEN Balance[r] ELSE 0) = Share(r, c)
      /\ (IF r \in Here(c)' THEN Balance'[r] ELSE 0) = Share(r, c)'
  BY DEF Here, Balance, Share
<1>8. /\ Total(Balance, Here(c)) \in Nat /\ Total(Balance', Here(c)') \in Nat
      /\ Share(r, c) \in Nat /\ Share(r, c)' \in Nat
  BY <1>4, <1>5, TotalType, BooksBalance, BooksBalanceNext DEF BalancesStand, Share
<1>9. Total(Left, PaidBy(c))' = Total(Left, PaidBy(c))
  BY DEF Left, PaidBy
<1>10. Total(Left, PaidBy(c)) \in Int
  BY PaidTotals DEF BooksInv
<1>11. account[c].balance \in Int
  BY DEF BooksInv, TypeOK, AccountRow
<1>12. account'[c].balance = Total(Balance', Here(c)') + Total(Left, PaidBy(c))'
  BY <1>2, <1>6, <1>7, <1>8, <1>9, <1>10, <1>11 DEF AccountFits
<1>13. Here(c)' # {} => account'[c].open
  BY <1>2 DEF AccountFits, Here, Arrived
<1>14. QED
  BY <1>12, <1>13 DEF AccountFits

\* A step that neither moves a balance nor closes an account.
LEMMA NothingMoves ==
    ASSUME AccountConservation, UNCHANGED <<receipt, payment>>,
           \A c \in Accounts : /\ account'[c].balance = account[c].balance
                               /\ account[c].open => account'[c].open
    PROVE  AccountConservation'
<1>1. ASSUME NEW c \in Accounts PROVE AccountFits(c)'
  <2>1. AccountFits(c)
    BY AccountsFit
  <2>2. Here(c)' = Here(c) /\ Balance' = Balance /\ Left' = Left /\ PaidBy(c)' = PaidBy(c)
    BY DEF Here, Arrived, Balance, Left, PaidBy
  <2>3. QED
    BY <2>1, <2>2 DEF AccountFits
<1>2. QED
  BY <1>1, AccountsFitNext

-----------------------------------------------------------------------------
(* Payments.                                                               *)

\* createPayment adds what it leaves over to its account alone.
LEMMA PaymentStep ==
    ASSUME BooksInv, AccountsInv, NEW p \in Payments, NEW k \in Accounts, NEW F \in SUBSET Fees,
           NEW a \in Amounts, CreatePayment(p, k, F, a), TypeOK'
    PROVE  PaymentsOK' /\ AccountConservation'
<1> DEFINE settled == Total(FeeAmount, F)
<1>1. /\ payment[p].account = None /\ settled <= a /\ UNCHANGED receipt
      /\ payment' = [payment EXCEPT ![p] = [account |-> k, amount |-> a, settled |-> settled, fees |-> F]]
      /\ account' = [account EXCEPT ![k].balance = @ + (a - settled)]
      /\ account[k].open
  BY DEF CreatePayment
<1> HIDE DEF settled
<1>2. /\ payment'[p].account = k /\ payment'[p].amount = a /\ payment'[p].settled = settled
      /\ \A x \in Payments \ {p} : payment'[x] = payment[x]
  BY <1>1 DEF BooksInv, TypeOK
<1>3. PaymentsOK'
  BY <1>1, <1>2 DEF AccountsInv, PaymentsOK
<1>4. k # None
  BY ConstantsOK DEF ConstantsOK
<1>5. ASSUME NEW c \in Accounts PROVE AccountFits(c)'
  <2>1. AccountFits(c)
    BY AccountsFit DEF AccountsInv
  <2>2. Here(c)' = Here(c) /\ Balance' = Balance
    BY <1>1 DEF Here, Arrived, Balance
  <2>3. account'[c].balance = account[c].balance + (IF c = k THEN a - settled ELSE 0)
        /\ (account[c].open => account'[c].open)
    BY <1>1 DEF BooksInv, TypeOK, AccountRow
  <2>4. PaidBy(c)' \ {p} = PaidBy(c) \ {p}
    BY <1>2 DEF PaidBy
  <2>5. /\ IsFiniteSet(PaidBy(c)) /\ IsFiniteSet(PaidBy(c)')
        /\ \A x \in PaidBy(c) : Left[x] \in Nat
        /\ \A x \in PaidBy(c)' : Left'[x] \in Nat
        /\ \A x \in PaidBy(c) \ {p} : Left'[x] = Left[x]
    <3>1. IsFiniteSet(PaidBy(c)')
      BY FS_Subset, ConstantsOK DEF ConstantsOK, PaidBy
    <3>2. \A x \in PaidBy(c)' : Left'[x] \in Nat
      BY <1>3 DEF PaymentsOK, PaidBy, Left, TypeOK, PaymentRow
    <3>3. \A x \in PaidBy(c) \ {p} : Left'[x] = Left[x]
      BY <1>2 DEF PaidBy, Left
    <3>4. QED
      BY <3>1, <3>2, <3>3, PaidTotals DEF BooksInv, AccountsInv
  <2>6. Total(Left', PaidBy(c)') - (IF p \in PaidBy(c)' THEN Left'[p] ELSE 0)
          = Total(Left, PaidBy(c)) - (IF p \in PaidBy(c) THEN Left[p] ELSE 0)
    BY <2>4, <2>5, TotalChange
  <2>7. p \notin PaidBy(c) /\ (p \in PaidBy(c)' <=> c = k)
    BY <1>1, <1>2, <1>4, ConstantsOK DEF PaidBy, ConstantsOK
  <2>8. Left'[p] = a - settled
    BY <1>2 DEF Left
  <2>9. /\ Total(Left, PaidBy(c)) \in Nat /\ Total(Left', PaidBy(c)') \in Nat
        /\ Total(Balance, Here(c)) \in Nat
    BY <2>5, TotalType, HereTotals
  <2>10. a - settled \in Int
    BY <1>2, <1>1, EnteredAmount DEF TypeOK, PaymentRow
  <2>11. account'[c].balance = Total(Balance, Here(c)) + Total(Left', PaidBy(c)')
    BY <2>1, <2>3, <2>6, <2>7, <2>8, <2>9, <2>10 DEF AccountFits
  <2>12. QED
    BY <2>1, <2>2, <2>3, <2>11 DEF AccountFits
<1>6. QED
  BY <1>3, <1>5, AccountsFitNext

-----------------------------------------------------------------------------
(* Steps of one receipt.                                                   *)

LedgerFits(r) ==
    /\ Arrived(r) => ledger[r] = [account |-> receipt[r].account, amount |-> receipt[r].amount,
                                  balance |-> receipt[r].balance, reversal |-> 0]
    /\ receipt[r].status = "VOIDED" => ledger[r].reversal = ledger[r].amount
    /\ receipt[r].status \in {"ABSENT", "PENDING"} => ledger[r] = NoLedger

LEMMA LedgerFitsAll == LedgerFollowsReceipt <=> \A r \in Receipts : LedgerFits(r)
  BY DEF LedgerFollowsReceipt, LedgerFits, Arrived

LEMMA LedgerFitsNext == LedgerFollowsReceipt' <=> \A r \in Receipts : LedgerFits(r)'
  BY DEF LedgerFollowsReceipt, LedgerFits, Arrived

\* Step of receipt r that looks after r's own row, its ledger row and the
\* requests that wait for it.
LEMMA ReceiptAlone ==
    ASSUME BooksInv, BooksInv', AccountsInv, NEW r \in Receipts, UNCHANGED <<request, payment>>,
           \A x \in Receipts \ {r} : receipt'[x] = receipt[x] /\ ledger'[x] = ledger[x],
           ReceiptStands(r)', LedgerFits(r)', PendingOn(r) = {},
           \A c \in Accounts :
              /\ account'[c].balance = account[c].balance + Share(r, c)' - Share(r, c)
              /\ account[c].open => account'[c].open
              /\ Arrived(r)' /\ receipt'[r].account = c => account'[c].open
    PROVE  AccountsInv'
<1>1. LivesOK'
  <2>1. \A x \in Receipts : ReceiptStands(x)'
    BY DEF AccountsInv, LivesOK, ReceiptStands, Arrived
  <2>2. ASSUME NEW q \in Requests PROVE RequestWaits(q)'
    <3>1. request[q].status = "PENDING" => request[q].receipt \in Receipts \ {r}
      BY DEF BooksInv, AllocationsOK, RequestFits, PendingOn
    <3>2. QED
      BY <3>1 DEF AccountsInv, LivesOK, RequestWaits, Matchable
  <2>3. QED
    BY <2>1, <2>2 DEF LivesOK
<1>2. PaymentsOK'
  BY DEF AccountsInv, PaymentsOK
<1>3. LedgerFollowsReceipt'
  <2>1. \A x \in Receipts : LedgerFits(x)
    BY LedgerFitsAll DEF AccountsInv
  <2>2. \A x \in Receipts : LedgerFits(x)'
    BY <2>1 DEF LedgerFits, Arrived
  <2>3. QED
    BY <2>2, LedgerFitsNext
<1>4. AccountConservation'
  BY ShareMoves DEF AccountsInv
<1>5. QED
  BY <1>1, <1>2, <1>3, <1>4 DEF AccountsInv

\* Nobody waits for a receipt that cannot be matched.
LEMMA NobodyWaits ==
    ASSUME BooksInv, LivesOK, NEW r \in Receipts, ~ Matchable(r)
    PROVE  PendingOn(r) = {}
  BY DEF LivesOK, RequestWaits, PendingOn

LEMMA CreateReceiptAccounts ==
    ASSUME BooksInv, BooksInv', AccountsInv, NEW r \in Receipts, NEW c \in Accounts \cup {None},
           NEW a \in Amounts, CreateReceipt(r, c, a) \/ UpdatePendingReceipt(r, c, a)
    PROVE  AccountsInv'
<1>1. /\ receipt[r].status \in {"ABSENT", "PENDING"}
      /\ receipt'[r].status = "PENDING" /\ receipt'[r].amount = a
      /\ \A x \in Receipts \ {r} : receipt'[x] = receipt[x]
      /\ UNCHANGED <<ledger, account, request, payment>>
  <2>1. CASE CreateReceipt(r, c, a)
    BY <2>1 DEF CreateReceipt, NoReceipt, BooksInv, TypeOK
  <2>2. CASE UpdatePendingReceipt(r, c, a)
    BY <2>2 DEF UpdatePendingReceipt, BooksInv, TypeOK, ReceiptRow
  <2>3. QED
    BY <2>1, <2>2
<1>2. ReceiptStands(r)'
  BY <1>1, EnteredAmount DEF ReceiptStands, Arrived
<1>3. LedgerFits(r)'
  BY <1>1, LedgerFitsAll DEF AccountsInv, LedgerFits, Arrived
<1>4. PendingOn(r) = {}
  BY <1>1, NobodyWaits DEF AccountsInv, Matchable
<1>5. ASSUME NEW k \in Accounts
      PROVE  /\ account'[k].balance = account[k].balance + Share(r, k)' - Share(r, k)
             /\ account[k].open => account'[k].open
             /\ Arrived(r)' /\ receipt'[r].account = k => account'[k].open
  <2>1. Share(r, k)' = 0 /\ Share(r, k) = 0
    BY <1>1 DEF Share, Arrived
  <2>2. account[k].balance \in Int
    BY DEF BooksInv, TypeOK, AccountRow
  <2>3. QED
    BY <1>1, <2>1, <2>2 DEF Arrived
<1>6. QED
  BY <1>1, <1>2, <1>3, <1>4, <1>5, ReceiptAlone

LEMMA VoidPendingAccounts ==
    ASSUME BooksInv, BooksInv', AccountsInv, NEW r \in Receipts, VoidPendingReceipt(r)
    PROVE  AccountsInv'
<1>1. /\ receipt[r].status = "PENDING" /\ receipt'[r].status = "VOIDED"
      /\ receipt'[r].amount = receipt[r].amount /\ PendingOn(r) = {}
      /\ \A x \in Receipts \ {r} : receipt'[x] = receipt[x]
      /\ UNCHANGED <<ledger, account, request, payment>>
  BY DEF VoidPendingReceipt, BooksInv, TypeOK, ReceiptRow
<1>2. ReceiptStands(r)'
  BY <1>1 DEF AccountsInv, LivesOK, ReceiptStands, Arrived
<1>3. LedgerFits(r)'
  <2>1. ledger[r] = NoLedger
    BY <1>1 DEF AccountsInv, LedgerFollowsReceipt
  <2>2. QED
    BY <1>1, <2>1 DEF LedgerFits, Arrived, NoLedger
<1>4. ASSUME NEW k \in Accounts
      PROVE  /\ account'[k].balance = account[k].balance + Share(r, k)' - Share(r, k)
             /\ account[k].open => account'[k].open
             /\ Arrived(r)' /\ receipt'[r].account = k => account'[k].open
  <2>1. Share(r, k)' = 0 /\ Share(r, k) = 0
    BY <1>1 DEF Share, Arrived
  <2>2. account[k].balance \in Int
    BY DEF BooksInv, TypeOK, AccountRow
  <2>3. QED
    BY <1>1, <2>1, <2>2 DEF Arrived
<1>5. QED
  BY <1>1, <1>2, <1>3, <1>4, ReceiptAlone

\* The numbers of a receipt without matches.
LEMMA UnmatchedBalance ==
    ASSUME BooksInv, NEW r \in Receipts, receipt[r].matched <= 0
    PROVE  receipt[r].matched = 0 /\ receipt[r].balance = receipt[r].amount
<1>1. TypeOK /\ Booked(r)
  BY DEF BooksInv, ReceiptsOK
<1>2. QED
  BY <1>1, ReceiptNumbers DEF Booked

\* Arrival credits the whole amount, which nothing has been matched of.
LEMMA MarkArrivedAccounts ==
    ASSUME BooksInv, BooksInv', AccountsInv, NEW r \in Receipts, MarkArrived(r)
    PROVE  AccountsInv'
<1> DEFINE k == receipt[r].account
<1>1. /\ receipt[r].status = "PENDING" /\ receipt'[r].status = "ARRIVED" /\ k \in Accounts
      /\ receipt'[r].account = k /\ receipt'[r].amount = receipt[r].amount
      /\ receipt'[r].balance = receipt[r].balance
      /\ \A x \in Receipts \ {r} : receipt'[x] = receipt[x] /\ ledger'[x] = ledger[x]
      /\ ledger'[r] = LedgerOf(receipt[r])
      /\ account' = [account EXCEPT ![k] = [open |-> TRUE, balance |-> @.balance + receipt[r].amount]]
      /\ UNCHANGED <<request, payment>>
  BY DEF MarkArrived, BooksInv, TypeOK, ReceiptRow
<1>2. receipt[r].balance = receipt[r].amount
  <2>1. receipt[r].matched = 0
    BY <1>1 DEF BooksInv, ReceiptsOK, StatusFits
  <2>2. QED
    BY <2>1, UnmatchedBalance
<1>3. ReceiptStands(r)'
  BY <1>1 DEF AccountsInv, LivesOK, ReceiptStands, Arrived
<1>4. LedgerFits(r)'
  BY <1>1 DEF LedgerFits, Arrived, LedgerOf
<1>5. PendingOn(r) = {}
  BY <1>1, NobodyWaits DEF AccountsInv, Matchable
<1>6. ASSUME NEW c \in Accounts
      PROVE  /\ account'[c].balance = account[c].balance + Share(r, c)' - Share(r, c)
             /\ account[c].open => account'[c].open
             /\ Arrived(r)' /\ receipt'[r].account = c => account'[c].open
  <2>1. Share(r, c)' = (IF c = k THEN receipt[r].amount ELSE 0) /\ Share(r, c) = 0
    BY <1>1, <1>2 DEF Share, Arrived
  <2>2. account[c].balance \in Int /\ receipt[r].amount \in Nat
    BY DEF BooksInv, TypeOK, AccountRow, ReceiptRow
  <2>3. account'[c] = IF c = k THEN [open |-> TRUE, balance |-> account[c].balance + receipt[r].amount]
                      ELSE account[c]
    BY <1>1 DEF BooksInv, TypeOK
  <2> HIDE DEF k
  <2>4. CASE c = k
    BY <2>1, <2>2, <2>3, <2>4
  <2>5. CASE c # k
    BY <1>1, <2>1, <2>2, <2>3, <2>5
  <2>6. QED
    BY <2>4, <2>5
<1>7. QED
  BY <1>1, <1>3, <1>4, <1>5, <1>6, ReceiptAlone

\* Voiding debits the whole amount again.
LEMMA VoidArrivedAccounts ==
    ASSUME BooksInv, BooksInv', AccountsInv, NEW r \in Receipts, VoidArrivedReceipt(r)
    PROVE  AccountsInv'
<1> DEFINE k == receipt[r].account
<1>1. /\ receipt[r].status = "ARRIVED" /\ receipt'[r].status = "VOIDED" /\ receipt[r].matched <= 0
      /\ receipt'[r].amount = receipt[r].amount /\ PendingOn(r) = {}
      /\ \A x \in Receipts \ {r} : receipt'[x] = receipt[x]
      /\ ledger' = [ledger EXCEPT ![r].reversal = receipt[r].amount]
      /\ account' = [account EXCEPT ![k].balance = @ - receipt[r].amount]
      /\ UNCHANGED <<request, payment>>
  BY DEF VoidArrivedReceipt, BooksInv, TypeOK, ReceiptRow
<1>2. receipt[r].balance = receipt[r].amount /\ k \in Accounts
  BY <1>1, UnmatchedBalance DEF AccountsInv, LivesOK, ReceiptStands, Arrived
<1>3. ReceiptStands(r)'
  BY <1>1 DEF AccountsInv, LivesOK, ReceiptStands, Arrived
<1>4. LedgerFits(r)' /\ \A x \in Receipts \ {r} : ledger'[x] = ledger[x]
  <2>1. ledger[r].amount = receipt[r].amount
    <3>1. LedgerFits(r) /\ Arrived(r)
      BY <1>1, LedgerFitsAll DEF AccountsInv, Arrived
    <3>2. ledger[r] = [account |-> receipt[r].account, amount |-> receipt[r].amount,
                       balance |-> receipt[r].balance, reversal |-> 0]
      BY <3>1 DEF LedgerFits
    <3>3. QED
      BY <3>2
  <2>2. ledger \in [Receipts -> LedgerRow]
    BY DEF BooksInv, TypeOK
  <2>3. ledger'[r].amount = ledger[r].amount /\ ledger'[r].reversal = receipt[r].amount
        /\ \A x \in Receipts \ {r} : ledger'[x] = ledger[x]
    BY <1>1, <2>2 DEF LedgerRow
  <2>4. QED
    BY <1>1, <2>1, <2>3 DEF LedgerFits, Arrived
<1>5. ASSUME NEW c \in Accounts
      PROVE  /\ account'[c].balance = account[c].balance + Share(r, c)' - Share(r, c)
             /\ account[c].open => account'[c].open
             /\ Arrived(r)' /\ receipt'[r].account = c => account'[c].open
  <2>1. Share(r, c)' = 0 /\ Share(r, c) = (IF c = k THEN receipt[r].amount ELSE 0)
    BY <1>1, <1>2 DEF Share, Arrived
  <2>2. account[c].balance \in Int /\ receipt[r].amount \in Nat
    BY DEF BooksInv, TypeOK, AccountRow, ReceiptRow
  <2>3. /\ account'[c].balance = account[c].balance - (IF c = k THEN receipt[r].amount ELSE 0)
        /\ account'[c].open = account[c].open
    BY <1>1, <2>2 DEF BooksInv, TypeOK, AccountRow
  <2>4. ~ Arrived(r)'
    BY <1>1 DEF Arrived
  <2> HIDE DEF k
  <2>5. QED
    BY <2>1, <2>2, <2>3, <2>4
<1>6. QED
  BY <1>1, <1>3, <1>4, <1>5, ReceiptAlone

\* An update moves the balance, which is the whole amount, to the new account.
LEMMA UpdateArrivedAccounts ==
    ASSUME BooksInv, BooksInv', AccountsInv, NEW r \in Receipts, NEW k \in Accounts,
           NEW a \in Amounts, UpdateArrivedReceipt(r, k, a)
    PROVE  AccountsInv'
<1> DEFINE h == receipt[r].account
<1>0. a \in Nat /\ a > 0
  BY EnteredAmount
<1>1. /\ Arrived(r) /\ receipt[r].matched <= 0 /\ Reserved(r) = 0 /\ account[h].open
      /\ receipt'[r].account = k /\ receipt'[r].amount = a
      /\ receipt'[r].balance = a - receipt[r].matched
      /\ receipt'[r].status = IF a - receipt[r].matched <= 0 THEN "ARCHIVED"
             ELSE IF receipt[r].matched > 0 THEN "PARTIAL_MATCHED" ELSE "ARRIVED"
      /\ \A x \in Receipts \ {r} : receipt'[x] = receipt[x] /\ ledger'[x] = ledger[x]
      /\ ledger'[r] = LedgerOf(receipt'[r])
      /\ account' = MovedBalance(receipt[r], k, a - receipt[r].matched)
      /\ UNCHANGED <<request, payment>>
  BY DEF UpdateArrivedReceipt, BooksInv, TypeOK, ReceiptRow
<1>2. /\ receipt[r].matched = 0 /\ receipt[r].balance = receipt[r].amount /\ h \in Accounts
      /\ receipt[r].amount \in Nat
  BY <1>1, UnmatchedBalance DEF AccountsInv, LivesOK, ReceiptStands, BooksInv, TypeOK, ReceiptRow
<1>3. receipt'[r].balance = a /\ receipt'[r].status = "ARRIVED"
  BY <1>0, <1>1, <1>2
<1>4. ReceiptStands(r)'
  BY <1>0, <1>1 DEF ReceiptStands
<1>5. LedgerFits(r)'
  BY <1>1, <1>3 DEF LedgerFits, LedgerOf
<1>6. PendingOn(r) = {}
  BY <1>1, NoneWaiting
<1>7. ASSUME NEW c \in Accounts
      PROVE  /\ account'[c].balance = account[c].balance + Share(r, c)' - Share(r, c)
             /\ account[c].open => account'[c].open
             /\ Arrived(r)' /\ receipt'[r].account = c => account'[c].open
  <2>1. /\ Share(r, c)' = (IF c = k THEN a ELSE 0)
        /\ Share(r, c) = (IF c = h THEN receipt[r].amount ELSE 0)
    BY <1>1, <1>2, <1>3 DEF Share, Arrived
  <2>2. account[c].balance \in Int /\ account[k].balance \in Int /\ account[c].open \in BOOLEAN
    BY DEF BooksInv, TypeOK, AccountRow
  <2>3. CASE k = h
    <3>1. account' = [account EXCEPT ![k].balance = @ + (a - receipt[r].matched) - receipt[r].amount]
      BY <1>1, <1>2, <2>3 DEF MovedBalance
    <3>2. account'[c].balance = account[c].balance + (IF c = k THEN a - receipt[r].amount ELSE 0)
          /\ account'[c].open = account[c].open
      BY <1>0, <1>2, <2>2, <3>1 DEF BooksInv, TypeOK, AccountRow
    <3> HIDE DEF h
    <3>3. QED
      BY <1>0, <1>1, <1>2, <2>1, <2>2, <2>3, <3>2
  <2>4. CASE k # h
    <3>1. account' = [account EXCEPT ![h].balance = @ - receipt[r].amount,
                         ![k] = [open |-> TRUE, balance |-> @.balance + (a - receipt[r].matched)]]
      BY <1>1, <1>2, <2>4 DEF MovedBalance
    <3>2. account'[k] = [open |-> TRUE, balance |-> account[k].balance + (a - receipt[r].matched)]
      BY <1>2, <2>4, <3>1 DEF BooksInv, TypeOK
    <3>3. c # k => account'[c] = IF c = h THEN [account[c] EXCEPT !.balance = @ - receipt[r].amount]
                                 ELSE account[c]
      BY <1>2, <2>4, <3>1 DEF BooksInv, TypeOK
    <3>4. c # k => /\ account'[c].balance = account[c].balance - (IF c = h THEN receipt[r].amount ELSE 0)
                   /\ account'[c].open = account[c].open
      BY <1>2, <2>2, <3>3 DEF BooksInv, TypeOK, AccountRow
    <3> HIDE DEF h
    <3>5. CASE c = k
      BY <1>0, <1>2, <2>1, <2>2, <2>4, <3>2, <3>5
    <3>6. CASE c # k
      BY <1>0, <1>1, <1>2, <2>1, <2>2, <3>4, <3>6
    <3>7. QED
      BY <3>5, <3>6
  <2>5. QED
    BY <2>3, <2>4
<1>8. QED
  BY <1>1, <1>4, <1>5, <1>6, <1>7, ReceiptAlone

\* Steps that leave receipts, ledger and payments alone, and no request waiting
\* for a receipt that cannot be matched.
LEMMA NoReceiptTouched ==
    ASSUME AccountsInv, UNCHANGED <<receipt, ledger, payment>>,
           \A q \in Requests : RequestWaits(q)',
           \A c \in Accounts : /\ account'[c].balance = account[c].balance
                               /\ account[c].open => account'[c].open
    PROVE  AccountsInv'
<1>1. LivesOK'
  BY DEF AccountsInv, LivesOK, ReceiptStands, Arrived
<1>2. PaymentsOK' /\ LedgerFollowsReceipt'
  BY DEF AccountsInv, PaymentsOK, LedgerFollowsReceipt, Arrived
<1>3. AccountConservation'
  BY NothingMoves DEF AccountsInv
<1>4. QED
  BY <1>1, <1>2, <1>3 DEF AccountsInv

LEMMA ArchiveReceiptAccounts ==
    ASSUME BooksInv, AccountsInv, NEW r \in Receipts, ArchiveReceipt(r)
    PROVE  AccountsInv'
<1>1. receipt[r].status = "ARCHIVED"
  BY NothingLeft DEF ArchiveReceipt, AccountsInv
<1>2. UNCHANGED <<receipt, ledger, account, request, payment>>
  BY <1>1 DEF ArchiveReceipt, BooksInv, TypeOK, ReceiptRow
<1>3. \A q \in Requests : RequestWaits(q)'
  BY <1>2 DEF AccountsInv, LivesOK, RequestWaits, Matchable
<1>4. QED
  BY <1>2, <1>3, NoReceiptTouched

LEMMA ReceiptStepAccounts ==
    ASSUME BooksInv, BooksInv', AccountsInv, ReceiptStep
    PROVE  AccountsInv'
  BY CreateReceiptAccounts, UpdateArrivedAccounts, MarkArrivedAccounts, ArchiveReceiptAccounts,
     VoidPendingAccounts, VoidArrivedAccounts DEF ReceiptStep

-----------------------------------------------------------------------------
(* Steps of the allocations.                                               *)

\* Receipt r gets n back, or pays -n, on the account it was credited to.
Reallocated(r, n) ==
    /\ Arrived(r) /\ Arrived(r)'
    /\ receipt'[r].account = receipt[r].account /\ receipt'[r].amount = receipt[r].amount
    /\ receipt'[r].balance = receipt[r].balance + n
    /\ \A x \in Receipts \ {r} : receipt'[x] = receipt[x]
    /\ ledger' = [ledger EXCEPT ![r].balance = receipt'[r].balance]
    /\ account' = Adjusted(receipt[r].account, n)
    /\ payment' = payment
    /\ \A q \in Requests : request'[q].status = "PENDING" =>
          \/ request'[q].receipt = r
          \/ request[q].status = "PENDING" /\ request[q].receipt = request'[q].receipt

LEMMA ReallocatedAccounts ==
    ASSUME BooksInv, BooksInv', AccountsInv, NEW r \in Receipts, NEW n \in Int, Reallocated(r, n)
    PROVE  AccountsInv'
<1> DEFINE k == receipt[r].account
<1>1. k \in Accounts /\ account[k].open
  <2>1. k \in Accounts
    BY DEF Reallocated, AccountsInv, LivesOK, ReceiptStands
  <2>2. AccountFits(k) /\ r \in Here(k)
    BY <2>1, AccountsFit DEF AccountsInv, Here, Reallocated
  <2>3. QED
    BY <2>1, <2>2 DEF AccountFits
<1>2. LivesOK'
  <2>1. \A x \in Receipts : ReceiptStands(x)'
    BY <1>1 DEF AccountsInv, LivesOK, ReceiptStands, Arrived, Reallocated
  <2>2. ASSUME NEW q \in Requests, request'[q].status = "PENDING"
        PROVE  Matchable(request[q].receipt)'
    <3>1. request'[q].receipt \in Receipts /\ receipt'[request'[q].receipt].status # "ARCHIVED"
      BY <2>2, PendingCoveredNext DEF PendingCovered
    <3>2. CASE request'[q].receipt = r
      BY <3>1, <3>2 DEF Reallocated, Arrived, Matchable
    <3>3. CASE request'[q].receipt # r
      BY <2>2, <3>1, <3>3 DEF Reallocated, Matchable, AccountsInv, LivesOK, RequestWaits
    <3>4. QED
      BY <3>2, <3>3
  <2>3. QED
    BY <2>1, <2>2 DEF LivesOK, RequestWaits
<1>3. PaymentsOK'
  BY DEF AccountsInv, PaymentsOK, Reallocated
<1>4. ASSUME NEW x \in Receipts PROVE LedgerFits(x)'
  <2>1. LedgerFits(x) /\ ledger \in [Receipts -> LedgerRow]
    BY LedgerFitsAll DEF AccountsInv, BooksInv, TypeOK
  <2>2. CASE x # r
    BY <2>1, <2>2 DEF Reallocated, LedgerFits, Arrived
  <2>3. CASE x = r
    <3>1. /\ ledger[r] = [account |-> k, amount |-> receipt[r].amount,
                           balance |-> receipt[r].balance, reversal |-> 0]
          /\ ledger'[r] = [ledger[r] EXCEPT !.balance = receipt'[r].balance]
      BY <2>1, <2>3 DEF Reallocated, LedgerFits
    <3>2. ledger'[r] = [account |-> receipt'[r].account, amount |-> receipt'[r].amount,
                        balance |-> receipt'[r].balance, reversal |-> 0]
      BY <3>1 DEF Reallocated
    <3>3. QED
      BY <2>3, <3>2 DEF LedgerFits, Reallocated, Arrived
  <2>4. QED
    BY <2>2, <2>3
<1>5. ASSUME NEW c \in Accounts
      PROVE  /\ account'[c].balance = account[c].balance + Share(r, c)' - Share(r, c)
             /\ account[c].open => account'[c].open
             /\ Arrived(r)' /\ receipt'[r].account = c => account'[c].open
  <2>1. /\ Share(r, c) = (IF c = k THEN receipt[r].balance ELSE 0)
        /\ Share(r, c)' = (IF c = k THEN receipt[r].balance + n ELSE 0)
    BY DEF Share, Reallocated
  <2>2. account[c].balance \in Int /\ receipt[r].balance \in Int
    BY DEF BooksInv, TypeOK, AccountRow, ReceiptRow
  <2>3. account' = [account EXCEPT ![k].balance = @ + n] /\ receipt'[r].account = k
    BY <1>1 DEF Reallocated, Adjusted
  <2>4. account'[c].balance = account[c].balance + (IF c = k THEN n ELSE 0)
        /\ account'[c].open = account[c].open
    BY <1>1, <2>2, <2>3 DEF BooksInv, TypeOK, AccountRow
  <2> HIDE DEF k
  <2>5. QED
    BY <1>1, <2>1, <2>2, <2>3, <2>4
<1>6. AccountConservation'
  BY <1>5, ShareMoves DEF AccountsInv, Reallocated
<1>7. QED
  BY <1>2, <1>3, <1>4, <1>6, LedgerFitsNext DEF AccountsInv

\* The customer of a receipt stays, whatever is posted against it.
LEMMA PostedAccount ==
    ASSUME NEW row \in ReceiptRow, NEW a
    PROVE  /\ PostedReceipt(row, a).account = row.account
           /\ UnpostedReceipt(row, a).account = row.account
  BY DEF PostedReceipt, UnpostedReceipt, ReceiptRow

\* An approval pays from the balance of its receipt.
LEMMA ApproveAccounts ==
    ASSUME BooksInv, BooksInv', AccountsInv, NEW q \in Requests, NEW m \in Matches,
           ApproveRequest(q, m)
    PROVE  AccountsInv'
<1>0. PICK r, a : r = request[q].receipt /\ a = request[q].amount
  OBVIOUS
<1>1. r \in Receipts /\ a \in Nat /\ receipt[r] \in ReceiptRow
  BY <1>0 DEF ApproveRequest, BooksInv, AllocationsOK, RequestFits, TypeOK, RequestRow
<1>2. /\ Matchable(r)
      /\ receipt'[r] = PostedReceipt(receipt[r], a)
      /\ \A x \in Receipts \ {r} : receipt'[x] = receipt[x]
      /\ ledger' = [ledger EXCEPT ![r].balance = PostedReceipt(receipt[r], a).balance]
      /\ account' = Adjusted(receipt[r].account, -a)
      /\ payment' = payment
  BY <1>0, <1>1 DEF ApproveRequest, BooksInv, TypeOK
<1>3. /\ receipt'[r].account = receipt[r].account /\ receipt'[r].amount = receipt[r].amount
      /\ receipt'[r].balance = receipt[r].amount - (receipt[r].matched + a)
      /\ receipt'[r].status \in {"ARCHIVED", "PARTIAL_MATCHED"}
  BY <1>1, <1>2, PostedRow, PostedAccount
<1>4. /\ receipt[r].balance = receipt[r].amount - receipt[r].matched
      /\ receipt[r].matched \in Int /\ receipt[r].amount \in Int
  BY <1>1 DEF BooksInv, ReceiptsOK, Booked, ReceiptRow
<1>5. receipt'[r].balance = receipt[r].balance + (-a)
  BY <1>1, <1>3, <1>4
<1>6. \A p \in Requests : request'[p].status = "PENDING" => request'[p] = request[p]
  BY DEF ApproveRequest, BooksInv, TypeOK, RequestRow
<1>7. Reallocated(r, -a)
  BY <1>2, <1>3, <1>5, <1>6 DEF Reallocated, Arrived, Matchable
<1>8. QED
  BY <1>1, <1>7, ReallocatedAccounts

\* What is taken back returns to the balance of its receipt.
LEMMA TakeBackAccounts ==
    ASSUME BooksInv, BooksInv', AccountsInv, NEW r \in Receipts, NEW ms \in SUBSET Matches,
           TakeBack(r, ms),
           \A q \in Requests : request'[q].status = "PENDING" =>
              request'[q].receipt = r \/ request'[q] = request[q]
    PROVE  AccountsInv'
<1> DEFINE n == Total(MatchAmount, ms)
<1>1. TypeOK /\ Booked(r) /\ receipt[r] \in ReceiptRow
  BY DEF BooksInv, ReceiptsOK, TypeOK
<1>2. MatchedOn(r) \in SUBSET Matches /\ ms \in SUBSET MatchedOn(r) /\ ms # {}
  BY DEF MatchedOn, TakeBack
<1>3. n \in Nat /\ n <= receipt[r].matched
  BY <1>1, <1>2, MatchTotals, TotalWithin DEF Booked
<1>4. /\ receipt'[r] = UnpostedReceipt(receipt[r], n)
      /\ \A x \in Receipts \ {r} : receipt'[x] = receipt[x]
      /\ ledger' = [ledger EXCEPT ![r].balance = UnpostedReceipt(receipt[r], n).balance]
      /\ account' = Adjusted(receipt[r].account, n)
      /\ payment' = payment
  BY DEF TakeBack, BooksInv, TypeOK
<1> HIDE DEF n
<1>5. /\ receipt'[r].account = receipt[r].account /\ receipt'[r].amount = receipt[r].amount
      /\ receipt'[r].balance = receipt[r].amount - AtLeastZero(receipt[r].matched - n)
      /\ receipt'[r].status \in {"ARRIVED", "PARTIAL_MATCHED"}
  BY <1>1, <1>4, UnpostedRow, PostedAccount
<1>6. AtLeastZero(receipt[r].matched - n) = receipt[r].matched - n
  BY <1>1, <1>3, ReceiptNumbers DEF AtLeastZero
<1>7. receipt'[r].balance = receipt[r].balance + n
  BY <1>1, <1>3, <1>5, <1>6, ReceiptNumbers DEF Booked
<1>8. Arrived(r)
  <2>1. PICK m \in ms : m \in Matches /\ match[m].status = "LIVE" /\ match[m].receipt = r
    BY <1>2 DEF MatchedOn
  <2>2. QED
    BY <2>1, BooksArriveMatches DEF MatchesArrived, Arrived
<1>9. Reallocated(r, n)
  BY <1>4, <1>5, <1>7, <1>8 DEF Reallocated, Arrived
<1>10. QED
  BY <1>3, <1>9, ReallocatedAccounts

\* New requests are for receipts that can be matched.
LEMMA NewRequestsAccounts ==
    ASSUME BooksInv, AccountsInv, UNCHANGED <<receipt, ledger, account, payment>>,
           NEW Q \in SUBSET AbsentRequests, NEW alloc \in [Q -> Allocation],
           ReceiptsCover(alloc), request' = WithRequests(alloc)
    PROVE  AccountsInv'
<1>1. ASSUME NEW q \in Requests PROVE RequestWaits(q)'
  <2>1. CASE q \in Q
    <3>1. alloc[q] \in Allocation
      BY <2>1
    <3>2. alloc[q].receipt \in Receipts /\ q \in ChargedTo(alloc, alloc[q].receipt)
      BY <2>1, <3>1 DEF Allocation, ChargedTo
    <3>3. Matchable(alloc[q].receipt)
      BY <3>2 DEF ReceiptsCover
    <3>4. request'[q].receipt = alloc[q].receipt
      BY <2>1 DEF WithRequests
    <3>5. QED
      BY <3>3, <3>4 DEF RequestWaits, Matchable
  <2>2. CASE q \notin Q
    BY <2>2 DEF WithRequests, AccountsInv, LivesOK, RequestWaits, Matchable
  <2>3. QED
    BY <2>1, <2>2
<1>2. QED
  BY <1>1, NoReceiptTouched

LEMMA MatchStepAccounts ==
    ASSUME BooksInv, BooksInv', AccountsInv, MatchStep
    PROVE  AccountsInv'
<1>1. ASSUME NEW Q \in SUBSET AbsentRequests, NEW r \in Receipts,
             NEW alloc \in [Q -> {x \in Allocation : x.receipt = r}], Submit(r, alloc)
      PROVE  AccountsInv'
  <2>1. /\ alloc \in [Q -> Allocation] /\ ReceiptsCover(alloc) /\ request' = WithRequests(alloc)
        /\ UNCHANGED <<receipt, ledger, account, payment>>
    BY <1>1 DEF Submit
  <2>2. QED
    BY <2>1, NewRequestsAccounts
<1>2. ASSUME NEW q \in Requests, NEW a \in Amounts, UpdateRequest(q, a)
      PROVE  AccountsInv'
  <2>1. /\ UNCHANGED <<receipt, ledger, account, payment>>
        /\ \A p \in Requests : request'[p].status = request[p].status
                              /\ request'[p].receipt = request[p].receipt
    BY <1>2 DEF UpdateRequest, BooksInv, TypeOK, RequestRow
  <2>2. \A p \in Requests : RequestWaits(p)'
    BY <2>1 DEF AccountsInv, LivesOK, RequestWaits, Matchable
  <2>3. QED
    BY <2>1, <2>2, NoReceiptTouched
<1>3. ASSUME NEW q \in Requests, DeleteRequest(q) \/ RejectRequest(q)
      PROVE  AccountsInv'
  <2>1. /\ UNCHANGED <<receipt, ledger, account, payment>>
        /\ \A p \in Requests : request'[p].status = "PENDING" => request'[p] = request[p]
    BY <1>3 DEF DeleteRequest, RejectRequest, CloseRequest, BooksInv, TypeOK, RequestRow
  <2>2. \A p \in Requests : RequestWaits(p)'
    BY <2>1 DEF AccountsInv, LivesOK, RequestWaits, Matchable
  <2>3. QED
    BY <2>1, <2>2, NoReceiptTouched
<1>4. ASSUME NEW q \in Requests, ReverseRequest(q)
      PROVE  AccountsInv'
  <2>1. /\ request[q].status = "APPROVED" /\ TakeBack(request[q].receipt, {request[q].match})
        /\ request'[q].receipt = request[q].receipt
        /\ \A p \in Requests \ {q} : request'[p] = request[p]
    BY <1>4 DEF ReverseRequest, BooksInv, TypeOK, RequestRow
  <2>2. request[q].receipt \in Receipts /\ {request[q].match} \in SUBSET Matches
    BY <2>1 DEF BooksInv, AllocationsOK, RequestFits
  <2>3. QED
    BY <2>1, <2>2, TakeBackAccounts
<1>5. ASSUME NEW q \in Requests, NEW m \in Matches, ApproveRequest(q, m)
      PROVE  AccountsInv'
  BY <1>5, ApproveAccounts
<1>6. ASSUME NEW r \in Receipts, NEW ms \in SUBSET MatchedOn(r), Unmatch(r, ms)
      PROVE  AccountsInv'
  <2>1. TakeBack(r, ms) /\ request' = request /\ ms \in SUBSET Matches
    BY <1>6 DEF Unmatch, MatchedOn
  <2>2. QED
    BY <2>1, TakeBackAccounts
<1>7. QED
  BY <1>1, <1>2, <1>3, <1>4, <1>5, <1>6 DEF MatchStep

-----------------------------------------------------------------------------
(* Steps of the receivables and of the orders.                             *)

LEMMA FeeStepAccounts ==
    ASSUME BooksInv, BooksInv', AccountsInv, FeeStep
    PROVE  AccountsInv'
<1>1. UNCHANGED <<receipt, request, match>> /\ TypeOK'
  BY FeeStepKeeps DEF BooksInv
<1>2. ASSUME NEW p \in Payments, NEW c \in Accounts, NEW F \in SUBSET Fees, NEW a \in Amounts,
             CreatePayment(p, c, F, a)
      PROVE  AccountsInv'
  <2>1. PaymentsOK' /\ AccountConservation'
    BY <1>1, <1>2, PaymentStep
  <2>2. LivesOK' /\ LedgerFollowsReceipt'
    BY <1>1, <1>2 DEF CreatePayment, AccountsInv, LivesOK, ReceiptStands, RequestWaits, Matchable,
                      LedgerFollowsReceipt, Arrived
  <2>3. QED
    BY <2>1, <2>2 DEF AccountsInv
<1>3. \/ UNCHANGED <<ledger, account, payment>>
      \/ \E p \in Payments, c \in Accounts : OpenAccount(p, c)
      \/ \E p \in Payments, c \in Accounts, F \in SUBSET Fees, a \in Amounts :
            CreatePayment(p, c, F, a)
  BY DEF FeeStep, CreateFee, UpdateFee, AuditFee, LockFee, UnlockFee, DeleteFinanceItem,
         DeleteFeeCheck, DeleteFeeWrite, ReverseAuditCheck, ReverseAuditWrite, AbandonCall
<1>4. \A q \in Requests : RequestWaits(q)'
  BY <1>1 DEF AccountsInv, LivesOK, RequestWaits, Matchable
<1>5. ASSUME NEW p \in Payments, NEW c \in Accounts, OpenAccount(p, c)
      PROVE  AccountsInv'
  <2>1. /\ UNCHANGED <<ledger, payment>>
        /\ \A k \in Accounts : /\ account'[k].balance = account[k].balance
                               /\ account[k].open => account'[k].open
    BY <1>5 DEF OpenAccount, BooksInv, TypeOK, AccountRow
  <2>2. QED
    BY <1>1, <1>4, <2>1, NoReceiptTouched
<1>6. CASE UNCHANGED <<ledger, account, payment>>
  BY <1>1, <1>4, <1>6, NoReceiptTouched
<1>7. QED
  BY <1>2, <1>3, <1>5, <1>6

LEMMA ShipmentStepAccounts ==
    ASSUME BooksInv, AccountsInv, ShipmentStep
    PROVE  AccountsInv'
<1>1. ASSUME NEW s \in Shipments, NEW c \in Accounts,
             NEW F \in SUBSET {f \in Fees \ SystemFees : fee[f].status = "ABSENT"},
             NEW new \in [F -> Amounts], NEW Q \in SUBSET AbsentRequests,
             NEW alloc \in [Q -> {x \in Allocation : x.fee \in F}],
             OrderEntry(s, c, new, alloc)
      PROVE  AccountsInv'
  <2>1. /\ alloc \in [Q -> Allocation] /\ ReceiptsCover(alloc) /\ request' = WithRequests(alloc)
        /\ UNCHANGED <<receipt, ledger, account, payment>>
    BY <1>1 DEF OrderEntry
  <2>2. QED
    BY <2>1, NewRequestsAccounts
<1>2. \/ UNCHANGED <<receipt, ledger, account, request, payment>>
      \/ \E s \in Shipments, c \in Accounts,
            F \in SUBSET {f \in Fees \ SystemFees : fee[f].status = "ABSENT"} :
            \E new \in [F -> Amounts], Q \in SUBSET AbsentRequests :
            \E alloc \in [Q -> {x \in Allocation : x.fee \in F}] : OrderEntry(s, c, new, alloc)
  BY DEF ShipmentStep, RegenerateFees, ReassignShipment, DeleteShipment
<1>3. CASE UNCHANGED <<receipt, ledger, account, request, payment>>
  <2>1. \A q \in Requests : RequestWaits(q)'
    BY <1>3 DEF AccountsInv, LivesOK, RequestWaits, Matchable
  <2>2. QED
    BY <1>3, <2>1, NoReceiptTouched
<1>4. QED
  BY <1>1, <1>2, <1>3

-----------------------------------------------------------------------------
(* The theorems.                                                           *)

\* The accounts of the database that an earlier release left behind.
LEMMA MigratedAccounts ==
    ASSUME BooksInv, NEW L \in SUBSET Legacy, NEW posting \in [L -> Allocation],
           NEW paid \in [Receipts -> Amounts], NEW due \in [Fees -> Amounts],
           NEW owner \in [Receipts -> Accounts], Migrated(posting, paid, due, owner)
    PROVE  AccountsInv
<1> DEFINE matched(r) == Total(Posted(posting), PostedOn(posting, r))
           posted     == {posting[m].receipt : m \in DOMAIN posting}
           row(r)     == [NoReceipt EXCEPT !.account = owner[r], !.amount = paid[r]]
           Of(c)      == {r \in posted : owner[r] = c}
<1>1. /\ receipt = [r \in Receipts |->
             IF r \in posted THEN PostedReceipt(row(r), matched(r)) ELSE NoReceipt]
      /\ ledger = [r \in Receipts |-> IF r \in posted THEN LedgerOf(receipt[r]) ELSE NoLedger]
      /\ account = [c \in Accounts |->
             [open |-> Of(c) # {},
              balance |-> Total([r \in Receipts |-> receipt[r].balance], Of(c))]]
      /\ request = [q \in Requests |-> NoRequest]
      /\ payment = [p \in Payments |-> NoPayment]
  BY DEF Migrated
<1>2. posted \subseteq Receipts
  <2>1. \A m \in DOMAIN posting : posting[m] \in Allocation
    OBVIOUS
  <2>2. QED
    BY <2>1 DEF Allocation
<1>3. ASSUME NEW r \in Receipts
      PROVE  /\ r \in posted => /\ receipt[r].account = owner[r] /\ receipt[r].amount > 0
                               /\ receipt[r].status \in {"ARCHIVED", "PARTIAL_MATCHED"}
             /\ r \notin posted => receipt[r].status = "ABSENT" /\ ledger[r] = NoLedger
  <2>1. row(r) \in ReceiptRow /\ row(r).account = owner[r] /\ row(r).amount = paid[r]
        /\ paid[r] > 0
    BY EnteredAmount, NewRowTypes DEF NoReceipt, ReceiptRow
  <2>2. r \in posted => receipt[r] = PostedReceipt(row(r), matched(r))
    BY <1>1
  <2> HIDE DEF row, matched
  <2>3. r \in posted => /\ receipt[r].account = owner[r] /\ receipt[r].amount = paid[r]
                        /\ receipt[r].status \in {"ARCHIVED", "PARTIAL_MATCHED"}
    BY <2>1, <2>2, PostedRow, PostedAccount
  <2>4. r \notin posted => receipt[r].status = "ABSENT" /\ ledger[r] = NoLedger
    BY <1>1 DEF NoReceipt
  <2>5. QED
    BY <2>1, <2>3, <2>4
<1>4. \A r \in posted : ledger[r] = LedgerOf(receipt[r])
  BY <1>1, <1>2
<1> HIDE DEF posted, row, matched
<1>5. LivesOK
  <2>1. \A r \in Receipts : ReceiptStands(r)
    BY <1>3 DEF ReceiptStands, Arrived
  <2>2. \A q \in Requests : RequestWaits(q)
    BY <1>1 DEF RequestWaits, NoRequest
  <2>3. QED
    BY <2>1, <2>2 DEF LivesOK
<1>6. PaymentsOK
  BY <1>1 DEF PaymentsOK, NoPayment
<1>7. \A r \in Receipts : LedgerFits(r)
  BY <1>3, <1>4 DEF LedgerFits, Arrived, LedgerOf, NoLedger
<1>8. ASSUME NEW c \in Accounts PROVE AccountFits(c)
  <2>1. Here(c) = Of(c)
    BY <1>2, <1>3 DEF Here, Arrived
  <2>2. PaidBy(c) = {}
    BY <1>1, ConstantsOK DEF PaidBy, NoPayment, ConstantsOK
  <2>3. account[c].balance = Total(Balance, Here(c)) /\ (account[c].open <=> Here(c) # {})
    BY <1>1, <2>1 DEF Balance
  <2>4. Total(Left, PaidBy(c)) = 0 /\ Total(Balance, Here(c)) \in Nat
    BY <2>2, TotalEmpty, HereTotals
  <2>5. QED
    BY <2>3, <2>4 DEF AccountFits
<1>9. QED
  BY <1>5, <1>6, <1>7, <1>8, LedgerFitsAll, AccountsFit DEF AccountsInv

LEMMA AccountsInit == Init => AccountsInv
  BY BooksInit, MigratedAccounts DEF Init

LEMMA AccountsStep == BooksInv /\ BooksInv' /\ AccountsInv /\ [Next]_vars => AccountsInv'
<1>1. SUFFICES ASSUME BooksInv, BooksInv', AccountsInv, [Next]_vars PROVE AccountsInv'
  OBVIOUS
<1>2. CASE UNCHANGED vars
  <2>1. \A q \in Requests : RequestWaits(q)'
    BY <1>1, <1>2 DEF vars, AccountsInv, LivesOK, RequestWaits, Matchable
  <2>2. UNCHANGED <<receipt, ledger, account, payment>>
    BY <1>2 DEF vars
  <2>3. QED
    BY <1>1, <2>1, <2>2, NoReceiptTouched
<1>3. QED
  BY <1>1, <1>2, ReceiptStepAccounts, MatchStepAccounts, FeeStepAccounts, ShipmentStepAccounts
  DEF Next

LEMMA AccountsInvariant == Spec => []AccountsInv
  BY BooksInvariant, AccountsInit, AccountsStep, PTL DEF Spec

\* Whatever arrives, is matched, reversed, moved to another customer or voided,
\* a customer's account shows what the customer's receipts and payments have
\* left (prisma.repository.ts, applyCustomerAccountDelta and its callers).
THEOREM AccountsCorrect == Spec => []AccountConservation
<1>1. AccountsInv => AccountConservation
  BY DEF AccountsInv
<1>2. QED
  BY <1>1, AccountsInvariant, PTL

\* The ledger row of a receipt keeps up with the receipt, and its reversal
\* cancels it.
THEOREM LedgerCorrect == Spec => []LedgerFollowsReceipt
<1>1. AccountsInv => LedgerFollowsReceipt
  BY DEF AccountsInv
<1>2. QED
  BY <1>1, AccountsInvariant, PTL

\* What one step keeps of the closed rows.
ClosedRowsKept ==
    /\ \A r \in Receipts : receipt[r].status = "VOIDED" => receipt'[r] = receipt[r]
    /\ \A m \in Matches : match[m].status = "VOIDED" => match'[m] = match[m]
    /\ \A q \in Requests : request[q].status \in {"REJECTED", "CANCELLED"} =>
          request'[q] = request[q]

\* Only a live match is taken back, and its receipt has arrived.
LEMMA TakeBackKeepsClosed ==
    ASSUME BooksInv, NEW r \in Receipts, NEW ms \in SUBSET Matches, TakeBack(r, ms)
    PROVE  /\ \A x \in Receipts : receipt[x].status = "VOIDED" => receipt'[x] = receipt[x]
           /\ \A m \in Matches : match[m].status = "VOIDED" => match'[m] = match[m]
<1>1. /\ ms # {} /\ ms \subseteq MatchedOn(r)
      /\ \A x \in Receipts \ {r} : receipt'[x] = receipt[x]
      /\ \A m \in Matches \ ms : match'[m] = match[m]
  BY DEF TakeBack, BooksInv, TypeOK
<1>2. receipt[r].status # "VOIDED"
  <2>1. PICK m \in ms : m \in Matches /\ match[m].status = "LIVE" /\ match[m].receipt = r
    BY <1>1 DEF MatchedOn
  <2>2. QED
    BY <2>1, BooksArriveMatches DEF MatchesArrived
<1>3. \A m \in ms : match[m].status = "LIVE"
  BY <1>1 DEF MatchedOn
<1>4. QED
  BY <1>1, <1>2, <1>3

LEMMA ClosedRowsStep == BooksInv /\ AccountsInv /\ [Next]_vars => ClosedRowsKept
<1>1. SUFFICES ASSUME BooksInv, AccountsInv, [Next]_vars PROVE ClosedRowsKept
  OBVIOUS
<1>2. CASE ReceiptStep
  <2>1. UNCHANGED <<request, match>>
    BY <1>1, <1>2, ReceiptStepBooks DEF BooksInv
  <2>2. ASSUME NEW r \in Receipts, ArchiveReceipt(r), receipt[r].status = "VOIDED" PROVE FALSE
    BY <1>1, <2>2, NothingLeft DEF ArchiveReceipt, AccountsInv
  <2>3. \E r \in Receipts : /\ receipt[r].status # "VOIDED"
                          /\ \A x \in Receipts \ {r} : receipt'[x] = receipt[x]
    <3>1. ASSUME NEW r \in Receipts, NEW c \in Accounts \cup {None}, NEW a \in Amounts,
                 CreateReceipt(r, c, a) \/ UpdatePendingReceipt(r, c, a)
          PROVE  receipt[r].status # "VOIDED" /\ \A x \in Receipts \ {r} : receipt'[x] = receipt[x]
      BY <1>1, <3>1 DEF CreateReceipt, UpdatePendingReceipt, BooksInv, TypeOK
    <3>2. ASSUME NEW r \in Receipts, NEW c \in Accounts, NEW a \in Amounts,
                 UpdateArrivedReceipt(r, c, a)
          PROVE  receipt[r].status # "VOIDED" /\ \A x \in Receipts \ {r} : receipt'[x] = receipt[x]
      BY <1>1, <3>2 DEF UpdateArrivedReceipt, Arrived, BooksInv, TypeOK
    <3>3. ASSUME NEW r \in Receipts, MarkArrived(r) \/ VoidPendingReceipt(r) \/ VoidArrivedReceipt(r)
          PROVE  receipt[r].status # "VOIDED" /\ \A x \in Receipts \ {r} : receipt'[x] = receipt[x]
      BY <1>1, <3>3 DEF MarkArrived, VoidPendingReceipt, VoidArrivedReceipt, BooksInv, TypeOK
    <3>4. ASSUME NEW r \in Receipts, ArchiveReceipt(r)
          PROVE  receipt[r].status # "VOIDED" /\ \A x \in Receipts \ {r} : receipt'[x] = receipt[x]
      BY <1>1, <2>2, <3>4 DEF ArchiveReceipt, BooksInv, TypeOK
    <3>5. QED
      BY <1>2, <3>1, <3>2, <3>3, <3>4 DEF ReceiptStep
  <2>4. QED
    BY <2>1, <2>3 DEF ClosedRowsKept
<1>3. ASSUME NEW Q \in SUBSET AbsentRequests, NEW alloc \in [Q -> Allocation],
             request' = WithRequests(alloc), UNCHANGED <<receipt, match>>
      PROVE  ClosedRowsKept
  BY <1>3 DEF ClosedRowsKept, WithRequests, AbsentRequests
<1>4. CASE MatchStep
  <2>1. ASSUME NEW Q \in SUBSET AbsentRequests, NEW r \in Receipts,
               NEW alloc \in [Q -> {x \in Allocation : x.receipt = r}], Submit(r, alloc)
        PROVE  ClosedRowsKept
    <3>1. alloc \in [Q -> Allocation] /\ request' = WithRequests(alloc) /\ UNCHANGED <<receipt, match>>
      BY <2>1 DEF Submit
    <3>2. QED
      BY <1>3, <3>1
  <2>2. ASSUME NEW q \in Requests,
               (\E a \in Amounts : UpdateRequest(q, a)) \/ DeleteRequest(q) \/ RejectRequest(q)
        PROVE  ClosedRowsKept
    BY <1>1, <2>2 DEF UpdateRequest, DeleteRequest, RejectRequest, CloseRequest, BooksInv, TypeOK,
                      ClosedRowsKept
  <2>3. ASSUME NEW q \in Requests, ReverseRequest(q)
        PROVE  ClosedRowsKept
    <3>1. /\ request[q].status = "APPROVED" /\ TakeBack(request[q].receipt, {request[q].match})
          /\ \A p \in Requests \ {q} : request'[p] = request[p]
      BY <1>1, <2>3 DEF ReverseRequest, BooksInv, TypeOK
    <3>2. request[q].receipt \in Receipts /\ {request[q].match} \in SUBSET Matches
      BY <1>1, <3>1 DEF BooksInv, AllocationsOK, RequestFits
    <3>3. QED
      BY <1>1, <3>1, <3>2, TakeBackKeepsClosed DEF ClosedRowsKept
  <2>4. ASSUME NEW q \in Requests, NEW m \in Matches, ApproveRequest(q, m)
        PROVE  ClosedRowsKept
    BY <1>1, <2>4 DEF ApproveRequest, Matchable, BooksInv, TypeOK, ClosedRowsKept
  <2>5. ASSUME NEW r \in Receipts, NEW ms \in SUBSET MatchedOn(r), Unmatch(r, ms)
        PROVE  ClosedRowsKept
    <3>1. TakeBack(r, ms) /\ request' = request /\ ms \in SUBSET Matches
      BY <2>5 DEF Unmatch, MatchedOn
    <3>2. QED
      BY <1>1, <3>1, TakeBackKeepsClosed DEF ClosedRowsKept
  <2>6. QED
    BY <1>4, <2>1, <2>2, <2>3, <2>4, <2>5 DEF MatchStep
<1>5. CASE FeeStep
  BY <1>5, FeeStepKeeps DEF ClosedRowsKept
<1>6. CASE ShipmentStep
  <2>1. ASSUME NEW s \in Shipments, NEW c \in Accounts,
               NEW F \in SUBSET {f \in Fees \ SystemFees : fee[f].status = "ABSENT"},
               NEW new \in [F -> Amounts], NEW Q \in SUBSET AbsentRequests,
               NEW alloc \in [Q -> {x \in Allocation : x.fee \in F}],
               OrderEntry(s, c, new, alloc)
        PROVE  ClosedRowsKept
    <3>1. alloc \in [Q -> Allocation] /\ request' = WithRequests(alloc) /\ UNCHANGED <<receipt, match>>
      BY <2>1 DEF OrderEntry
    <3>2. QED
      BY <1>3, <3>1
  <2>2. \/ UNCHANGED <<receipt, match, request>>
        \/ \E s \in Shipments, c \in Accounts,
              F \in SUBSET {f \in Fees \ SystemFees : fee[f].status = "ABSENT"} :
              \E new \in [F -> Amounts], Q \in SUBSET AbsentRequests :
              \E alloc \in [Q -> {x \in Allocation : x.fee \in F}] : OrderEntry(s, c, new, alloc)
    BY <1>6 DEF ShipmentStep, RegenerateFees, ReassignShipment, DeleteShipment
  <2>3. CASE UNCHANGED <<receipt, match, request>>
    BY <2>3 DEF ClosedRowsKept
  <2>4. QED
    BY <2>1, <2>2, <2>3
<1>7. CASE UNCHANGED vars
  BY <1>7 DEF vars, ClosedRowsKept
<1>8. QED
  BY <1>1, <1>2, <1>4, <1>5, <1>6, <1>7 DEF Next

\* No call reopens a voided receipt, a voided match or a closed request.
THEOREM ClosedRowsCorrect == Spec => ClosedRowsStayClosed
<1>1. BooksInv /\ AccountsInv /\ [Next]_vars => [ClosedRowsKept]_vars
  BY ClosedRowsStep
<1>2. Spec => [][ClosedRowsKept]_vars
  BY <1>1, BooksInvariant, AccountsInvariant, PTL DEF Spec
<1>3. QED
  BY <1>2 DEF ClosedRowsStayClosed, ClosedRowsKept
=============================================================================
