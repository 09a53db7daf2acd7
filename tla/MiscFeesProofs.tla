-------------------------- MODULE MiscFeesProofs --------------------------
(***************************************************************************)
(* Theorems of MiscFees for any number of fees, requests, settlements and  *)
(* amounts.                                                                *)
(***************************************************************************)
EXTENDS MiscFees, TLAPS

-----------------------------------------------------------------------------
(* Types.                                                                  *)

LEMMA Constants ==
    /\ SomeAmount \in Amounts
    /\ NoFee \in Fee
    /\ NoLine \in Line
    /\ (CHOOSE f \in Fees : TRUE) \in Fees
BY ConstantsOK DEF ConstantsOK, SomeAmount, NoFee, Fee, NoLine, Line, Kinds

LEMMA TypeInit == Init => TypeOK
BY Constants DEF Init, TypeOK, Item, Request, Row, Settlement, Roles, SettlementTypes

LEMMA ItemsTyped ==
    ASSUME TypeOK, NEW F, EnsureItems(F)
    PROVE  item' \in [Fees -> [Roles -> Item]]
BY DEF TypeOK, EnsureItems, Item

\* The forms in which a fee is rewritten.
LEMMA FeeForms ==
    ASSUME NEW x \in Fee, NEW c \in BOOLEAN, NEW n \in Amounts \cup {None}, NEW p \in Amounts,
           NEW s \in {"NONE", "PENDING", "APPROVED", "REJECTED", "WITHDRAWN"}
    PROVE  /\ [x EXCEPT !.matched = TRUE] \in Fee
           /\ [x EXCEPT !.confirmed = TRUE] \in Fee
           /\ [x EXCEPT !.archived = TRUE] \in Fee
           /\ [x EXCEPT !.state = "VOIDED"] \in Fee
           /\ [x EXCEPT !.hang = s] \in Fee
           /\ [x EXCEPT !.business = n, !.payable = p] \in Fee
           /\ [x EXCEPT !.matched = TRUE, !.confirmed = TRUE, !.business = n] \in Fee
           /\ [x EXCEPT !.audited = TRUE, !.confirmed = c] \in Fee
           /\ [x EXCEPT !.confirmed = TRUE, !.hang = s] \in Fee
           /\ [x EXCEPT !.hang = s, !.audited = TRUE, !.confirmed = c] \in Fee
           /\ [x EXCEPT !.audited = FALSE, !.hang = s, !.confirmed = c] \in Fee
           /\ \A k \in Kinds, m \in BOOLEAN :
                [x EXCEPT !.state = "LIVE", !.kind = k, !.matched = m, !.business = n, !.payable = p] \in Fee
<1>1. /\ [x EXCEPT !.matched = TRUE] \in Fee
      /\ [x EXCEPT !.confirmed = TRUE] \in Fee
      /\ [x EXCEPT !.archived = TRUE] \in Fee
      /\ [x EXCEPT !.state = "VOIDED"] \in Fee
  BY DEF Fee
<1>2. [x EXCEPT !.hang = s] \in Fee
  BY DEF Fee
<1>3. [x EXCEPT !.business = n, !.payable = p] \in Fee
  BY DEF Fee
<1>4. [x EXCEPT !.matched = TRUE, !.confirmed = TRUE, !.business = n] \in Fee
  BY DEF Fee
<1>5. [x EXCEPT !.audited = TRUE, !.confirmed = c] \in Fee
  BY DEF Fee
<1>6. [x EXCEPT !.confirmed = TRUE, !.hang = s] \in Fee
  BY DEF Fee
<1>7. [x EXCEPT !.hang = s, !.audited = TRUE, !.confirmed = c] \in Fee
  BY DEF Fee
<1>8. [x EXCEPT !.audited = FALSE, !.hang = s, !.confirmed = c] \in Fee
  BY DEF Fee
<1>9. ASSUME NEW k \in Kinds, NEW m \in BOOLEAN
      PROVE  [x EXCEPT !.state = "LIVE", !.kind = k, !.matched = m, !.business = n, !.payable = p] \in Fee
  BY DEF Fee
<1> QED
  BY <1>1, <1>2, <1>3, <1>4, <1>5, <1>6, <1>7, <1>8, <1>9

LEMMA FeeFields ==
    ASSUME TypeOK, NEW f \in Fees
    PROVE  /\ fee[f] \in Fee
           /\ fee[f].state \in {"ABSENT", "LIVE", "VOIDED"} /\ fee[f].kind \in Kinds
           /\ fee[f].matched \in BOOLEAN /\ fee[f].confirmed \in BOOLEAN /\ fee[f].audited \in BOOLEAN
           /\ fee[f].hang \in {"NONE", "PENDING", "APPROVED", "REJECTED", "WITHDRAWN"}
           /\ fee[f].archived \in BOOLEAN
           /\ fee[f].business \in Amounts \cup {None} /\ fee[f].payable \in Amounts
BY DEF TypeOK, Fee

LEMMA FeeTyped ==
    ASSUME TypeOK, NEW f \in Fees, NEW x \in Fee, fee' = [fee EXCEPT ![f] = x]
    PROVE  fee' \in [Fees -> Fee]
BY DEF TypeOK

LEMMA TypeRegister ==
    ASSUME TypeOK, NEW f \in Fees,
           \/ \E m \in BOOLEAN, p \in Amounts : ClaimKuayueImportLine(f, m, p)
           \/ \E k \in Kinds, m \in BOOLEAN, n \in Amounts \cup {None}, p \in Amounts : CreateMiscFee(f, k, m, n, p)
           \/ \E n \in Amounts \cup {None}, p \in Amounts : UpdateMiscFee(f, n, p)
    PROVE  TypeOK'
<1>1. \E x \in Fee : fee' = [fee EXCEPT ![f] = x]
  <2>1. CASE \E m \in BOOLEAN, p \in Amounts : ClaimKuayueImportLine(f, m, p)
    BY <2>1, Constants, FeeForms DEF ClaimKuayueImportLine, Kinds
  <2>2. CASE \E k \in Kinds, m \in BOOLEAN, n \in Amounts \cup {None}, p \in Amounts : CreateMiscFee(f, k, m, n, p)
    BY <2>2, Constants, FeeForms DEF CreateMiscFee
  <2>3. CASE \E n \in Amounts \cup {None}, p \in Amounts : UpdateMiscFee(f, n, p)
    <3>1. PICK n \in Amounts \cup {None}, p \in Amounts : UpdateMiscFee(f, n, p)
      BY <2>3
    <3>2. [fee[f] EXCEPT !.business = n, !.payable = p] \in Fee
      BY FeeFields, FeeForms
    <3>3. QED
      BY <3>1, <3>2 DEF UpdateMiscFee
  <2>4. QED
    BY <2>1, <2>2, <2>3
<1>2. UNCHANGED <<item, request, row, settlement, line>>
  BY DEF ClaimKuayueImportLine, CreateMiscFee, UpdateMiscFee
<1>3. QED
  BY <1>1, <1>2, FeeTyped DEF TypeOK

LEMMA TypeDecide ==
    ASSUME TypeOK, NEW f \in Fees,
           \/ MatchMiscFee(f) \/ ConfirmMiscFee(f) \/ AuditMiscFee(f)
           \/ \E n \in Amounts : AssignMiscFeeBusinessCost(f, n)
    PROVE  TypeOK'
<1>1. \E x \in Fee : fee' = [fee EXCEPT ![f] = x]
  <2>1. CASE MatchMiscFee(f) \/ ConfirmMiscFee(f)
    BY <2>1, FeeFields, FeeForms DEF MatchMiscFee, ConfirmMiscFee
  <2>2. CASE AuditMiscFee(f)
    <3>1. (fee[f].confirmed \/ fee[f].kind = "KUAYUE") \in BOOLEAN
      BY FeeFields
    <3>2. [fee[f] EXCEPT !.audited = TRUE, !.confirmed = fee[f].confirmed \/ fee[f].kind = "KUAYUE"] \in Fee
      BY <3>1, FeeFields, FeeForms
    <3>3. QED
      BY <2>2, <3>2 DEF AuditMiscFee
  <2>3. CASE \E n \in Amounts : AssignMiscFeeBusinessCost(f, n)
    <3>1. PICK n \in Amounts : AssignMiscFeeBusinessCost(f, n)
      BY <2>3
    <3>2. [fee[f] EXCEPT !.matched = TRUE, !.confirmed = TRUE, !.business = n] \in Fee
      BY FeeFields, FeeForms
    <3>3. QED
      BY <3>1, <3>2 DEF AssignMiscFeeBusinessCost
  <2>4. QED
    BY <2>1, <2>2, <2>3
<1>2. EnsureItems({f}) /\ UNCHANGED <<request, row, settlement, line>>
  BY DEF MatchMiscFee, ConfirmMiscFee, AuditMiscFee, AssignMiscFeeBusinessCost
<1>3. QED
  BY <1>1, <1>2, FeeTyped, ItemsTyped DEF TypeOK

LEMMA TypeTally ==
    ASSUME TypeOK, NEW F \in SUBSET Fees, MatchTallyMiscFees(F)
    PROVE  TypeOK'
<1>1. fee' \in [Fees -> Fee]
  BY FeeFields, FeeForms DEF MatchTallyMiscFees
<1>2. QED
  BY <1>1, ItemsTyped DEF MatchTallyMiscFees, TypeOK

LEMMA TypeEnd ==
    ASSUME TypeOK, NEW f \in Fees,
           DirectPayAndArchiveKuayueMiscFee(f) \/ ReverseAuditMiscFee(f) \/ VoidMiscFee(f)
    PROVE  TypeOK'
<1>1. CASE DirectPayAndArchiveKuayueMiscFee(f)
  <2>1. \E x \in Fee : fee' = [fee EXCEPT ![f] = x]
    BY <1>1, FeeFields, FeeForms DEF DirectPayAndArchiveKuayueMiscFee
  <2>2. QED
    BY <1>1, <2>1, FeeTyped DEF DirectPayAndArchiveKuayueMiscFee, TypeOK
<1>2. CASE ReverseAuditMiscFee(f)
  <2>1. ReversedFee(f) \in Fee
    <3>1. (fee[f].confirmed /\ fee[f].kind \notin {"KUAYUE", "PICKUP"}) \in BOOLEAN
      BY FeeFields
    <3>2. QED
      BY <3>1, FeeFields, FeeForms DEF ReversedFee
  <2>2. ReversedItems(f) \in [Roles -> Item]
    BY DEF TypeOK, Item, ReversedItems
  <2>3. row' \in [Fees -> Row]
    BY <1>2 DEF ReverseAuditMiscFee, TypeOK, Row
  <2>4. request' \in [Requests -> Request]
    BY <1>2 DEF ReverseAuditMiscFee, WithdrawOpen, TypeOK, Request
  <2>5. QED
    BY <1>2, <2>1, <2>2, <2>3, <2>4 DEF ReverseAuditMiscFee, TypeOK
<1>3. CASE VoidMiscFee(f)
  <2>1. fee' \in [Fees -> Fee]
    <3>1. \E x \in Fee : fee' = [fee EXCEPT ![f] = x]
      BY <1>3, FeeFields, FeeForms DEF VoidMiscFee
    <3>2. QED
      BY <3>1, FeeTyped
  <2>2. item' \in [Fees -> [Roles -> Item]]
    <3>1. ASSUME NEW r \in Roles
          PROVE  item[f][r] \in Item /\ [item[f][r] EXCEPT !.status = "VOIDED"] \in Item
      BY DEF TypeOK, Item
    <3>2. QED
      BY <1>3, <3>1 DEF VoidMiscFee, TypeOK
  <2>3. QED
    BY <1>3, <2>1, <2>2 DEF VoidMiscFee, TypeOK
<1>4. QED
  BY <1>1, <1>2, <1>3

LEMMA TypeHang ==
    ASSUME TypeOK, HangStep
    PROVE  TypeOK'
<1>1. ASSUME NEW f \in Fees, NEW h \in Requests, CreateMiscFeeHangRequest(f, h)
      PROVE  TypeOK'
  <2>1. \E x \in Fee : fee' = [fee EXCEPT ![f] = x]
    BY <1>1, FeeFields, FeeForms DEF CreateMiscFeeHangRequest
  <2>2. request' \in [Requests -> Request]
    BY <1>1 DEF CreateMiscFeeHangRequest, NewRequest, TypeOK, Request
  <2>3. QED
    BY <1>1, <2>1, <2>2, FeeTyped DEF CreateMiscFeeHangRequest, TypeOK
<1>2. ASSUME NEW f \in Fees, NEW h \in Requests, ApplyPurchasePayment(f, h)
      PROVE  TypeOK'
  <2>1. \E x \in Fee : fee' = [fee EXCEPT ![f] = x]
    <3>1. [fee[f] EXCEPT !.confirmed = TRUE, !.hang = "PENDING"] \in Fee
      BY FeeFields, FeeForms
    <3>2. QED
      BY <1>2, <3>1 DEF ApplyPurchasePayment
  <2>2. request' \in [Requests -> Request]
    BY <1>2 DEF ApplyPurchasePayment, NewRequest, TypeOK, Request
  <2>3. QED
    BY <1>2, <2>1, <2>2, FeeTyped, ItemsTyped DEF ApplyPurchasePayment, TypeOK
<1>3. ASSUME NEW H \in SUBSET Requests, ApproveMiscFeeHangRequests(H)
      PROVE  TypeOK'
  <2>1. fee' \in [Fees -> Fee]
    <3>1. ASSUME NEW f \in Fees PROVE fee'[f] \in Fee
      <4>1. (fee[f].confirmed \/ fee[f].kind = "KUAYUE") \in BOOLEAN
        BY FeeFields
      <4>2. QED
        BY <1>3, <4>1, FeeFields, FeeForms DEF ApproveMiscFeeHangRequests
    <3>2. QED
      BY <1>3, <3>1 DEF ApproveMiscFeeHangRequests
  <2>2. request' \in [Requests -> Request]
    <3>1. ASSUME NEW h \in Requests
          PROVE  request[h] \in Request /\ [request[h] EXCEPT !.status = "APPROVED"] \in Request
      BY DEF TypeOK, Request
    <3>2. QED
      BY <1>3, <3>1 DEF ApproveMiscFeeHangRequests
  <2>3. row' \in [Fees -> Row]
    BY <1>3, FeeFields DEF ApproveMiscFeeHangRequests, TypeOK, Row
  <2>4. item' \in [Fees -> [Roles -> Item]]
    BY <1>3, ItemsTyped DEF ApproveMiscFeeHangRequests
  <2>5. QED
    BY <1>3, <2>1, <2>2, <2>3, <2>4 DEF ApproveMiscFeeHangRequests, TypeOK
<1>4. ASSUME NEW h \in Requests, NEW s \in {"REJECTED", "WITHDRAWN"}, TransitionMiscFeeHangRequest(h, s)
      PROVE  TypeOK'
  <2>1. request[h].fee \in Fees
    BY DEF TypeOK, Request
  <2>2. \E x \in Fee : fee' = [fee EXCEPT ![request[h].fee] = x]
    BY <1>4, <2>1, FeeFields, FeeForms DEF TransitionMiscFeeHangRequest
  <2>3. request' \in [Requests -> Request]
    BY <1>4 DEF TransitionMiscFeeHangRequest, TypeOK, Request
  <2>4. QED
    BY <1>4, <2>1, <2>2, <2>3, FeeTyped DEF TransitionMiscFeeHangRequest, TypeOK
<1>5. QED
  BY <1>1, <1>2, <1>3, <1>4 DEF HangStep

LEMMA TypeOrder ==
    ASSUME TypeOK, OrderStep
    PROVE  TypeOK'
<1>1. ASSUME NEW S, NEW s \in {"ABSENT", "VOIDED"}, SetItems(S, s)
      PROVE  item' \in [Fees -> [Roles -> Item]]
  <2>1. ASSUME NEW f \in Fees, NEW r \in Roles
        PROVE  item[f][r] \in Item /\ [item[f][r] EXCEPT !.status = s] \in Item
    BY DEF TypeOK, Item
  <2>2. QED
    BY <1>1, <2>1 DEF SetItems
<1>2. ASSUME NEW S, ReenterOrder(S) \/ ReplaceShipmentAgent(S) \/ UpdateShipmentBusinessData(S)
      PROVE  TypeOK'
  BY <1>1, <1>2 DEF ReenterOrder, ReplaceShipmentAgent, UpdateShipmentBusinessData, TypeOK
<1>3. ASSUME NEW f \in Fees, NEW r \in Roles, UpdateCustomerServiceFinanceItem(f, r)
      PROVE  TypeOK'
  BY <1>3 DEF UpdateCustomerServiceFinanceItem, TypeOK, Item
<1>4. QED
  BY <1>2, <1>3 DEF OrderStep

LEMMA SnapshotTyped ==
    ASSUME TypeOK, NEW t \in Settlements, NEW k \in SettlementTypes, NEW f \in Fees
    PROVE  Snapshot(t, k, f) \in Line
BY DEF TypeOK, Fee, Line, Snapshot, Business

LEMMA TypeSettlement ==
    ASSUME TypeOK, SettlementStep
    PROVE  TypeOK'
<1>1. ASSUME NEW t \in Settlements, NEW k \in SettlementTypes, NEW F, SetLines(t, k, F)
      PROVE  line' \in [Fees -> [SettlementTypes -> Line]]
  <2>1. ASSUME NEW f \in Fees PROVE Snapshot(t, k, f) \in Line
    BY SnapshotTyped
  <2>2. QED
    BY <1>1, <2>1, Constants DEF SetLines, TypeOK
<1>2. PICK t \in Settlements :
        \/ \E F \in SUBSET Fees :
             \/ \E k \in SettlementTypes : CreateProfitSettlement(t, k, F)
             \/ RecomputeProfitSettlement(t, F)
        \/ ReleaseProfitSettlement(t)
        \/ \E s \in {"DRAFT", "PENDING_AUDIT", "APPROVED", "ARCHIVED"} : TransitionProfitSettlement(t, s)
  BY DEF SettlementStep
<1>3. settlement[t].type \in SettlementTypes
  BY DEF TypeOK, Settlement
<1>4. line' \in [Fees -> [SettlementTypes -> Line]]
  BY <1>1, <1>2, <1>3 DEF CreateProfitSettlement, RecomputeProfitSettlement, ReleaseProfitSettlement,
                         TransitionProfitSettlement, TypeOK
<1>5. settlement' \in [Settlements -> Settlement]
  BY <1>2 DEF CreateProfitSettlement, RecomputeProfitSettlement, ReleaseProfitSettlement,
              TransitionProfitSettlement, TypeOK, Settlement
<1>6. UNCHANGED <<fee, item, request, row>>
  BY <1>2 DEF CreateProfitSettlement, RecomputeProfitSettlement, ReleaseProfitSettlement, TransitionProfitSettlement
<1>7. QED
  BY <1>4, <1>5, <1>6 DEF TypeOK

LEMMA TypeStep == TypeOK /\ [Next]_vars => TypeOK'
<1> SUFFICES ASSUME TypeOK, [Next]_vars PROVE TypeOK'
  OBVIOUS
<1>1. CASE FeeStep
  BY <1>1, TypeRegister, TypeDecide, TypeTally, TypeEnd DEF FeeStep
<1>2. CASE UNCHANGED vars
  BY <1>2 DEF vars, TypeOK
<1>3. QED
  BY <1>1, <1>2, TypeHang, TypeOrder, TypeSettlement DEF Next

\* Every fee, item, request, row, settlement and line is one the schema can store
\* (models MiscFeeRecord to ProfitSettlementLine), whatever the steps.
THEOREM TypeCorrect == Spec => []TypeOK
BY TypeInit, TypeStep, PTL DEF Spec

-----------------------------------------------------------------------------
(* The books of a fee.  All but three steps only take it forward.          *)

IInv == TypeOK /\ HangBooks /\ OrderCostsStand /\ SettledAsAudited

Advances(x, y) ==
    x.state = "LIVE" =>
        /\ y.state = "LIVE" /\ y.kind = x.kind
        /\ x.matched => y.matched
        /\ x.confirmed => y.confirmed /\ y.business = x.business
        /\ x.audited => y.audited /\ y.payable = x.payable

LEMMA BooksInit == Init => HangBooks /\ OrderCostsStand /\ SettledAsAudited
BY DEF Init, HangBooks, HangOf, OpenRequests, Open, NoFee, NoLine, OrderCostsStand, SettledAsAudited

\* What a step leaves of a request as the fee f sees it.
SameRequests(f) ==
    \A h \in Requests :
        \/ request'[h] = request[h]
        \/ /\ request[h].fee # f \/ request[h].status \notin Open
           /\ request'[h].fee # f \/ request'[h].status \notin Open

LEMMA HangFrame ==
    ASSUME TypeOK, NEW f \in Fees, HangOf(f),
           Advances(fee[f], fee'[f]), fee'[f].hang = fee[f].hang, fee'[f].archived => fee[f].archived,
           row'[f] = row[f], SameRequests(f)
    PROVE  HangOf(f)'
<1>1. OpenRequests(f)' = OpenRequests(f)
  BY DEF OpenRequests, SameRequests
<1>2. \A h \in OpenRequests(f) : request'[h] = request[h]
  BY DEF OpenRequests, SameRequests
<1>3. CanApprove(f) => CanApprove(f)'
  BY DEF Advances, CanApprove, Live, TallyDone
<1>4. QED
  BY <1>1, <1>2, <1>3 DEF HangOf, Advances, Live

LEMMA CostsForward ==
    ASSUME TypeOK, OrderCostsStand, NEW F, EnsureItems(F), \A f \in F : fee'[f].state = "LIVE",
           \A f \in Fees : Advances(fee[f], fee'[f])
    PROVE  OrderCostsStand'
<1> SUFFICES ASSUME NEW f \in Fees, NEW r \in Roles, item'[f][r].status = "CONFIRMED"
             PROVE  /\ Live(f)'
                    /\ r = "PAYABLE" \/ fee'[f].kind = "PICKUP" => fee'[f].audited
                    /\ r = "BUSINESS_COST" => fee'[f].confirmed
  BY DEF OrderCostsStand
<1>1. CASE f \in F /\ r \in Materialized(fee'[f])
  BY <1>1 DEF Materialized, Live, Roles
<1>2. CASE ~(f \in F /\ r \in Materialized(fee'[f]))
  <2>1. item[f][r].status = "CONFIRMED"
    BY <1>2 DEF EnsureItems
  <2>2. QED
    BY <2>1 DEF OrderCostsStand, Advances, Live
<1>3. QED
  BY <1>1, <1>2

LEMMA SettledForward ==
    ASSUME SettledAsAudited, line' = line, \A f \in Fees : Advances(fee[f], fee'[f])
    PROVE  SettledAsAudited'
BY DEF SettledAsAudited, Advances, Live, Business

LEMMA SetUpdate ==
    ASSUME TypeOK, NEW f \in Fees, NEW x, fee' = [fee EXCEPT ![f] = x]
    PROVE  fee'[f] = x /\ \A g \in Fees : g # f => fee'[g] = fee[g]
BY DEF TypeOK
\* A step of one fee that leaves requests, rows and lines alone.
LEMMA FeeForward ==
    ASSUME IInv, NEW f \in Fees, NEW x, fee' = [fee EXCEPT ![f] = x],
           Advances(fee[f], x), x.hang = fee[f].hang, x.archived => fee[f].archived,
           item' = item \/ (x.state = "LIVE" /\ EnsureItems({f})),
           UNCHANGED <<request, row, line>>
    PROVE  HangBooks' /\ OrderCostsStand' /\ SettledAsAudited'
<1>1. fee'[f] = x /\ \A g \in Fees : g # f => fee'[g] = fee[g]
  BY SetUpdate DEF IInv
<1>2. \A g \in Fees : /\ Advances(fee[g], fee'[g]) /\ fee'[g].hang = fee[g].hang
                      /\ fee'[g].archived => fee[g].archived
  BY <1>1 DEF Advances
<1>3. HangBooks'
  BY <1>2, HangFrame DEF IInv, HangBooks, SameRequests
<1>4. OrderCostsStand'
  <2>1. CASE item' = item
    BY <1>2, <2>1 DEF IInv, OrderCostsStand, Advances, Live
  <2>2. CASE x.state = "LIVE" /\ EnsureItems({f})
    BY <1>1, <1>2, <2>2, CostsForward DEF IInv
  <2>3. QED
    BY <2>1, <2>2
<1>5. SettledAsAudited'
  BY <1>2, SettledForward DEF IInv
<1>6. QED
  BY <1>3, <1>4, <1>5

\* A fee that is not live has no requests open and is not archived.
LEMMA NotLive ==
    ASSUME IInv, NEW f \in Fees, ~Live(f)
    PROVE  fee[f].hang \notin Open /\ ~fee[f].archived /\ row[f].status # "READY" /\ OpenRequests(f) = {}
BY DEF IInv, HangBooks, HangOf, CanApprove, OpenRequests, Open

LEMMA BooksRegister ==
    ASSUME IInv, NEW f \in Fees,
           \/ \E m \in BOOLEAN, p \in Amounts : ClaimKuayueImportLine(f, m, p)
           \/ \E k \in Kinds, m \in BOOLEAN, n \in Amounts \cup {None}, p \in Amounts : CreateMiscFee(f, k, m, n, p)
    PROVE  HangBooks' /\ OrderCostsStand' /\ SettledAsAudited'
<1>1. PICK x \in Fee : /\ fee' = [fee EXCEPT ![f] = x]
                       /\ x.hang = "NONE" /\ ~x.archived
  <2>1. CASE \E m \in BOOLEAN, p \in Amounts : ClaimKuayueImportLine(f, m, p)
    <3>1. PICK m \in BOOLEAN, p \in Amounts : ClaimKuayueImportLine(f, m, p)
      BY <2>1
    <3> DEFINE x == [NoFee EXCEPT !.state = "LIVE", !.kind = "KUAYUE", !.matched = m, !.business = p, !.payable = p]
    <3>2. x \in Fee /\ x.hang = "NONE" /\ ~x.archived
      BY Constants DEF Fee, Kinds, NoFee
    <3>3. fee' = [fee EXCEPT ![f] = x]
      BY <3>1 DEF ClaimKuayueImportLine
    <3> HIDE DEF x
    <3>4. QED
      BY <3>2, <3>3
  <2>2. CASE \E k \in Kinds, m \in BOOLEAN, n \in Amounts \cup {None}, p \in Amounts : CreateMiscFee(f, k, m, n, p)
    <3>1. PICK k \in Kinds, m \in BOOLEAN, n \in Amounts \cup {None}, p \in Amounts : CreateMiscFee(f, k, m, n, p)
      BY <2>2
    <3> DEFINE x == [NoFee EXCEPT !.state = "LIVE", !.kind = k, !.matched = m, !.business = n, !.payable = p]
    <3>2. x \in Fee /\ x.hang = "NONE" /\ ~x.archived
      BY Constants DEF Fee, NoFee
    <3>3. fee' = [fee EXCEPT ![f] = x]
      BY <3>1 DEF CreateMiscFee
    <3> HIDE DEF x
    <3>4. QED
      BY <3>2, <3>3
  <2>3. QED
    BY <2>1, <2>2
<1>2. fee[f].state = "ABSENT" /\ UNCHANGED <<item, request, row, line>>
  BY DEF ClaimKuayueImportLine, CreateMiscFee
<1>3. fee'[f] = x /\ \A g \in Fees : g # f => fee'[g] = fee[g]
  BY <1>1, SetUpdate DEF IInv
<1>4. \A g \in Fees : Advances(fee[g], fee'[g])
  BY <1>2, <1>3 DEF Advances
<1>5. HangBooks'
  <2>1. ASSUME NEW g \in Fees, g # f PROVE HangOf(g)'
    BY <1>2, <1>3, <1>4, <2>1, HangFrame DEF IInv, HangBooks, SameRequests
  <2>2. HangOf(f)'
    <3>1. OpenRequests(f)' = {}
      BY <1>2, NotLive DEF Live, OpenRequests
    <3>2. row'[f].status # "READY"
      BY <1>2, NotLive DEF Live
    <3>3. QED
      BY <1>1, <1>3, <3>1, <3>2 DEF HangOf, Open
  <2>3. QED
    BY <2>1, <2>2 DEF HangBooks
<1>6. OrderCostsStand'
  BY <1>2, <1>4 DEF IInv, OrderCostsStand, Advances, Live
<1>7. QED
  BY <1>2, <1>4, <1>5, <1>6, SettledForward DEF IInv

LEMMA BooksForward ==
    ASSUME IInv, NEW f \in Fees,
           \/ \E n \in Amounts \cup {None}, p \in Amounts : UpdateMiscFee(f, n, p)
           \/ MatchMiscFee(f) \/ ConfirmMiscFee(f) \/ AuditMiscFee(f)
           \/ \E n \in Amounts : AssignMiscFeeBusinessCost(f, n)
    PROVE  HangBooks' /\ OrderCostsStand' /\ SettledAsAudited'
<1>1. CASE \E n \in Amounts \cup {None}, p \in Amounts : UpdateMiscFee(f, n, p)
  <2>1. PICK n \in Amounts \cup {None}, p \in Amounts : UpdateMiscFee(f, n, p)
    BY <1>1
  <2> DEFINE x == [fee[f] EXCEPT !.business = n, !.payable = p]
  <2>2. /\ Advances(fee[f], x) /\ x.hang = fee[f].hang /\ x.archived = fee[f].archived
    BY <2>1, FeeFields DEF IInv, Fee, UpdateMiscFee, Advances
  <2>3. fee' = [fee EXCEPT ![f] = x] /\ item' = item /\ UNCHANGED <<request, row, line>>
    BY <2>1 DEF UpdateMiscFee
  <2> HIDE DEF x
  <2>4. QED
    BY <2>2, <2>3, FeeForward
<1>2. CASE MatchMiscFee(f)
  <2> DEFINE x == [fee[f] EXCEPT !.matched = TRUE]
  <2>1. /\ Advances(fee[f], x) /\ x.hang = fee[f].hang /\ x.archived = fee[f].archived /\ x.state = "LIVE"
    BY <1>2, FeeFields DEF IInv, Fee, MatchMiscFee, Advances, Live
  <2>2. fee' = [fee EXCEPT ![f] = x] /\ EnsureItems({f}) /\ UNCHANGED <<request, row, line>>
    BY <1>2 DEF MatchMiscFee
  <2> HIDE DEF x
  <2>3. QED
    BY <2>1, <2>2, FeeForward
<1>3. CASE ConfirmMiscFee(f)
  <2> DEFINE x == [fee[f] EXCEPT !.confirmed = TRUE]
  <2>1. /\ Advances(fee[f], x) /\ x.hang = fee[f].hang /\ x.archived = fee[f].archived /\ x.state = "LIVE"
    BY <1>3, FeeFields DEF IInv, Fee, ConfirmMiscFee, Advances, Live
  <2>2. fee' = [fee EXCEPT ![f] = x] /\ EnsureItems({f}) /\ UNCHANGED <<request, row, line>>
    BY <1>3 DEF ConfirmMiscFee
  <2> HIDE DEF x
  <2>3. QED
    BY <2>1, <2>2, FeeForward
<1>4. CASE AuditMiscFee(f)
  <2> DEFINE x == [fee[f] EXCEPT !.audited = TRUE, !.confirmed = fee[f].confirmed \/ fee[f].kind = "KUAYUE"]
  <2>1. /\ Advances(fee[f], x) /\ x.hang = fee[f].hang /\ x.archived = fee[f].archived /\ x.state = "LIVE"
    BY <1>4, FeeFields DEF IInv, Fee, AuditMiscFee, Advances, Live
  <2>2. fee' = [fee EXCEPT ![f] = x] /\ EnsureItems({f}) /\ UNCHANGED <<request, row, line>>
    BY <1>4 DEF AuditMiscFee
  <2> HIDE DEF x
  <2>3. QED
    BY <2>1, <2>2, FeeForward
<1>5. CASE \E n \in Amounts : AssignMiscFeeBusinessCost(f, n)
  <2>1. PICK n \in Amounts : AssignMiscFeeBusinessCost(f, n)
    BY <1>5
  <2> DEFINE x == [fee[f] EXCEPT !.matched = TRUE, !.confirmed = TRUE, !.business = n]
  <2>2. /\ Advances(fee[f], x) /\ x.hang = fee[f].hang /\ x.archived = fee[f].archived /\ x.state = "LIVE"
    BY <2>1, FeeFields DEF IInv, Fee, AssignMiscFeeBusinessCost, Advances, Live
  <2>3. fee' = [fee EXCEPT ![f] = x] /\ EnsureItems({f}) /\ UNCHANGED <<request, row, line>>
    BY <2>1 DEF AssignMiscFeeBusinessCost
  <2> HIDE DEF x
  <2>4. QED
    BY <2>2, <2>3, FeeForward
<1>6. QED
  BY <1>1, <1>2, <1>3, <1>4, <1>5

LEMMA BooksTally ==
    ASSUME IInv, NEW F \in SUBSET Fees, MatchTallyMiscFees(F)
    PROVE  HangBooks' /\ OrderCostsStand' /\ SettledAsAudited'
<1>1. \A f \in Fees : fee'[f] = fee[f] \/ fee'[f] = [fee[f] EXCEPT !.matched = TRUE]
  BY DEF MatchTallyMiscFees
<1>2. \A f \in Fees : /\ Advances(fee[f], fee'[f]) /\ fee'[f].hang = fee[f].hang
                      /\ fee'[f].archived = fee[f].archived /\ fee'[f].state = fee[f].state
  BY <1>1, FeeFields DEF IInv, Fee, Advances
<1>3. HangBooks'
  BY <1>2, HangFrame DEF IInv, HangBooks, SameRequests, MatchTallyMiscFees
<1>4. OrderCostsStand'
  BY <1>2, CostsForward DEF IInv, MatchTallyMiscFees, Live
<1>5. QED
  BY <1>2, <1>3, <1>4, SettledForward DEF IInv, MatchTallyMiscFees
\* The three steps that are more than a fee going forward.
LEMMA BooksArchive ==
    ASSUME IInv, NEW f \in Fees, DirectPayAndArchiveKuayueMiscFee(f)
    PROVE  HangBooks' /\ OrderCostsStand' /\ SettledAsAudited'
<1> DEFINE x == [fee[f] EXCEPT !.archived = TRUE]
<1>1. /\ Advances(fee[f], x) /\ x.hang = "NONE" /\ x.state = "LIVE" /\ x.kind = "KUAYUE"
      /\ x.confirmed /\ x.audited
  BY FeeFields DEF IInv, Fee, DirectPayAndArchiveKuayueMiscFee, Advances, Live
<1>2. fee' = [fee EXCEPT ![f] = x] /\ UNCHANGED <<item, request, row, line>>
  BY DEF DirectPayAndArchiveKuayueMiscFee
<1> HIDE DEF x
<1>3. fee'[f] = x /\ \A g \in Fees : g # f => fee'[g] = fee[g]
  BY <1>2, SetUpdate DEF IInv
<1>4. \A g \in Fees : Advances(fee[g], fee'[g])
  BY <1>1, <1>3 DEF Advances
<1>5. HangBooks'
  <2>1. ASSUME NEW g \in Fees, g # f PROVE HangOf(g)'
    BY <1>2, <1>3, <1>4, <2>1, HangFrame DEF IInv, HangBooks, SameRequests
  <2>2. HangOf(f)'
    <3>1. fee[f].hang = "NONE" /\ row[f].status = "ABSENT"
      BY DEF DirectPayAndArchiveKuayueMiscFee
    <3>2. OpenRequests(f) = {}
      BY <3>1 DEF IInv, HangBooks, HangOf, OpenRequests, Open
    <3>3. OpenRequests(f)' = {}
      BY <1>2, <3>2 DEF OpenRequests
    <3>4. QED
      BY <1>1, <1>2, <1>3, <3>1, <3>3 DEF HangOf, Live, Open
  <2>3. QED
    BY <2>1, <2>2 DEF HangBooks
<1>6. OrderCostsStand'
  BY <1>2, <1>4 DEF IInv, OrderCostsStand, Advances, Live
<1>7. QED
  BY <1>2, <1>4, <1>5, <1>6, SettledForward DEF IInv

\* What does not count in a settlement may go back.
LEMMA SettledWithout ==
    ASSUME IInv, NEW f \in Fees, ~HasLine(f), line' = line, \A g \in Fees : g # f => fee'[g] = fee[g]
    PROVE  SettledAsAudited'
BY DEF IInv, SettledAsAudited, HasLine, Live, Business

LEMMA BooksReverse ==
    ASSUME IInv, NEW f \in Fees, ReverseAuditMiscFee(f)
    PROVE  HangBooks' /\ OrderCostsStand' /\ SettledAsAudited'
<1>1. fee'[f] = ReversedFee(f) /\ \A g \in Fees : g # f => fee'[g] = fee[g]
  BY SetUpdate DEF IInv, ReverseAuditMiscFee
<1>2. /\ ReversedFee(f).state = fee[f].state /\ ReversedFee(f).kind = fee[f].kind
      /\ ~ReversedFee(f).audited /\ ReversedFee(f).hang = "NONE" /\ ~ReversedFee(f).archived
      /\ ReversedFee(f).confirmed = (fee[f].confirmed /\ fee[f].kind \notin {"KUAYUE", "PICKUP"})
  BY FeeFields DEF IInv, Fee, ReversedFee, ReverseAuditMiscFee
<1>3. HangBooks'
  <2>1. ASSUME NEW g \in Fees, g # f PROVE HangOf(g)'
    <3>1. SameRequests(g)
      BY <2>1 DEF ReverseAuditMiscFee, WithdrawOpen, OpenRequests, SameRequests
    <3>2. row'[g] = row[g]
      BY <2>1 DEF IInv, TypeOK, ReverseAuditMiscFee
    <3>3. QED
      BY <1>1, <2>1, <3>1, <3>2, HangFrame DEF IInv, HangBooks, Advances
  <2>2. HangOf(f)'
    <3>1. OpenRequests(f)' = {}
      <4>1. ASSUME NEW h \in Requests, request'[h].fee = f, request'[h].status \in Open PROVE FALSE
        <5>1. CASE h \in OpenRequests(f)
          BY <4>1, <5>1 DEF IInv, TypeOK, Request, ReverseAuditMiscFee, WithdrawOpen, Open
        <5>2. CASE h \notin OpenRequests(f)
          BY <4>1, <5>2 DEF ReverseAuditMiscFee, WithdrawOpen, OpenRequests
        <5>3. QED
          BY <5>1, <5>2
      <4>2. QED
        BY <4>1 DEF OpenRequests
    <3>2. row'[f].status # "READY"
      BY DEF IInv, TypeOK, Row, ReverseAuditMiscFee
    <3>3. QED
      BY <1>1, <1>2, <3>1, <3>2 DEF HangOf, Open
  <2>3. QED
    BY <2>1, <2>2 DEF HangBooks
<1>4. OrderCostsStand'
  <2>1. item'[f] = ReversedItems(f) /\ \A g \in Fees : g # f => item'[g] = item[g]
    BY DEF IInv, TypeOK, ReverseAuditMiscFee
  <2>2. ASSUME NEW r \in Roles, ReversedItems(f)[r].status = "CONFIRMED"
        PROVE  /\ item[f][r].status = "CONFIRMED" /\ r = "BUSINESS_COST"
               /\ fee[f].kind \notin {"KUAYUE", "PICKUP"}
    BY <2>2 DEF IInv, TypeOK, Item, ReversedItems, OnOrder, Roles
  <2>3. ASSUME NEW g \in Fees, g # f, NEW r \in Roles, item'[g][r].status = "CONFIRMED"
        PROVE  /\ Live(g)'
               /\ r = "PAYABLE" \/ fee'[g].kind = "PICKUP" => fee'[g].audited
               /\ r = "BUSINESS_COST" => fee'[g].confirmed
    BY <1>1, <2>1, <2>3 DEF IInv, OrderCostsStand, Live
  <2>4. ASSUME NEW r \in Roles, item'[f][r].status = "CONFIRMED"
        PROVE  /\ Live(f)'
               /\ r = "PAYABLE" \/ fee'[f].kind = "PICKUP" => fee'[f].audited
               /\ r = "BUSINESS_COST" => fee'[f].confirmed
    BY <1>1, <1>2, <2>1, <2>2, <2>4 DEF IInv, OrderCostsStand, Live
  <2>5. QED
    BY <2>3, <2>4 DEF OrderCostsStand
<1>5. SettledAsAudited'
  BY <1>1, SettledWithout DEF ReverseAuditMiscFee
<1>6. QED
  BY <1>3, <1>4, <1>5

LEMMA BooksVoid ==
    ASSUME IInv, NEW f \in Fees, VoidMiscFee(f)
    PROVE  HangBooks' /\ OrderCostsStand' /\ SettledAsAudited'
<1> DEFINE x == [fee[f] EXCEPT !.state = "VOIDED"]
<1>1. x.hang = fee[f].hang /\ ~x.archived
  BY FeeFields DEF IInv, Fee, VoidMiscFee, HangBooks, HangOf
<1>2. fee' = [fee EXCEPT ![f] = x] /\ UNCHANGED <<request, row, line>>
  BY DEF VoidMiscFee
<1> HIDE DEF x
<1>3. fee'[f] = x /\ \A g \in Fees : g # f => fee'[g] = fee[g]
  BY <1>2, SetUpdate DEF IInv
<1>4. HangBooks'
  <2>1. ASSUME NEW g \in Fees, g # f PROVE HangOf(g)'
    BY <1>2, <1>3, <2>1, HangFrame DEF IInv, HangBooks, SameRequests, Advances
  <2>2. HangOf(f)'
    <3>1. fee[f].hang \notin Open /\ row[f].status # "READY"
      BY DEF VoidMiscFee
    <3>2. OpenRequests(f) = {}
      BY <3>1 DEF IInv, HangBooks, HangOf, OpenRequests
    <3>3. OpenRequests(f)' = {}
      BY <1>2, <3>2 DEF OpenRequests
    <3>4. QED
      BY <1>1, <1>2, <1>3, <3>1, <3>3 DEF HangOf, Open
  <2>3. QED
    BY <2>1, <2>2 DEF HangBooks
<1>5. OrderCostsStand'
  <2>1. ASSUME NEW r \in Roles PROVE item'[f][r].status # "CONFIRMED"
    BY DEF IInv, TypeOK, Item, VoidMiscFee, OnOrder
  <2>2. \A g \in Fees : g # f => item'[g] = item[g]
    BY DEF IInv, TypeOK, VoidMiscFee
  <2>3. QED
    BY <1>3, <2>1, <2>2 DEF IInv, OrderCostsStand, Live
<1>6. SettledAsAudited'
  BY <1>3, SettledWithout DEF VoidMiscFee
<1>7. QED
  BY <1>4, <1>5, <1>6
-----------------------------------------------------------------------------
(* Hanging moves the request, the fee and the row together.                *)

\* A new request is the only open one of its fee.
LEMMA BooksRequest ==
    ASSUME IInv, NEW f \in Fees, NEW h \in Requests, NEW x, fee' = [fee EXCEPT ![f] = x],
           request[h].status = "ABSENT", MayHang(f), NewRequest(h, f), row' = row,
           Advances(fee[f], x), x.hang = "PENDING", ~x.archived,
           x.kind = "TALLY_MISC" => x.confirmed /\ x.matched /\ x.audited
    PROVE  HangBooks'
<1>1. fee'[f] = x /\ \A g \in Fees : g # f => fee'[g] = fee[g]
  BY SetUpdate DEF IInv
<1>2. /\ request'[h] = [status |-> "PENDING", fee |-> f]
      /\ \A g \in Requests : g # h => request'[g] = request[g]
  BY DEF NewRequest, IInv, TypeOK
<1>3. ASSUME NEW g \in Fees, g # f PROVE HangOf(g)'
  <2>1. SameRequests(g)
    BY <1>2, <1>3 DEF SameRequests, Open
  <2>2. QED
    BY <1>1, <1>3, <2>1, HangFrame DEF IInv, HangBooks, Advances
<1>4. HangOf(f)'
  <2>1. OpenRequests(f)' = {h}
    BY <1>2 DEF MayHang, OpenRequests, Open
  <2>2. row'[f].status # "READY"
    BY DEF MayHang, IInv, HangBooks, HangOf
  <2>3. CanApprove(f)'
    <3>1. x.kind \in {"KUAYUE", "PICKUP", "TALLY_MISC", "PURCHASE", "DELIVERY"}
      BY FeeFields DEF IInv, Advances, MayHang, Live, Kinds
    <3>2. QED
      BY <1>1, <3>1 DEF CanApprove, Advances, MayHang, Live, TallyDone, PayableFirst
  <2>4. QED
    BY <1>1, <1>2, <2>1, <2>2, <2>3 DEF HangOf, Open
<1>5. QED
  BY <1>3, <1>4 DEF HangBooks

LEMMA BooksCreateRequest ==
    ASSUME IInv, NEW f \in Fees, NEW h \in Requests, CreateMiscFeeHangRequest(f, h)
    PROVE  HangBooks' /\ OrderCostsStand' /\ SettledAsAudited'
<1> DEFINE x == [fee[f] EXCEPT !.hang = "PENDING"]
<1>1. /\ Advances(fee[f], x) /\ x.hang = "PENDING" /\ ~x.archived
      /\ x.kind = "TALLY_MISC" => x.confirmed /\ x.matched /\ x.audited
  BY FeeFields DEF IInv, Fee, CreateMiscFeeHangRequest, HangBooks, HangOf, TallyDone, Advances
<1>2. fee' = [fee EXCEPT ![f] = x] /\ UNCHANGED <<item, row, line>>
  BY DEF CreateMiscFeeHangRequest
<1> HIDE DEF x
<1>3. HangBooks'
  BY <1>1, <1>2, BooksRequest DEF CreateMiscFeeHangRequest
<1>4. \A g \in Fees : Advances(fee[g], fee'[g])
  BY <1>1, <1>2, SetUpdate DEF IInv, Advances
<1>5. OrderCostsStand'
  BY <1>2, <1>4 DEF IInv, OrderCostsStand, Advances, Live
<1>6. QED
  BY <1>2, <1>3, <1>4, <1>5, SettledForward DEF IInv

LEMMA BooksPurchase ==
    ASSUME IInv, NEW f \in Fees, NEW h \in Requests, ApplyPurchasePayment(f, h)
    PROVE  HangBooks' /\ OrderCostsStand' /\ SettledAsAudited'
<1> DEFINE x == [fee[f] EXCEPT !.confirmed = TRUE, !.hang = "PENDING"]
<1>1. /\ Advances(fee[f], x) /\ x.hang = "PENDING" /\ ~x.archived /\ x.kind = "PURCHASE" /\ x.state = "LIVE"
  BY FeeFields DEF IInv, Fee, ApplyPurchasePayment, HangBooks, HangOf, Advances, MayHang, Live
<1>2. fee' = [fee EXCEPT ![f] = x] /\ EnsureItems({f}) /\ UNCHANGED <<row, line>>
  BY DEF ApplyPurchasePayment
<1> HIDE DEF x
<1>3. HangBooks'
  BY <1>1, <1>2, BooksRequest DEF ApplyPurchasePayment
<1>4. /\ \A g \in Fees : Advances(fee[g], fee'[g])
      /\ fee'[f].state = "LIVE"
  <2>1. fee'[f] = x /\ \A g \in Fees : g # f => fee'[g] = fee[g]
    BY <1>2, SetUpdate DEF IInv
  <2>2. QED
    BY <1>1, <2>1 DEF Advances
<1>5. OrderCostsStand'
  BY <1>2, <1>4, CostsForward DEF IInv
<1>6. QED
  BY <1>2, <1>3, <1>4, <1>5, SettledForward DEF IInv

LEMMA BooksApprove ==
    ASSUME IInv, NEW H \in SUBSET Requests, ApproveMiscFeeHangRequests(H)
    PROVE  HangBooks' /\ OrderCostsStand' /\ SettledAsAudited'
<1> DEFINE F == {request[h].fee : h \in H}
<1>1. /\ \A h \in H : /\ request[h].status = "PENDING" /\ CanApprove(request[h].fee) /\ request[h].fee \in Fees
      /\ \A g, h \in H : request[g].fee = request[h].fee => g = h
  BY DEF ApproveMiscFeeHangRequests, IInv, TypeOK, Request
<1>2. ASSUME NEW f \in F
      PROVE  /\ f \in Fees /\ Live(f) /\ fee[f].hang = "PENDING"
             /\ fee'[f].state = "LIVE" /\ fee'[f].kind = fee[f].kind /\ fee'[f].matched = fee[f].matched
             /\ fee'[f].hang = "APPROVED" /\ fee'[f].audited /\ fee'[f].archived = fee[f].archived
             /\ fee[f].confirmed => fee'[f].confirmed
             /\ fee'[f].business = fee[f].business /\ fee'[f].payable = fee[f].payable
             /\ row'[f].status = "READY" /\ row'[f].amount = fee'[f].payable
  <2>1. f \in Fees /\ CanApprove(f)
    BY <1>1, <1>2
  <2>2. /\ fee'[f] = [fee[f] EXCEPT !.hang = "APPROVED", !.audited = TRUE,
                                    !.confirmed = fee[f].confirmed \/ fee[f].kind = "KUAYUE"]
        /\ row'[f] = [status |-> "READY", amount |-> fee[f].payable]
    BY <1>2, <2>1 DEF ApproveMiscFeeHangRequests
  <2>3. QED
    BY <2>1, <2>2, FeeFields DEF CanApprove, Live, IInv, Fee
<1>3. \A f \in Fees : f \notin F => fee'[f] = fee[f] /\ row'[f] = row[f]
  BY DEF ApproveMiscFeeHangRequests
<1>4. \A f \in Fees : Advances(fee[f], fee'[f])
  BY <1>2, <1>3 DEF Advances
<1>5. HangBooks'
  <2>1. ASSUME NEW f \in Fees, f \notin F PROVE HangOf(f)'
    <3>1. SameRequests(f)
      <4>1. ASSUME NEW h \in H PROVE request[h].fee # f /\ request'[h].fee # f
        BY <1>1, <2>1 DEF ApproveMiscFeeHangRequests, IInv, TypeOK, Request
      <4>2. QED
        BY <4>1 DEF ApproveMiscFeeHangRequests, SameRequests
    <3>2. QED
      BY <1>3, <1>4, <2>1, <3>1, HangFrame DEF IInv, HangBooks
  <2>2. ASSUME NEW f \in Fees, f \in F PROVE HangOf(f)'
    <3>1. PICK h \in H : request[h].fee = f
      BY <2>2
    <3>2. OpenRequests(f) = {h}
      BY <1>1, <3>1 DEF IInv, HangBooks, HangOf, OpenRequests, Open
    <3>3. request'[h] = [status |-> "APPROVED", fee |-> f]
      BY <3>1 DEF ApproveMiscFeeHangRequests, IInv, TypeOK, Request
    <3>4. \A g \in Requests : /\ request'[g].fee = request[g].fee
                              /\ g \notin H => request'[g] = request[g]
      BY DEF ApproveMiscFeeHangRequests, IInv, TypeOK, Request
    <3>5. OpenRequests(f)' = {h}
      BY <1>1, <3>1, <3>2, <3>3, <3>4 DEF OpenRequests, Open
    <3>6. ~fee'[f].archived
      BY <1>2, <2>2 DEF IInv, HangBooks, HangOf
    <3>7. /\ fee'[f].state = "LIVE" /\ fee'[f].hang = "APPROVED" /\ fee'[f].audited
          /\ row'[f].status = "READY" /\ row'[f].amount = fee'[f].payable
      <4>1. f \in F
        BY <2>2
      <4> HIDE DEF F
      <4>2. QED
        BY <1>2, <4>1
    <3>8. /\ OpenRequests(f)' # {}
          /\ \A g \in OpenRequests(f)' : request'[g].status = "APPROVED"
          /\ \A g, k \in OpenRequests(f)' : g = k
      BY <3>3, <3>5
    <3>9. QED
      BY <3>6, <3>7, <3>8 DEF HangOf, Live, Open
  <2>3. QED
    BY <2>1, <2>2 DEF HangBooks
<1>6. OrderCostsStand'
  <2>1. EnsureItems(F)
    BY DEF ApproveMiscFeeHangRequests
  <2>2. QED
    BY <1>2, <1>4, <2>1, CostsForward DEF IInv
<1>7. QED
  BY <1>4, <1>5, <1>6, SettledForward DEF IInv, ApproveMiscFeeHangRequests

LEMMA BooksTransition ==
    ASSUME IInv, NEW h \in Requests, NEW s \in {"REJECTED", "WITHDRAWN"}, TransitionMiscFeeHangRequest(h, s)
    PROVE  HangBooks' /\ OrderCostsStand' /\ SettledAsAudited'
<1>1. PICK f \in Fees : request[h].fee = f
  BY DEF IInv, TypeOK, Request
<1> DEFINE x == [fee[f] EXCEPT !.hang = s]
<1>2. h \in OpenRequests(f)
  BY <1>1 DEF TransitionMiscFeeHangRequest, OpenRequests, Open
<1>3. fee[f].hang = "PENDING"
  BY <1>2 DEF IInv, HangBooks, HangOf, TransitionMiscFeeHangRequest
<1>4. Advances(fee[f], x) /\ x.hang = s /\ ~x.archived
  BY <1>2, <1>3, FeeFields DEF IInv, Fee, Advances, HangBooks, HangOf
<1>5. fee' = [fee EXCEPT ![f] = x] /\ UNCHANGED <<item, row, line>>
  BY <1>1 DEF TransitionMiscFeeHangRequest
<1>6. /\ request'[h] = [status |-> s, fee |-> f]
      /\ \A g \in Requests : g # h => request'[g] = request[g]
  BY <1>1 DEF TransitionMiscFeeHangRequest, IInv, TypeOK, Request
<1> HIDE DEF x
<1>7. fee'[f] = x /\ \A g \in Fees : g # f => fee'[g] = fee[g]
  BY <1>2, <1>5, SetUpdate DEF IInv
<1>8. \A g \in Fees : Advances(fee[g], fee'[g])
  BY <1>4, <1>7 DEF Advances
<1>9. HangBooks'
  <2>1. ASSUME NEW g \in Fees, g # f PROVE HangOf(g)'
    <3>1. SameRequests(g)
      BY <1>2, <1>6, <2>1 DEF SameRequests, Open, OpenRequests
    <3>2. QED
      BY <1>5, <1>7, <1>8, <2>1, <3>1, HangFrame DEF IInv, HangBooks
  <2>2. HangOf(f)'
    <3>1. OpenRequests(f) = {h}
      BY <1>2 DEF IInv, HangBooks, HangOf
    <3>2. OpenRequests(f)' = {}
      BY <1>6, <3>1 DEF OpenRequests, Open
    <3>3. row'[f].status # "READY"
      BY <1>2, <1>3, <1>5 DEF IInv, HangBooks, HangOf
    <3>4. QED
      BY <1>4, <1>7, <3>2, <3>3 DEF HangOf, Open
  <2>3. QED
    BY <2>1, <2>2 DEF HangBooks
<1>10. OrderCostsStand'
  BY <1>5, <1>8 DEF IInv, OrderCostsStand, Advances, Live
<1>11. QED
  BY <1>5, <1>8, <1>9, <1>10, SettledForward DEF IInv
-----------------------------------------------------------------------------
(* The order pages and the settlements.                                    *)

LEMMA BooksOrder ==
    ASSUME IInv, OrderStep
    PROVE  HangBooks' /\ OrderCostsStand' /\ SettledAsAudited'
<1>1. UNCHANGED <<fee, request, row, line>>
  BY DEF OrderStep, ReenterOrder, ReplaceShipmentAgent, UpdateShipmentBusinessData, UpdateCustomerServiceFinanceItem
<1>2. ASSUME NEW f \in Fees, NEW r \in Roles, item'[f][r].status = "CONFIRMED"
      PROVE  item[f][r].status = "CONFIRMED"
  <2>1. ASSUME NEW S, NEW s \in {"ABSENT", "VOIDED"}, SetItems(S, s)
        PROVE  item[f][r].status = "CONFIRMED"
    BY <1>2, <2>1 DEF SetItems, IInv, TypeOK, Item
  <2>2. ASSUME NEW g \in Fees, NEW k \in Roles, UpdateCustomerServiceFinanceItem(g, k)
        PROVE  item[f][r].status = "CONFIRMED"
    BY <1>2, <2>2 DEF UpdateCustomerServiceFinanceItem, IInv, TypeOK, Item
  <2>3. QED
    BY <2>1, <2>2 DEF OrderStep, ReenterOrder, ReplaceShipmentAgent, UpdateShipmentBusinessData
<1>3. HangBooks'
  BY <1>1, HangFrame DEF IInv, HangBooks, SameRequests, Advances
<1>4. OrderCostsStand'
  BY <1>1, <1>2 DEF IInv, OrderCostsStand, Live
<1>5. SettledAsAudited'
  BY <1>1, SettledForward DEF IInv, Advances
<1>6. QED
  BY <1>3, <1>4, <1>5

\* What a snapshot writes of a fee it may count.
LEMMA SnapshotStands ==
    ASSUME IInv, NEW t \in Settlements, NEW k \in SettlementTypes, NEW f \in Fees, Counts(k, f)
    PROVE  LET l == Snapshot(t, k, f)
           IN  /\ l.payable # 0 => Live(f) /\ fee[f].audited /\ l.payable = fee[f].payable
               /\ k # "FINANCE" => /\ Live(f) /\ fee[f].audited /\ fee[f].confirmed
                                   /\ l.payable = fee[f].payable /\ l.business = Business(fee[f])
<1>1. Live(f)
  BY DEF IInv, OrderCostsStand, Counts, SettlementTypes
<1>2. k # "FINANCE" => fee[f].audited /\ fee[f].confirmed
  BY DEF Counts, SettlementTypes
<1>3. QED
  BY <1>1, <1>2 DEF Snapshot

LEMMA BooksSettlement ==
    ASSUME IInv, SettlementStep
    PROVE  HangBooks' /\ OrderCostsStand' /\ SettledAsAudited'
<1>1. PICK t \in Settlements :
        \/ \E F \in SUBSET Fees :
             \/ \E k \in SettlementTypes : CreateProfitSettlement(t, k, F)
             \/ RecomputeProfitSettlement(t, F)
        \/ ReleaseProfitSettlement(t)
        \/ \E s \in {"DRAFT", "PENDING_AUDIT", "APPROVED", "ARCHIVED"} : TransitionProfitSettlement(t, s)
  BY DEF SettlementStep
<1>2. UNCHANGED <<fee, item, request, row>>
  BY <1>1 DEF CreateProfitSettlement, RecomputeProfitSettlement, ReleaseProfitSettlement, TransitionProfitSettlement
<1>3. \/ line' = line
      \/ \E k \in SettlementTypes, F \in SUBSET Fees : SetLines(t, k, F) /\ \A f \in F : Counts(k, f)
  <2>1. settlement[t].type \in SettlementTypes
    BY DEF IInv, TypeOK, Settlement
  <2>2. QED
    BY <1>1, <2>1 DEF CreateProfitSettlement, RecomputeProfitSettlement, ReleaseProfitSettlement,
                      TransitionProfitSettlement, Countable
<1>4. SettledAsAudited'
  <2>1. CASE line' = line
    BY <1>2, <2>1, SettledForward DEF IInv, Advances
  <2>2. ASSUME NEW k \in SettlementTypes, NEW F \in SUBSET Fees, SetLines(t, k, F), \A f \in F : Counts(k, f)
        PROVE  SettledAsAudited'
    <3> SUFFICES ASSUME NEW f \in Fees, NEW j \in SettlementTypes, line'[f][j].settlement # None
                 PROVE  LET l == line'[f][j]
                        IN  /\ l.payable # 0 => Live(f) /\ fee[f].audited /\ l.payable = fee[f].payable
                            /\ j # "FINANCE" => /\ Live(f) /\ fee[f].audited /\ fee[f].confirmed
                                                /\ l.payable = fee[f].payable /\ l.business = Business(fee[f])
      BY <1>2 DEF SettledAsAudited, Live
    <3>1. CASE j = k /\ f \in F
      <4>1. line'[f][j] = Snapshot(t, j, f) /\ Counts(j, f)
        BY <2>2, <3>1 DEF SetLines
      <4>2. QED
        BY <4>1, SnapshotStands
    <3>2. CASE ~(j = k /\ f \in F)
      <4>1. line'[f][j] = line[f][j]
        BY <2>2, <3>2 DEF SetLines, NoLine
      <4>2. QED
        BY <4>1 DEF IInv, SettledAsAudited
    <3>3. QED
      BY <3>1, <3>2
  <2>3. QED
    BY <1>3, <2>1, <2>2
<1>5. HangBooks'
  BY <1>2, HangFrame DEF IInv, HangBooks, SameRequests, Advances
<1>6. OrderCostsStand'
  BY <1>2 DEF IInv, OrderCostsStand, Live
<1>7. QED
  BY <1>4, <1>5, <1>6

LEMMA BooksStep == IInv /\ [Next]_vars => IInv'
<1> SUFFICES ASSUME IInv, [Next]_vars PROVE IInv'
  OBVIOUS
<1>1. TypeOK'
  BY TypeStep DEF IInv
<1>2. CASE FeeStep
  BY <1>1, <1>2, BooksRegister, BooksForward, BooksTally, BooksArchive, BooksReverse, BooksVoid DEF FeeStep, IInv
<1>3. CASE HangStep
  BY <1>1, <1>3, BooksCreateRequest, BooksPurchase, BooksApprove, BooksTransition DEF HangStep, IInv
<1>4. CASE OrderStep \/ SettlementStep
  BY <1>1, <1>4, BooksOrder, BooksSettlement DEF IInv
<1>5. CASE UNCHANGED vars
  <2>1. UNCHANGED <<fee, item, request, row, line>>
    BY <1>5 DEF vars
  <2>2. HangBooks'
    BY <2>1, HangFrame DEF IInv, HangBooks, SameRequests, Advances
  <2>3. OrderCostsStand'
    BY <2>1 DEF IInv, OrderCostsStand, Live
  <2>4. SettledAsAudited'
    BY <2>1, SettledForward DEF IInv, Advances
  <2>5. QED
    BY <1>1, <2>2, <2>3, <2>4 DEF IInv
<1>6. QED
  BY <1>2, <1>3, <1>4, <1>5 DEF Next

\* A fee, its hang requests and its row to be paid tell one story through every audit,
\* reversal, void and approval, in a batch or alone (createMiscFeeHangRequest,
\* approveMiscFeeHangRequestInTransaction, reverseAuditMiscFee, voidMiscFee).
THEOREM HangBooksCorrect == Spec => []HangBooks
<1>1. Init => IInv
  BY TypeInit, BooksInit DEF IInv
<1>2. IInv => HangBooks
  BY DEF IInv
<1>3. QED
  BY <1>1, <1>2, BooksStep, PTL DEF Spec

\* No cost of a fee is confirmed on an order without the audit or the confirmation it
\* needs, whatever the order pages do (ensureMiscFeeOrderFinanceItems and its callers).
THEOREM OrderCostsCorrect == Spec => []OrderCostsStand
<1>1. Init => IInv
  BY TypeInit, BooksInit DEF IInv
<1>2. IInv => OrderCostsStand
  BY DEF IInv
<1>3. QED
  BY <1>1, <1>2, BooksStep, PTL DEF Spec

\* What a profit settlement counted of a fee stays true of it, of any number of
\* settlements (buildProfitSettlementSnapshot, reverseAuditMiscFee, voidMiscFee).
THEOREM SettledCorrect == Spec => []SettledAsAudited
<1>1. Init => IInv
  BY TypeInit, BooksInit DEF IInv
<1>2. IInv => SettledAsAudited
  BY DEF IInv
<1>3. QED
  BY <1>1, <1>2, BooksStep, PTL DEF Spec
=============================================================================
