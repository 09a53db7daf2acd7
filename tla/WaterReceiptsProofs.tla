------------------------ MODULE WaterReceiptsProofs ------------------------
(***************************************************************************)
(* Theorems about WaterReceipts for every set of accounts, receipts,       *)
(* shipments, receivables, requests and matches and all amounts.           *)
(***************************************************************************)
EXTENDS WaterReceipts, FiniteSetTheorems, FunctionTheorems, TLAPS

-----------------------------------------------------------------------------
(* What adding, removing and changing rows does to the sum of their        *)
(* amounts.  The proofs count cents: the rows' cents are disjoint sets.    *)

\* One row has as many cents as its amount.
LEMMA CentsOfRow ==
    ASSUME NEW x, NEW a \in Nat
    PROVE  /\ IsFiniteSet({x} \X (1 .. a))
           /\ Cardinality({x} \X (1 .. a)) = a
<1>1. IsFiniteSet({x}) /\ Cardinality({x}) = 1
  BY FS_Singleton
<1>2. IsFiniteSet(1 .. a) /\ Cardinality(1 .. a) = a
  BY FS_Interval
<1>3. /\ IsFiniteSet({x} \X (1 .. a))
      /\ Cardinality({x} \X (1 .. a)) = Cardinality({x}) * Cardinality(1 .. a)
  BY <1>1, <1>2, FS_Product
<1>4. QED
  BY <1>1, <1>2, <1>3

\* Finitely many rows have finitely many cents.
LEMMA CentsFinite ==
    ASSUME NEW S, IsFiniteSet(S), NEW amount, \A x \in S : amount[x] \in Nat
    PROVE  IsFiniteSet(Cents(amount, S))
<1> DEFINE row == [x \in S |-> {x} \X (1 .. amount[x])]
           rows == {{x} \X (1 .. amount[x]) : x \in S}
<1>1. row \in Surjection(S, rows)
  <2>1. row \in [S -> rows]
    OBVIOUS
  <2>2. \A t \in rows : \E s \in S : row[s] = t
    OBVIOUS
  <2>3. QED
    BY <2>1, <2>2, Fun_IsSurj
<1>2. IsFiniteSet(rows)
  BY <1>1, FS_Surjection
<1>3. \A t \in rows : IsFiniteSet(t)
  <2>1. SUFFICES ASSUME NEW x \in S PROVE IsFiniteSet({x} \X (1 .. amount[x]))
    OBVIOUS
  <2>2. QED
    BY CentsOfRow
<1>4. IsFiniteSet(UNION rows)
  BY <1>2, <1>3, FS_UNION
<1>5. QED
  BY <1>4 DEF Cents

\* A sum of amounts is an amount.
LEMMA TotalType ==
    ASSUME NEW S, IsFiniteSet(S), NEW amount, \A x \in S : amount[x] \in Nat
    PROVE  Total(amount, S) \in Nat
  BY CentsFinite, FS_CardinalityType DEF Total

LEMMA TotalEmpty ==
    ASSUME NEW amount
    PROVE  Total(amount, {}) = 0
<1>1. Cents(amount, {}) = {}
  BY DEF Cents
<1>2. QED
  BY <1>1, FS_EmptySet DEF Total

\* The sum depends on the amounts of its own rows alone.
LEMMA TotalSame ==
    ASSUME NEW S, NEW amount, NEW other, \A x \in S : amount[x] = other[x]
    PROVE  Total(amount, S) = Total(other, S)
<1>1. {{x} \X (1 .. amount[x]) : x \in S} = {{x} \X (1 .. other[x]) : x \in S}
  OBVIOUS
<1>2. QED
  BY <1>1 DEF Total, Cents

\* The sum over two disjoint sets of rows.
LEMMA TotalDisjoint ==
    ASSUME NEW S, IsFiniteSet(S), NEW T, IsFiniteSet(T), S \cap T = {},
           NEW amount, \A x \in S \cup T : amount[x] \in Nat
    PROVE  Total(amount, S \cup T) = Total(amount, S) + Total(amount, T)
<1>1. IsFiniteSet(Cents(amount, S)) /\ IsFiniteSet(Cents(amount, T))
  BY CentsFinite
<1>2. Cents(amount, S \cup T) = Cents(amount, S) \cup Cents(amount, T)
  BY DEF Cents
<1>3. Cents(amount, S) \cap Cents(amount, T) = {}
  BY DEF Cents
<1>4. /\ Cardinality(Cents(amount, S)) \in Nat
      /\ Cardinality(Cents(amount, T)) \in Nat
  BY <1>1, FS_CardinalityType
<1>5. Cardinality(Cents(amount, S) \cap Cents(amount, T)) = 0
  BY <1>3, FS_EmptySet
<1>6. Cardinality(Cents(amount, S) \cup Cents(amount, T)) =
        Cardinality(Cents(amount, S)) + Cardinality(Cents(amount, T))
          - Cardinality(Cents(amount, S) \cap Cents(amount, T))
  BY <1>1, FS_Union
<1>7. Cardinality(Cents(amount, S) \cup Cents(amount, T)) =
        Cardinality(Cents(amount, S)) + Cardinality(Cents(amount, T))
  BY <1>4, <1>5, <1>6
<1>8. QED
  BY <1>2, <1>7 DEF Total

\* The sum over some of the rows is at most the sum over all.
LEMMA TotalWithin ==
    ASSUME NEW S, IsFiniteSet(S), NEW T \in SUBSET S,
           NEW amount, \A x \in S : amount[x] \in Nat
    PROVE  Total(amount, T) <= Total(amount, S)
<1>1. /\ IsFiniteSet(T) /\ IsFiniteSet(S \ T)
      /\ T \cup (S \ T) = S
  BY FS_Subset
<1>2. Total(amount, T \cup (S \ T)) = Total(amount, T) + Total(amount, S \ T)
  BY <1>1, TotalDisjoint
<1>3. Total(amount, T) \in Nat /\ Total(amount, S \ T) \in Nat
  BY <1>1, TotalType
<1>4. Total(amount, S) = Total(amount, T) + Total(amount, S \ T)
  BY <1>1, <1>2
<1>5. QED
  BY <1>3, <1>4

\* The sum over a single row.
LEMMA TotalOfRow ==
    ASSUME NEW x, NEW amount, amount[x] \in Nat
    PROVE  Total(amount, {x}) = amount[x]
<1>1. Cents(amount, {x}) = {x} \X (1 .. amount[x])
  BY DEF Cents
<1>2. QED
  BY <1>1, CentsOfRow DEF Total

\* Adding a row adds its amount.
LEMMA TotalAdd ==
    ASSUME NEW S, IsFiniteSet(S), NEW x, x \notin S,
           NEW amount, \A y \in S \cup {x} : amount[y] \in Nat
    PROVE  Total(amount, S \cup {x}) = Total(amount, S) + amount[x]
<1>1. IsFiniteSet({x})
  BY FS_Singleton
<1>2. Total(amount, S \cup {x}) = Total(amount, S) + Total(amount, {x})
  BY <1>1, TotalDisjoint
<1>3. QED
  BY <1>2, TotalOfRow

\* The sum without a row is less by the row's amount.
LEMMA TotalWithout ==
    ASSUME NEW S, IsFiniteSet(S), NEW x \in S,
           NEW amount, \A y \in S : amount[y] \in Nat
    PROVE  Total(amount, S \ {x}) = Total(amount, S) - amount[x]
<1>1. IsFiniteSet(S \ {x})
  BY FS_Subset
<1>2. (S \ {x}) \cup {x} = S
  OBVIOUS
<1>3. Total(amount, (S \ {x}) \cup {x}) = Total(amount, S \ {x}) + amount[x]
  BY <1>1, TotalAdd
<1>4. Total(amount, S \ {x}) \in Nat
  BY <1>1, TotalType
<1>5. amount[x] \in Nat
  OBVIOUS
<1>6. Total(amount, S) = Total(amount, S \ {x}) + amount[x]
  BY <1>2, <1>3
<1>7. QED
  BY <1>4, <1>5, <1>6

\* Every row's amount is part of the sum.
LEMMA TotalCovers ==
    ASSUME NEW S, IsFiniteSet(S), NEW x \in S,
           NEW amount, \A y \in S : amount[y] \in Nat
    PROVE  amount[x] <= Total(amount, S)
<1>1. Total(amount, S \ {x}) \in Nat
  <2>1. IsFiniteSet(S \ {x})
    BY FS_Subset
  <2>2. QED
    BY <2>1, TotalType
<1>2. Total(amount, S \ {x}) = Total(amount, S) - amount[x]
  BY TotalWithout
<1>3. Total(amount, S) \in Nat /\ amount[x] \in Nat
  BY TotalType
<1>4. QED
  BY <1>1, <1>2, <1>3

\* Of two sums over sets that differ in row x alone, each is what the other
\* rows have, and x's amount if x is counted.
LEMMA TotalChange ==
    ASSUME NEW S, IsFiniteSet(S), NEW T, IsFiniteSet(T), NEW x, S \ {x} = T \ {x},
           NEW amount, \A y \in S : amount[y] \in Nat,
           NEW other, \A y \in T : other[y] \in Nat,
           \A y \in S \ {x} : other[y] = amount[y]
    PROVE  Total(other, T) - (IF x \in T THEN other[x] ELSE 0)
             = Total(amount, S) - (IF x \in S THEN amount[x] ELSE 0)
<1>1. Total(amount, S \ {x}) = Total(other, T \ {x})
  BY TotalSame
<1>2. Total(amount, S \ {x}) = Total(amount, S) - (IF x \in S THEN amount[x] ELSE 0)
  <2>1. CASE x \in S
    BY <2>1, TotalWithout
  <2>2. CASE x \notin S
    <3>1. S \ {x} = S
      BY <2>2
    <3>2. Total(amount, S) \in Nat
      BY TotalType
    <3>3. QED
      BY <2>2, <3>1, <3>2
  <2>3. QED
    BY <2>1, <2>2
<1>3. Total(other, T \ {x}) = Total(other, T) - (IF x \in T THEN other[x] ELSE 0)
  <2>1. CASE x \in T
    BY <2>1, TotalWithout
  <2>2. CASE x \notin T
    <3>1. T \ {x} = T
      BY <2>2
    <3>2. Total(other, T) \in Nat
      BY TotalType
    <3>3. QED
      BY <2>2, <3>1, <3>2
  <2>3. QED
    BY <2>1, <2>2
<1>4. QED
  BY <1>1, <1>2, <1>3

-----------------------------------------------------------------------------
(* Types.                                                                  *)


\* The amounts that totals are taken over are amounts.
LEMMA AmountTypes ==
    ASSUME TypeOK
    PROVE  /\ \A q \in Requests : RequestAmount[q] \in Nat
           /\ \A m \in Matches : MatchAmount[m] \in Nat
  BY DEF TypeOK, RequestAmount, MatchAmount, RequestRow, MatchRow

LEMMA MatchTotalType ==
    ASSUME TypeOK, NEW S \in SUBSET Matches
    PROVE  Total(MatchAmount, S) \in Nat
<1>1. IsFiniteSet(S)
  BY FS_Subset, ConstantsOK DEF ConstantsOK
<1>2. QED
  BY <1>1, AmountTypes, TotalType

\* New rows are of their type.
LEMMA NewRowTypes ==
    /\ NoReceipt \in ReceiptRow
    /\ NoLedger \in LedgerRow
    /\ NoFee \in FeeRow /\ Deleted \in FeeRow
    /\ NoRequest \in RequestRow
    /\ NoMatch \in MatchRow
    /\ NoPayment \in PaymentRow
<1>1. NoReceipt \in ReceiptRow
  BY DEF NoReceipt, ReceiptRow
<1>2. NoLedger \in LedgerRow
  BY DEF NoLedger, LedgerRow
<1>3. NoFee \in FeeRow
  BY DEF NoFee, FeeRow
<1>4. Deleted \in FeeRow
  BY DEF NoFee, Deleted, FeeRow
<1>5. NoRequest \in RequestRow
  BY DEF NoRequest, RequestRow
<1>6. NoMatch \in MatchRow
  BY DEF NoMatch, MatchRow
<1>7. NoPayment \in PaymentRow
  BY DEF NoPayment, PaymentRow
<1>8. QED
  BY <1>1, <1>2, <1>3, <1>4, <1>5, <1>6, <1>7

LEMMA NewFeeType ==
    ASSUME NEW a \in Nat
    PROVE  NewFee(a) \in FeeRow
  BY NewRowTypes DEF NewFee, FeeRow

LEMMA LedgerOfType ==
    ASSUME NEW row \in ReceiptRow
    PROVE  LedgerOf(row) \in LedgerRow
  BY DEF LedgerOf, ReceiptRow, LedgerRow

\* Crediting and debiting an account, or nothing where there is no account.
LEMMA AccountMovesType ==
    ASSUME TypeOK, NEW k, NEW n \in Int
    PROVE  /\ [account EXCEPT ![k].balance = @ + n] \in [Accounts -> AccountRow]
           /\ [account EXCEPT ![k].balance = @ - n] \in [Accounts -> AccountRow]
<1>1. account \in [Accounts -> AccountRow]
  BY DEF TypeOK
<1>2. ASSUME NEW c \in Accounts
      PROVE  /\ [account[c] EXCEPT !.balance = account[c].balance + n] \in AccountRow
             /\ [account[c] EXCEPT !.balance = account[c].balance - n] \in AccountRow
  <2>1. account[c].balance + n \in Int /\ account[c].balance - n \in Int
    BY <1>1 DEF AccountRow
  <2>2. QED
    BY <1>1, <2>1 DEF AccountRow
<1>3. QED
  BY <1>1, <1>2

\* Posting an amount and taking it back keep rows in their type.
LEMMA ReceiptPostingTypes ==
    ASSUME NEW row \in ReceiptRow, NEW a \in Nat
    PROVE  /\ PostedReceipt(row, a) \in ReceiptRow
           /\ UnpostedReceipt(row, a) \in ReceiptRow
<1>1. /\ row.matched \in Int /\ row.amount \in Nat
      /\ AtLeastZero(row.matched - a) \in Int
  BY DEF ReceiptRow, AtLeastZero
<1>2. PostedReceipt(row, a) \in ReceiptRow
  <2> DEFINE matched == row.matched + a
             balance == row.amount - (row.matched + a)
             status  == IF balance <= 0 THEN "ARCHIVED" ELSE "PARTIAL_MATCHED"
  <2>1. matched \in Int /\ balance \in Int
    BY <1>1
  <2>2. status \in {"ARCHIVED", "PARTIAL_MATCHED"}
    OBVIOUS
  <2>3. PostedReceipt(row, a) =
          [row EXCEPT !.matched = matched, !.balance = balance, !.status = status]
    BY DEF PostedReceipt
  <2> HIDE DEF matched, balance, status
  <2>4. QED
    BY <2>1, <2>2, <2>3 DEF ReceiptRow
<1>3. UnpostedReceipt(row, a) \in ReceiptRow
  <2> DEFINE matched == AtLeastZero(row.matched - a)
             balance == row.amount - matched
             status  == IF matched <= 0 THEN "ARRIVED" ELSE "PARTIAL_MATCHED"
  <2>1. matched \in Int
    BY <1>1
  <2>2. UnpostedReceipt(row, a) =
          [row EXCEPT !.matched = matched, !.balance = balance, !.status = status]
    BY DEF UnpostedReceipt
  <2>3. status \in {"ARRIVED", "PARTIAL_MATCHED"}
    OBVIOUS
  <2> HIDE DEF matched
  <2>4. balance \in Int
    BY <1>1, <2>1
  <2> HIDE DEF balance, status
  <2>5. QED
    BY <2>1, <2>2, <2>3, <2>4 DEF ReceiptRow
<1>4. QED
  BY <1>2, <1>3

LEMMA FeePostingTypes ==
    ASSUME NEW row \in FeeRow, NEW a \in Nat
    PROVE  /\ PostedFee(row, a) \in FeeRow
           /\ UnpostedFee(row, a) \in FeeRow
<1>1. row.received \in Int /\ row.amount \in Nat
  BY DEF FeeRow
<1>2. PostedFee(row, a) \in FeeRow
  <2> DEFINE received == row.received + a
             status   == IF row.received + a >= row.amount THEN "RECEIVED" ELSE "PARTIAL"
  <2>1. received \in Int
    BY <1>1
  <2>2. status \in {"RECEIVED", "PARTIAL"}
    OBVIOUS
  <2>3. PostedFee(row, a) = [row EXCEPT !.received = received, !.receiptStatus = status,
                                        !.audit = "CONFIRMED"]
    BY DEF PostedFee
  <2> HIDE DEF received, status
  <2>4. QED
    BY <2>1, <2>2, <2>3 DEF FeeRow
<1>3. UnpostedFee(row, a) \in FeeRow
  <2> DEFINE received == AtLeastZero(row.received - a)
             status   == ReceiptStatus(received, row.amount)
  <2>1. received \in Int
    BY <1>1 DEF AtLeastZero
  <2>2. UnpostedFee(row, a) = [row EXCEPT !.received = received, !.receiptStatus = status]
    BY DEF UnpostedFee
  <2> HIDE DEF received
  <2>3. status \in {"UNPAID", "PARTIAL", "RECEIVED"}
    BY DEF ReceiptStatus
  <2> HIDE DEF status
  <2>4. QED
    BY <2>1, <2>2, <2>3 DEF FeeRow
<1>4. QED
  BY <1>2, <1>3

-----------------------------------------------------------------------------
(* Type correctness.                                                       *)

\* The database that an earlier release left behind is of its type.
LEMMA MigratedType ==
    ASSUME NEW L \in SUBSET Legacy, NEW posting \in [L -> Allocation], NEW paid \in [Receipts -> Amounts],
           NEW due \in [Fees -> Amounts], NEW owner \in [Receipts -> Accounts],
           customer \in [Shipments -> Accounts],
           Migrated(posting, paid, due, owner)
    PROVE  TypeOK
<1> DEFINE matched(r)  == Total(Posted(posting), PostedOn(posting, r))
           received(f) == Total(Posted(posting), PostedFor(posting, f))
           posted      == {posting[m].receipt : m \in DOMAIN posting}
           charged     == {posting[m].fee : m \in DOMAIN posting}
           Of(c)       == {r \in posted : owner[r] = c}
           row(r)      == [NoReceipt EXCEPT !.account = owner[r], !.amount = paid[r]]
           balances    == [r \in Receipts |-> receipt[r].balance]
<1>1. ASSUME NEW m \in DOMAIN posting
      PROVE  posting[m].receipt \in Receipts /\ posting[m].fee \in Fees /\ posting[m].amount \in Nat
  BY ConstantsOK DEF Allocation, ConstantsOK
<1>2. ASSUME NEW S \in SUBSET DOMAIN posting PROVE Total(Posted(posting), S) \in Nat
  <2>1. IsFiniteSet(S)
    BY FS_Subset, ConstantsOK DEF ConstantsOK
  <2>2. \A m \in S : Posted(posting)[m] \in Nat
    BY <1>1 DEF Posted
  <2>3. QED
    BY <2>1, <2>2, TotalType
<1>3. \A r \in Receipts : matched(r) \in Nat
  BY <1>2 DEF PostedOn
<1>4. \A f \in Fees : received(f) \in Nat
  BY <1>2 DEF PostedFor
<1>5. posted \subseteq Receipts /\ charged \subseteq Fees
  BY <1>1
<1>6. /\ \A r \in posted : matched(r) <= paid[r]
      /\ receipt = [r \in Receipts |->
             IF r \in posted THEN PostedReceipt(row(r), matched(r)) ELSE NoReceipt]
      /\ ledger = [r \in Receipts |-> IF r \in posted THEN LedgerOf(receipt[r]) ELSE NoLedger]
      /\ account = [c \in Accounts |->
             [open |-> Of(c) # {}, balance |-> Total(balances, Of(c))]]
      /\ fee = [f \in Fees |->
             IF f \in charged
             THEN [PostedFee(NewFee(due[f]), received(f)) EXCEPT !.audit = "PENDING"]
             ELSE NoFee]
      /\ match = [m \in Matches |->
             IF m \in DOMAIN posting
             THEN [status |-> "LIVE", receipt |-> posting[m].receipt,
                   fee |-> posting[m].fee, amount |-> posting[m].amount]
             ELSE NoMatch]
      /\ request = [q \in Requests |-> NoRequest]
      /\ payment = [p \in Payments |-> NoPayment]
      /\ inFlight = {}
  BY DEF Migrated
<1> HIDE DEF matched, received
<1>7. ASSUME NEW r \in Receipts PROVE row(r) \in ReceiptRow
  <2>1. owner[r] \in Accounts /\ paid[r] \in Nat
    BY ConstantsOK DEF ConstantsOK
  <2>2. QED
    BY <2>1, NewRowTypes DEF ReceiptRow
<1>8. receipt \in [Receipts -> ReceiptRow]
  <2>1. ASSUME NEW r \in Receipts PROVE PostedReceipt(row(r), matched(r)) \in ReceiptRow
    <3>1. row(r) \in ReceiptRow /\ matched(r) \in Nat
      BY <1>3, <1>7
    <3> HIDE DEF row
    <3>2. QED
      BY <3>1, ReceiptPostingTypes
  <2> HIDE DEF row
  <2>2. QED
    BY <1>6, <2>1, NewRowTypes
<1>9. ledger \in [Receipts -> LedgerRow]
  BY <1>6, <1>8, LedgerOfType, NewRowTypes
<1>10. account \in [Accounts -> AccountRow]
  <2>1. ASSUME NEW r \in posted PROVE balances[r] \in Nat
    <3>1. r \in Receipts /\ paid[r] \in Nat /\ matched(r) \in Nat /\ matched(r) <= paid[r]
      BY <1>3, <1>5, <1>6, ConstantsOK DEF ConstantsOK
    <3>2. receipt[r] = PostedReceipt(row(r), matched(r))
      BY <1>6, <3>1
    <3>3. row(r).amount = paid[r] /\ row(r).matched = 0 /\ row(r) \in ReceiptRow
      BY <1>7, <3>1 DEF NoReceipt
    <3> HIDE DEF row
    <3>4. PostedReceipt(row(r), matched(r)).balance = paid[r] - matched(r)
      BY <3>1, <3>3 DEF PostedReceipt, ReceiptRow
    <3>5. balances[r] = receipt[r].balance
      BY <3>1
    <3>6. QED
      BY <3>1, <3>2, <3>4, <3>5
  <2> HIDE DEF balances
  <2>2. ASSUME NEW c \in Accounts PROVE Total(balances, Of(c)) \in Nat
    <3>1. IsFiniteSet(Of(c))
      BY <1>5, FS_Subset, ConstantsOK DEF ConstantsOK
    <3>2. \A r \in Of(c) : balances[r] \in Nat
      BY <2>1
    <3> HIDE DEF Of
    <3>3. QED
      BY <3>1, <3>2, TotalType
  <2>3. ASSUME NEW c \in Accounts
        PROVE  [open |-> Of(c) # {}, balance |-> Total(balances, Of(c))] \in AccountRow
    <3>1. (Of(c) # {}) \in BOOLEAN
      OBVIOUS
    <3>2. Total(balances, Of(c)) \in Int
      BY <2>2
    <3>3. QED
      BY <3>1, <3>2 DEF AccountRow
  <2> HIDE DEF Of
  <2>4. QED
    BY <1>6, <2>3
<1>11. fee \in [Fees -> FeeRow]
  <2>1. ASSUME NEW f \in Fees
        PROVE  [PostedFee(NewFee(due[f]), received(f)) EXCEPT !.audit = "PENDING"] \in FeeRow
    <3>1. due[f] \in Nat
      BY ConstantsOK DEF ConstantsOK
    <3>2. PostedFee(NewFee(due[f]), received(f)) \in FeeRow
      BY <1>4, <3>1, NewFeeType, FeePostingTypes
    <3>3. QED
      BY <3>2 DEF FeeRow
  <2>2. QED
    BY <1>6, <2>1, NewRowTypes
<1>12. match \in [Matches -> MatchRow]
  <2>1. \A m \in DOMAIN posting : [status |-> "LIVE", receipt |-> posting[m].receipt,
              fee |-> posting[m].fee, amount |-> posting[m].amount] \in MatchRow
    BY <1>1 DEF MatchRow
  <2>2. QED
    BY <1>6, <2>1, NewRowTypes
<1>13. /\ request \in [Requests -> RequestRow] /\ inFlight \subseteq Call
       /\ payment \in [Payments -> PaymentRow]
  BY <1>6, NewRowTypes
<1>14. QED
  BY <1>8, <1>9, <1>10, <1>11, <1>12, <1>13 DEF TypeOK

LEMMA InitType == ASSUME Init PROVE TypeOK
  BY MigratedType DEF Init

LEMMA ReceiptStepType == ASSUME TypeOK, ReceiptStep PROVE TypeOK'
<1>1. ASSUME NEW r \in Receipts, NEW c \in Accounts \cup {None}, NEW a \in Amounts,
             CreateReceipt(r, c, a)
      PROVE  TypeOK'
  <2>1. a \in Nat
    BY ConstantsOK DEF ConstantsOK
  <2>2. ASSUME NEW old \in ReceiptRow
        PROVE  [old EXCEPT !.status = "PENDING", !.account = c, !.amount = a, !.balance = a]
                  \in ReceiptRow
    <3>1. [old EXCEPT !.status = "PENDING", !.account = c] \in ReceiptRow
      BY DEF ReceiptRow
    <3>2. ASSUME NEW row \in ReceiptRow
          PROVE  [row EXCEPT !.amount = a, !.balance = a] \in ReceiptRow
      <4>1. a \in Nat /\ a \in Int
        BY <2>1
      <4>2. QED
        BY <4>1 DEF ReceiptRow
    <3>3. [old EXCEPT !.status = "PENDING", !.account = c, !.amount = a, !.balance = a]
            = [[old EXCEPT !.status = "PENDING", !.account = c] EXCEPT
                  !.amount = a, !.balance = a]
      BY DEF ReceiptRow
    <3>4. QED
      BY <3>1, <3>2, <3>3
  <2>3. receipt' \in [Receipts -> ReceiptRow]
    BY <1>1, <2>2, NewRowTypes DEF CreateReceipt, TypeOK
  <2>4. QED
    BY <1>1, <2>3 DEF CreateReceipt, TypeOK
<1>2. ASSUME NEW r \in Receipts, NEW c \in Accounts \cup {None}, NEW a \in Amounts,
             UpdatePendingReceipt(r, c, a)
      PROVE  TypeOK'
  <2>1. a \in Nat
    BY ConstantsOK DEF ConstantsOK
  <2>2. receipt[r] \in ReceiptRow
    BY DEF TypeOK
  <2>3. a - receipt[r].matched \in Int
    BY <2>1, <2>2 DEF ReceiptRow
  <2>4. [receipt[r] EXCEPT !.account = c, !.amount = a, !.balance = a - receipt[r].matched]
            \in ReceiptRow
    BY <2>1, <2>2, <2>3 DEF ReceiptRow
  <2>5. receipt' = [receipt EXCEPT ![r] = [receipt[r] EXCEPT
              !.account = c, !.amount = a, !.balance = a - receipt[r].matched]]
    BY <1>2 DEF UpdatePendingReceipt, TypeOK
  <2>6. receipt' \in [Receipts -> ReceiptRow]
    BY <2>4, <2>5 DEF TypeOK
  <2>7. QED
    BY <1>2, <2>6 DEF UpdatePendingReceipt, TypeOK
<1>3. ASSUME NEW r \in Receipts, NEW c \in Accounts, NEW a \in Amounts,
             UpdateArrivedReceipt(r, c, a)
      PROVE  TypeOK'
  <2> DEFINE balance == a - receipt[r].matched
             status == IF balance <= 0 THEN "ARCHIVED"
                       ELSE IF receipt[r].matched > 0 THEN "PARTIAL_MATCHED" ELSE "ARRIVED"
             row == [receipt[r] EXCEPT !.account = c, !.amount = a, !.balance = balance,
                                       !.status = status]
  <2>1. a \in Nat
    BY ConstantsOK DEF ConstantsOK
  <2>2. receipt[r] \in ReceiptRow
    BY DEF TypeOK
  <2>3. balance \in Int /\ receipt[r].balance \in Int /\ receipt[r].account \in Accounts \cup {None}
    BY <2>1, <2>2 DEF ReceiptRow
  <2>4. status \in {"ARCHIVED", "PARTIAL_MATCHED", "ARRIVED"}
    OBVIOUS
  <2>5. /\ receipt' = [receipt EXCEPT ![r] = row]
        /\ ledger' = [ledger EXCEPT ![r] = LedgerOf(receipt'[r])]
        /\ account' = MovedBalance(receipt[r], c, balance)
        /\ UNCHANGED <<customer, fee, request, match, payment, inFlight>>
    BY <1>3 DEF UpdateArrivedReceipt, TypeOK
  <2>6. account' \in [Accounts -> AccountRow]
    <3> HIDE DEF balance
    <3>1. CASE c = receipt[r].account
      BY <2>3, <2>5, <3>1 DEF MovedBalance, TypeOK, AccountRow
    <3>2. CASE c # receipt[r].account
      BY <2>3, <2>5, <3>2 DEF MovedBalance, TypeOK, AccountRow
    <3>3. QED
      BY <3>1, <3>2
  <2> HIDE DEF balance, status
  <2>7. row \in ReceiptRow
    BY <2>1, <2>2, <2>3, <2>4 DEF ReceiptRow
  <2> HIDE DEF row
  <2>8. receipt' \in [Receipts -> ReceiptRow] /\ receipt'[r] = row
    BY <2>5, <2>7 DEF TypeOK
  <2>9. ledger' \in [Receipts -> LedgerRow]
    BY <2>5, <2>7, <2>8, LedgerOfType DEF TypeOK
  <2>10. QED
    BY <2>5, <2>6, <2>8, <2>9 DEF TypeOK
<1>4. ASSUME NEW r \in Receipts, MarkArrived(r) PROVE TypeOK'
  BY <1>4, LedgerOfType DEF MarkArrived, TypeOK, ReceiptRow, AccountRow
<1>5. ASSUME NEW r \in Receipts, ArchiveReceipt(r) PROVE TypeOK'
  BY <1>5 DEF ArchiveReceipt, TypeOK, ReceiptRow
<1>6. ASSUME NEW r \in Receipts, VoidPendingReceipt(r) PROVE TypeOK'
  BY <1>6 DEF VoidPendingReceipt, TypeOK, ReceiptRow
<1>7. ASSUME NEW r \in Receipts, VoidArrivedReceipt(r) PROVE TypeOK'
  <2>1. receipt' \in [Receipts -> ReceiptRow]
    BY <1>7 DEF VoidArrivedReceipt, TypeOK, ReceiptRow
  <2>2. receipt[r].amount \in Nat
    BY DEF TypeOK, ReceiptRow
  <2>3. ledger' \in [Receipts -> LedgerRow]
    BY <1>7, <2>2 DEF VoidArrivedReceipt, TypeOK, LedgerRow
  <2>4. account' \in [Accounts -> AccountRow]
    <3>1. account' = [account EXCEPT ![receipt[r].account].balance = @ - receipt[r].amount]
      BY <1>7 DEF VoidArrivedReceipt
    <3>2. receipt[r].amount \in Int
      BY <2>2
    <3>3. QED
      BY <3>1, <3>2, AccountMovesType
  <2>5. QED
    BY <1>7, <2>1, <2>3, <2>4 DEF VoidArrivedReceipt, TypeOK
<1>8. QED
  BY <1>1, <1>2, <1>3, <1>4, <1>5, <1>6, <1>7 DEF ReceiptStep

LEMMA FeeStepType == ASSUME TypeOK, FeeStep PROVE TypeOK'
<1>1. ASSUME NEW f \in Fees, NEW a \in Amounts, CreateFee(f, a) PROVE TypeOK'
  BY <1>1, NewFeeType, ConstantsOK DEF CreateFee, TypeOK, ConstantsOK
<1>2. ASSUME NEW f \in Fees, NEW a \in Amounts, UpdateFee(f, a) PROVE TypeOK'
  BY <1>2, ConstantsOK DEF UpdateFee, TypeOK, FeeRow, ConstantsOK
<1>3. ASSUME NEW f \in Fees, AuditFee(f) PROVE TypeOK'
  BY <1>3 DEF AuditFee, TypeOK, FeeRow
<1>4. ASSUME NEW f \in Fees, LockFee(f) PROVE TypeOK'
  BY <1>4 DEF LockFee, TypeOK, FeeRow
<1>5. ASSUME NEW f \in Fees, UnlockFee(f) PROVE TypeOK'
  BY <1>5 DEF UnlockFee, TypeOK, FeeRow
<1>6. ASSUME NEW f \in Fees, DeleteFinanceItem(f) PROVE TypeOK'
  BY <1>6, NewRowTypes DEF DeleteFinanceItem, TypeOK
<1>7. ASSUME NEW f \in Fees, DeleteFeeCheck(f) PROVE TypeOK'
  <2>1. [op |-> "delete", fee |-> f] \in Call
    BY DEF Call
  <2>2. inFlight' \subseteq Call
    BY <1>7, <2>1 DEF DeleteFeeCheck, TypeOK
  <2>3. QED
    BY <1>7, <2>2 DEF DeleteFeeCheck, TypeOK
<1>8. ASSUME NEW f \in Fees, DeleteFeeWrite(f) PROVE TypeOK'
  BY <1>8, NewRowTypes DEF DeleteFeeWrite, TypeOK
<1>9. ASSUME NEW f \in Fees, ReverseAuditCheck(f) PROVE TypeOK'
  <2>1. [op |-> "reverse audit", fee |-> f] \in Call
    BY DEF Call
  <2>2. inFlight' \subseteq Call
    BY <1>9, <2>1 DEF ReverseAuditCheck, TypeOK
  <2>3. QED
    BY <1>9, <2>2 DEF ReverseAuditCheck, TypeOK
<1>10. ASSUME NEW f \in Fees, ReverseAuditWrite(f) PROVE TypeOK'
  BY <1>10 DEF ReverseAuditWrite, TypeOK, FeeRow
<1>11. ASSUME NEW c \in inFlight, AbandonCall(c) PROVE TypeOK'
  BY <1>11 DEF AbandonCall, TypeOK
<1>12. ASSUME NEW p \in Payments, NEW c \in Accounts, NEW F \in SUBSET Fees, NEW a \in Amounts,
              CreatePayment(p, c, F, a)
       PROVE  TypeOK'
  <2> DEFINE settled == Total(FeeAmount, F)
  <2>1. settled \in Nat
    <3>1. IsFiniteSet(F)
      BY FS_Subset, ConstantsOK DEF ConstantsOK
    <3>2. \A f \in F : FeeAmount[f] \in Nat
      BY DEF TypeOK, FeeAmount, FeeRow
    <3>3. QED
      BY <3>1, <3>2, TotalType
  <2>2. a \in Nat
    BY ConstantsOK DEF ConstantsOK
  <2>3. /\ payment' = [payment EXCEPT ![p] =
                        [account |-> c, amount |-> a, settled |-> settled, fees |-> F]]
        /\ account' = [account EXCEPT ![c].balance = @ + (a - settled)]
        /\ fee' = [f \in Fees |-> IF f \in F \ SystemFees
                                  THEN [fee[f] EXCEPT !.audit = "CONFIRMED"] ELSE fee[f]]
        /\ UNCHANGED <<receipt, ledger, customer, request, match, inFlight>>
    BY <1>12 DEF CreatePayment
  <2> HIDE DEF settled
  <2>4. payment' \in [Payments -> PaymentRow]
    BY <2>1, <2>2, <2>3 DEF TypeOK, PaymentRow
  <2>5. account' \in [Accounts -> AccountRow]
    <3>1. a - settled \in Int
      BY <2>1, <2>2
    <3>2. QED
      BY <2>3, <3>1 DEF TypeOK, AccountRow
  <2>6. fee' \in [Fees -> FeeRow]
    <3>1. \A f \in Fees : [fee[f] EXCEPT !.audit = "CONFIRMED"] \in FeeRow
      BY DEF TypeOK, FeeRow
    <3>2. QED
      BY <2>3, <3>1 DEF TypeOK
  <2>7. QED
    BY <2>3, <2>4, <2>5, <2>6 DEF TypeOK
<1>13. ASSUME NEW p \in Payments, NEW c \in Accounts, OpenAccount(p, c) PROVE TypeOK'
  BY <1>13 DEF OpenAccount, TypeOK, AccountRow
<1>14. QED
  BY <1>1, <1>2, <1>3, <1>4, <1>5, <1>6, <1>7, <1>8, <1>9, <1>10, <1>11, <1>12, <1>13
     DEF FeeStep

\* New requests are of their type.
LEMMA WithRequestsType ==
    ASSUME TypeOK, NEW Q \in SUBSET Requests, NEW alloc \in [Q -> Allocation]
    PROVE  WithRequests(alloc) \in [Requests -> RequestRow]
<1>1. ASSUME NEW q \in Q
      PROVE  [status |-> "PENDING", receipt |-> alloc[q].receipt, fee |-> alloc[q].fee,
              amount |-> alloc[q].amount, match |-> None] \in RequestRow
  <2>1. alloc[q] \in Allocation
    OBVIOUS
  <2>2. alloc[q].receipt \in Receipts /\ alloc[q].fee \in Fees /\ alloc[q].amount \in Nat
    BY <2>1, ConstantsOK DEF Allocation, ConstantsOK
  <2>3. QED
    BY <2>2 DEF RequestRow
<1>2. DOMAIN alloc = Q
  OBVIOUS
<1>3. QED
  BY <1>1, <1>2 DEF WithRequests, TypeOK

LEMMA ShipmentStepType == ASSUME TypeOK, ShipmentStep PROVE TypeOK'
<1>1. ASSUME NEW s \in Shipments, NEW F \in SUBSET SystemFees, NEW new \in [F -> Amounts],
             RegenerateFees(s, new)
      PROVE  TypeOK'
  <2>1. \A f \in DOMAIN new : NewFee(new[f]) \in FeeRow
    BY NewFeeType, ConstantsOK DEF ConstantsOK
  <2>2. fee' \in [Fees -> FeeRow]
    BY <1>1, <2>1, NewRowTypes DEF RegenerateFees, TypeOK
  <2>3. QED
    BY <1>1, <2>2 DEF RegenerateFees, TypeOK
<1>2. ASSUME NEW s \in Shipments, NEW c \in Accounts,
             NEW F \in SUBSET {f \in Fees \ SystemFees : fee[f].status = "ABSENT"},
             NEW new \in [F -> Amounts], NEW Q \in SUBSET AbsentRequests,
             NEW alloc \in [Q -> {x \in Allocation : x.fee \in F}],
             OrderEntry(s, c, new, alloc)
      PROVE  TypeOK'
  <2>1. \A f \in DOMAIN new : NewFee(new[f]) \in FeeRow
    BY NewFeeType, ConstantsOK DEF ConstantsOK
  <2>2. \A f \in Fees : [fee[f] EXCEPT !.status = "VOIDED"] \in FeeRow
    <3>1. \A r \in FeeRow : [r EXCEPT !.status = "VOIDED"] \in FeeRow
      BY DEF FeeRow
    <3>2. QED
      BY <3>1 DEF TypeOK
  <2>3. fee' \in [Fees -> FeeRow]
    BY <1>2, <2>1, <2>2 DEF OrderEntry, TypeOK
  <2>4. customer' \in [Shipments -> Accounts]
    BY <1>2 DEF OrderEntry, TypeOK
  <2>5. Q \in SUBSET Requests /\ alloc \in [Q -> Allocation]
    BY DEF AbsentRequests
  <2>6. request' \in [Requests -> RequestRow]
    BY <1>2, <2>5, WithRequestsType DEF OrderEntry
  <2>7. QED
    BY <1>2, <2>3, <2>4, <2>6 DEF OrderEntry, TypeOK
<1>3. ASSUME NEW s \in Shipments, NEW c \in Accounts, ReassignShipment(s, c)
      PROVE  TypeOK'
  BY <1>3 DEF ReassignShipment, TypeOK
<1>4. ASSUME NEW s \in Shipments, DeleteShipment(s)
      PROVE  TypeOK'
  <2>1. fee' \in [Fees -> FeeRow]
    BY <1>4, NewRowTypes DEF DeleteShipment, TypeOK
  <2>2. QED
    BY <1>4, <2>1 DEF DeleteShipment, TypeOK
<1>5. QED
  BY <1>1, <1>2, <1>3, <1>4 DEF ShipmentStep

\* Taking matches back keeps every table but the requests in its type.
LEMMA TakeBackType ==
    ASSUME TypeOK, NEW r, NEW ms \in SUBSET Matches, TakeBack(r, ms),
           request' \in [Requests -> RequestRow]
    PROVE  TypeOK'
<1> DEFINE total == Total(MatchAmount, ms)
<1>1. total \in Nat
  BY MatchTotalType
<1>2. receipt' = [receipt EXCEPT ![r] = UnpostedReceipt(receipt[r], total)]
  BY DEF TakeBack, TypeOK
<1>3. receipt' \in [Receipts -> ReceiptRow]
  BY <1>1, <1>2, ReceiptPostingTypes DEF TypeOK
<1>4. ledger' \in [Receipts -> LedgerRow]
  <2> DEFINE balance == UnpostedReceipt(receipt[r], total).balance
  <2>1. ledger' = [ledger EXCEPT ![r].balance = balance]
    BY DEF TakeBack
  <2>2. r \in Receipts => balance \in Int
    BY <1>1, ReceiptPostingTypes DEF TypeOK, ReceiptRow
  <2> HIDE DEF balance
  <2>3. CASE r \in Receipts
    BY <2>1, <2>2, <2>3 DEF TypeOK, LedgerRow
  <2>4. CASE r \notin Receipts
    BY <2>1, <2>4 DEF TypeOK
  <2>5. QED
    BY <2>3, <2>4
<1>5. account' \in [Accounts -> AccountRow]
  <2>1. account' = Adjusted(receipt[r].account, total)
    BY DEF TakeBack
  <2> HIDE DEF total
  <2>2. QED
    <3>1. total \in Int /\ account \in [Accounts -> AccountRow]
      BY <1>1 DEF TypeOK
    <3>2. account' = account
            \/ account' = [account EXCEPT ![receipt[r].account].balance = @ + total]
      BY <2>1 DEF Adjusted
    <3>3. [account EXCEPT ![receipt[r].account].balance = @ + total] \in [Accounts -> AccountRow]
      BY <3>1, AccountMovesType
    <3>4. QED
      BY <3>1, <3>2, <3>3
<1>6. match' \in [Matches -> MatchRow]
  <2>1. \A m \in Matches : [match[m] EXCEPT !.status = "VOIDED"] \in MatchRow
    BY DEF TypeOK, MatchRow
  <2>2. QED
    BY <2>1 DEF TakeBack, TypeOK
<1>7. fee' \in [Fees -> FeeRow]
  <2>1. PICK last \in [{match[m].fee : m \in ms} -> ms] :
          fee' = [f \in Fees |-> IF f \in DOMAIN last
                                THEN UnpostedFee(fee[f], match[last[f]].amount)
                                ELSE fee[f]]
    BY DEF TakeBack
  <2>2. ASSUME NEW f \in Fees, f \in DOMAIN last
        PROVE  UnpostedFee(fee[f], match[last[f]].amount) \in FeeRow
    <3>1. last[f] \in Matches
      BY <2>2
    <3>2. match[last[f]].amount \in Nat /\ fee[f] \in FeeRow
      BY <3>1 DEF TypeOK, MatchRow
    <3>3. QED
      BY <3>2, FeePostingTypes
  <2>3. QED
    BY <2>1, <2>2 DEF TypeOK
<1>8. QED
  BY <1>3, <1>4, <1>5, <1>6, <1>7 DEF TakeBack, TypeOK

LEMMA MatchStepType == ASSUME TypeOK, MatchStep PROVE TypeOK'
<1>1. ASSUME NEW Q \in SUBSET AbsentRequests, NEW r \in Receipts,
             NEW alloc \in [Q -> {x \in Allocation : x.receipt = r}], Submit(r, alloc)
      PROVE  TypeOK'
  <2>1. Q \in SUBSET Requests /\ alloc \in [Q -> Allocation]
    BY DEF AbsentRequests
  <2>2. request' \in [Requests -> RequestRow]
    BY <1>1, <2>1, WithRequestsType DEF Submit
  <2>3. QED
    BY <1>1, <2>2 DEF Submit, TypeOK
<1>2. ASSUME NEW q \in Requests, NEW a \in Amounts, UpdateRequest(q, a)
      PROVE  TypeOK'
  BY <1>2, ConstantsOK DEF UpdateRequest, TypeOK, RequestRow, ConstantsOK
<1>3. ASSUME NEW q \in Requests, DeleteRequest(q) \/ RejectRequest(q)
      PROVE  TypeOK'
  BY <1>3 DEF DeleteRequest, RejectRequest, CloseRequest, TypeOK, RequestRow
<1>4. ASSUME NEW q \in Requests, ReverseRequest(q)
      PROVE  TypeOK'
  <2>1. request' \in [Requests -> RequestRow]
    <3>1. request' = [request EXCEPT ![q] = [request[q] EXCEPT !.status = "PENDING",
                                                               !.match = None]]
      BY <1>4 DEF ReverseRequest, TypeOK
    <3>2. [request[q] EXCEPT !.status = "PENDING", !.match = None] \in RequestRow
      BY DEF TypeOK, RequestRow
    <3>3. QED
      BY <3>1, <3>2 DEF TypeOK
  <2>2. TakeBack(request[q].receipt, {request[q].match})
    BY <1>4 DEF ReverseRequest
  <2>3. request[q].match \in MatchedOn(request[q].receipt)
    BY <2>2 DEF TakeBack
  <2>4. /\ request[q].match \in Matches
        /\ match[request[q].match].receipt = request[q].receipt
    BY <2>3 DEF MatchedOn
  <2>5. {request[q].match} \in SUBSET Matches
    BY <2>4
  <2>6. QED
    BY <2>1, <2>2, <2>5, TakeBackType
<1>5. ASSUME NEW q \in Requests, NEW m \in Matches, ApproveRequest(q, m)
      PROVE  TypeOK'
  <2> DEFINE r == request[q].receipt
             f == request[q].fee
             a == request[q].amount
             posted == PostedReceipt(receipt[r], a)
  <2>1. /\ r \in Receipts \cup {None} /\ f \in Fees \cup {None} /\ a \in Nat /\ -a \in Int
    BY DEF TypeOK, RequestRow
  <2>2. /\ match' = [match EXCEPT ![m] =
                        [status |-> "LIVE", receipt |-> r, fee |-> f, amount |-> a]]
        /\ fee' = [fee EXCEPT ![f] = PostedFee(fee[f], a)]
        /\ request' = [request EXCEPT ![q] = [request[q] EXCEPT !.status = "APPROVED",
                                                               !.match = m]]
        /\ receipt' = [receipt EXCEPT ![r] = posted]
        /\ account' = Adjusted(receipt[r].account, -a)
        /\ ledger' = [ledger EXCEPT ![r].balance = posted.balance]
        /\ UNCHANGED <<customer, payment, inFlight>>
    BY <1>5 DEF ApproveRequest, TypeOK
  <2>3. r \in Receipts => posted \in ReceiptRow /\ posted.balance \in Int
    BY <2>1, ReceiptPostingTypes DEF TypeOK, ReceiptRow
  <2>4. f \in Fees => PostedFee(fee[f], a) \in FeeRow
    BY <2>1, FeePostingTypes DEF TypeOK
  <2>5. [request[q] EXCEPT !.status = "APPROVED", !.match = m] \in RequestRow
    BY DEF TypeOK, RequestRow
  <2> HIDE DEF r, f, a, posted
  <2>6. match' \in [Matches -> MatchRow]
    BY <2>1, <2>2 DEF TypeOK, MatchRow
  <2>7. fee' \in [Fees -> FeeRow]
    BY <2>2, <2>4 DEF TypeOK
  <2>8. request' \in [Requests -> RequestRow]
    BY <2>2, <2>5 DEF TypeOK
  <2>9. receipt' \in [Receipts -> ReceiptRow]
    BY <2>2, <2>3 DEF TypeOK
  <2>10. ledger' \in [Receipts -> LedgerRow]
    <3>1. CASE r \in Receipts
      BY <2>2, <2>3, <3>1 DEF TypeOK, LedgerRow
    <3>2. CASE r \notin Receipts
      BY <2>2, <3>2 DEF TypeOK
    <3>3. QED
      BY <3>1, <3>2
  <2>11. account' \in [Accounts -> AccountRow]
    <3>1. account' = account
            \/ account' = [account EXCEPT ![receipt[r].account].balance = @ + (-a)]
      BY <2>2 DEF Adjusted
    <3>2. account \in [Accounts -> AccountRow]
      BY DEF TypeOK
    <3>3. [account EXCEPT ![receipt[r].account].balance = @ + (-a)] \in [Accounts -> AccountRow]
      BY <2>1, AccountMovesType
    <3>4. QED
      BY <3>1, <3>2, <3>3
  <2>12. QED
    BY <2>2, <2>6, <2>7, <2>8, <2>9, <2>10, <2>11 DEF TypeOK
<1>6. ASSUME NEW r \in Receipts, NEW ms \in SUBSET MatchedOn(r), Unmatch(r, ms)
      PROVE  TypeOK'
  <2>1. ms \in SUBSET Matches
    BY DEF MatchedOn
  <2>2. QED
    BY <1>6, <2>1, TakeBackType DEF Unmatch, TypeOK
<1>7. QED
  BY <1>1, <1>2, <1>3, <1>4, <1>5, <1>6 DEF MatchStep

\* Whatever calls the users make, every row keeps its columns in the domains
\* of the schema (WaterReceipt to CustomerAccount in schema.prisma): every
\* status is one the code knows, every reference is to a row or empty.
THEOREM TypeCorrect == Spec => []TypeOK
<1>1. Init => TypeOK
  BY InitType
<1>2. TypeOK /\ [Next]_vars => TypeOK'
  <2>1. CASE Next
    BY <2>1, ReceiptStepType, MatchStepType, FeeStepType, ShipmentStepType DEF Next
  <2>2. CASE UNCHANGED vars
    BY <2>2 DEF TypeOK, vars
  <2>3. QED
    BY <2>1, <2>2
<1>3. QED
  BY <1>1, <1>2, PTL DEF Spec
=============================================================================
