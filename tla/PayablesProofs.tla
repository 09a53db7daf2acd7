--------------------------- MODULE PayablesProofs ---------------------------
(***************************************************************************)
(* Theorems about Payables, for every set of payables, applications,       *)
(* amounts and calls.                                                      *)
(***************************************************************************)
EXTENDS Payables, TLAPS

-----------------------------------------------------------------------------
(* Types.                                                                  *)

LEMMA NewTypes ==
    /\ SomeAmount \in Amounts
    /\ \A n \in Amounts, s \in {"PENDING", "CONFIRMED", "LOCKED", "VOIDED"} : NewPayable(n, s) \in Payable
    /\ Idle \in Call
    /\ NoItem \in Item
<1>1. SomeAmount \in Amounts
  BY ConstantsOK DEF ConstantsOK, SomeAmount
<1>2. ASSUME NEW n \in Amounts, NEW s \in {"PENDING", "CONFIRMED", "LOCKED", "VOIDED"}
      PROVE  NewPayable(n, s) \in Payable
  BY DEF NewPayable, Payable
<1>3. Idle \in Call
  BY <1>1 DEF Idle, Call
<1>4. NoItem \in Item
  BY <1>1 DEF NoItem, Item
<1>5. QED
  BY <1>1, <1>2, <1>3, <1>4

LEMMA TypeInit == Init => TypeOK
<1> SUFFICES ASSUME Init PROVE TypeOK
  OBVIOUS
<1>1. payable \in [Payables -> Payable] /\ pending \in [Payables -> PendingRow]
  BY NewTypes DEF Init, Payable, PendingRow
<1>2. item \in [Payables -> Item] /\ call \in [Calls -> Call]
  BY NewTypes DEF Init
<1>3. /\ application \in [Applications -> {"ABSENT", "WAITING_PAYMENT", "PAID", "CANCELED"}]
      /\ vouchers \in [Payables \cup Applications -> 0..MaxVouchers] /\ settled \in SUBSET Payables
  BY ConstantsOK DEF Init, ConstantsOK
<1>4. QED
  BY <1>1, <1>2, <1>3 DEF TypeOK

LEMMA UpsertType ==
    ASSUME TypeOK, NEW p \in Payables, NEW n \in Amounts, Upsert(p, n)
    PROVE  pending' \in [Payables -> PendingRow]
  BY DEF TypeOK, Upsert, PendingRow

LEMMA EntryTypes ==
    ASSUME TypeOK, NEW p \in Payables, NEW n \in Amounts
    PROVE  /\ \A s \in {"PENDING", "CONFIRMED", "LOCKED"} :
                 /\ [payable EXCEPT ![p] = NewPayable(n, s)] \in [Payables -> Payable]
                 /\ [payable EXCEPT ![p].amount = n, ![p].audit = s] \in [Payables -> Payable]
           /\ [payable EXCEPT ![p].amount = n] \in [Payables -> Payable]
           /\ Absent(p) \in [Payables -> Payable]
<1>1. \A s \in {"PENDING", "CONFIRMED", "LOCKED"} :
          [payable[p] EXCEPT !.amount = n, !.audit = s] \in Payable
  BY DEF TypeOK, Payable
<1>2. [payable[p] EXCEPT !.amount = n] \in Payable
  BY DEF TypeOK, Payable
<1>3. [NewPayable(SomeAmount, "PENDING") EXCEPT !.status = "ABSENT"] \in Payable
  BY NewTypes DEF Payable
<1>4. \A s \in {"PENDING", "CONFIRMED", "LOCKED"} : NewPayable(n, s) \in Payable
  BY NewTypes
<1>5. QED
  BY <1>1, <1>2, <1>3, <1>4 DEF TypeOK, Absent

LEMMA CallTypes ==
    ASSUME TypeOK, NEW c \in Calls, NEW p \in Payables
    PROVE  /\ [call EXCEPT ![c] = Idle] \in [Calls -> Call]
           /\ [call EXCEPT ![c] = [Idle EXCEPT !.at = "to delete", !.rows = {p}]] \in [Calls -> Call]
<1>1. [Idle EXCEPT !.at = "to delete", !.rows = {p}] \in Call
  BY NewTypes DEF Call
<1>2. QED
  BY <1>1, NewTypes DEF TypeOK

LEMMA RowLaterType ==
    ASSUME TypeOK, NEW c \in Calls, NEW p \in Payables, NEW n \in Amounts, NEW e \in BOOLEAN,
           RowLater(c, p, n, e)
    PROVE  call' \in [Calls -> Call]
<1>1. CASE e
  <2> DEFINE amounts == [Idle.amounts EXCEPT ![p] = n]
  <2>1. amounts \in [Payables -> Amounts]
    BY NewTypes DEF Call
  <2>2. [Idle EXCEPT !.at = "row to write", !.rows = {p}, !.amounts = amounts] \in Call
    BY <2>1, NewTypes DEF Call
  <2>3. call' = [call EXCEPT ![c] = [Idle EXCEPT !.at = "row to write", !.rows = {p}, !.amounts = amounts]]
    BY <1>1 DEF RowLater
  <2>4. QED
    BY <2>2, <2>3 DEF TypeOK
<1>2. CASE ~ e
  BY <1>2 DEF RowLater, TypeOK
<1>3. QED
  BY <1>1, <1>2

LEMMA TypeStepEnter ==
    ASSUME TypeOK, EnterPayables
    PROVE  TypeOK'
<1> USE DEF rows
<1>1. ASSUME NEW p \in Payables, NEW n \in Amounts, NEW e \in Early(p), CreatePayableAudit(p, n, e)
      PROVE  TypeOK'
  BY <1>1, UpsertType, EntryTypes DEF CreatePayableAudit, TypeOK, Early
<1>2. ASSUME NEW p \in Payables, NEW n \in Amounts, NEW e \in Early(p), UpdatePayableAudit(p, n, e)
      PROVE  TypeOK'
  BY <1>2, UpsertType, EntryTypes DEF UpdatePayableAudit, TypeOK, Early
<1>3. ASSUME NEW p \in Payables, NEW n \in Amounts, NEW e \in Early(p), NEW c \in Calls, NEW s,
             CreateShipmentFinanceItem(c, p, n, e, s)
      PROVE  TypeOK'
  <2>1. call' \in [Calls -> Call]
    BY <1>3, RowLaterType DEF CreateShipmentFinanceItem, Early
  <2>2. payable' \in [Payables -> Payable]
    BY <1>3, EntryTypes, ConstantsOK DEF CreateShipmentFinanceItem, ConstantsOK
  <2>3. QED
    BY <1>3, <2>1, <2>2 DEF CreateShipmentFinanceItem, TypeOK
<1>4. ASSUME NEW p \in Payables, NEW n \in Amounts, NEW e \in Early(p), NEW c \in Calls, NEW s,
             UpdateShipmentFinanceItem(c, p, n, e, s)
      PROVE  TypeOK'
  <2>1. s \in {"PENDING", "CONFIRMED", "LOCKED", "VOIDED"}
    BY <1>4, ConstantsOK DEF UpdateShipmentFinanceItem, TypeOK, Payable, ConstantsOK
  <2>2. [payable EXCEPT ![p].amount = n, ![p].audit = s] \in [Payables -> Payable]
    <3>1. [payable EXCEPT ![p].amount = n] \in [Payables -> Payable]
      BY DEF TypeOK, Payable
    <3>2. \A f \in [Payables -> Payable] : [f EXCEPT ![p].audit = s] \in [Payables -> Payable]
      BY <2>1 DEF Payable
    <3>3. QED
      BY <3>1, <3>2
  <2>3. call' \in [Calls -> Call]
    BY <1>4, RowLaterType DEF UpdateShipmentFinanceItem, Early
  <2>4. QED
    BY <1>4, <2>2, <2>3 DEF UpdateShipmentFinanceItem, TypeOK
<1>5. ASSUME NEW New \in SUBSET Payables, NEW n \in Amounts, ReenterOrder(New, n)
      PROVE  TypeOK'
  <2>1. NewPayable(n, "PENDING") \in Payable
    BY NewTypes
  <2>2. \A p \in Payables : [payable[p] EXCEPT !.status = "VOIDED", !.audit = "VOIDED"] \in Payable
    BY DEF TypeOK, Payable
  <2>3. payable' \in [Payables -> Payable]
    BY <1>5, <2>1, <2>2 DEF ReenterOrder, TypeOK
  <2>4. QED
    BY <1>5, <2>3 DEF ReenterOrder, TypeOK
<1>6. ASSUME NEW New \in SUBSET Payables, NEW n \in Amounts, ReplaceShipmentAgent(New, n)
      PROVE  TypeOK'
  <2>1. NewPayable(n, "PENDING") \in Payable
    BY NewTypes
  <2>2. \A p \in Payables : /\ [payable[p] EXCEPT !.status = "VOIDED"] \in Payable
                            /\ [payable[p] EXCEPT !.amount = n] \in Payable
    BY DEF TypeOK, Payable
  <2>3. payable' \in [Payables -> Payable]
    BY <1>6, <2>1, <2>2 DEF ReplaceShipmentAgent, TypeOK
  <2>4. QED
    BY <1>6, <2>3 DEF ReplaceShipmentAgent, TypeOK
<1>7. ASSUME NEW S \in SUBSET Payables, NEW n \in Amounts, UpdateServiceData(S, n)
      PROVE  TypeOK'
  <2>1. payable' \in [Payables -> Payable]
    BY <1>7 DEF UpdateServiceData, TypeOK, Payable
  <2>2. QED
    BY <1>7, <2>1 DEF UpdateServiceData, TypeOK
<1>8. ASSUME NEW p \in Payables, DeleteShipmentFinanceItem(p)
      PROVE  TypeOK'
  BY <1>8, EntryTypes, NewTypes DEF DeleteShipmentFinanceItem, TypeOK
<1>9. ASSUME NEW p \in Payables, LockShipmentFinanceItem(p) \/ UnlockShipmentFinanceItem(p)
      PROVE  TypeOK'
  <2>1. payable' \in [Payables -> Payable]
    BY <1>9 DEF LockShipmentFinanceItem, UnlockShipmentFinanceItem, TypeOK, Payable
  <2>2. QED
    BY <1>9, <2>1 DEF LockShipmentFinanceItem, UnlockShipmentFinanceItem, TypeOK
<1>10. ASSUME NEW p \in Payables, NEW c \in Calls, CheckDelete(c, p)
       PROVE  TypeOK'
  BY <1>10, CallTypes, NewTypes DEF CheckDelete, TypeOK
<1>11. ASSUME NEW p \in Payables, NEW c \in Calls, DeletePayableAudit(c, p)
       PROVE  TypeOK'
  BY <1>11, CallTypes, EntryTypes, NewTypes DEF DeletePayableAudit, TypeOK
<1>12. ASSUME NEW p \in Payables, NEW c \in Calls, WriteRowLater(c, p)
       PROVE  TypeOK'
  <2>1. call[c].amounts[p] \in Amounts
    BY DEF TypeOK, Call
  <2>2. QED
    BY <1>12, <2>1, CallTypes, UpsertType, NewTypes DEF WriteRowLater, TypeOK
<1>13. QED
  BY <1>1, <1>2, <1>3, <1>4, <1>5, <1>6, <1>7, <1>8, <1>9, <1>10, <1>11, <1>12 DEF EnterPayables

LEMMA RowTypes ==
    ASSUME TypeOK, NEW p \in Payables,
           NEW s \in {"ABSENT", "PENDING", "READY", "APPLIED", "PAID", "INVALIDATED"}
    PROVE  /\ [pending[p] EXCEPT !.status = s] \in PendingRow
           /\ [pending[p] EXCEPT !.status = s, !.bank = TRUE] \in PendingRow
           /\ [pending EXCEPT ![p].status = s] \in [Payables -> PendingRow]
           /\ [payable[p] EXCEPT !.locked = TRUE] \in Payable
<1>1. pending[p] \in PendingRow /\ payable[p] \in Payable
  BY DEF TypeOK
<1>2. \A r \in PendingRow : /\ [r EXCEPT !.status = s] \in PendingRow
                            /\ [r EXCEPT !.status = s, !.bank = TRUE] \in PendingRow
  BY DEF PendingRow
<1>3. [payable[p] EXCEPT !.locked = TRUE] \in Payable
  BY <1>1 DEF Payable
<1>4. [pending EXCEPT ![p].status = s] \in [Payables -> PendingRow]
  BY <1>2 DEF TypeOK
<1>5. QED
  BY <1>1, <1>2, <1>3, <1>4

LEMMA TypeStepAudit ==
    ASSUME TypeOK, AuditPayables
    PROVE  TypeOK'
<1>1. ASSUME NEW p \in Payables, AuditPayable(p)
      PROVE  TypeOK'
  <2>1. payable' \in [Payables -> Payable]
    BY <1>1 DEF AuditPayable, TypeOK, Payable
  <2>2. payable[p].amount \in Amounts
    BY DEF TypeOK, Payable
  <2>3. QED
    BY <1>1, <2>1, <2>2, UpsertType DEF AuditPayable, TypeOK
<1>2. ASSUME NEW p \in Payables, ReverseAuditPayable(p)
      PROVE  TypeOK'
  <2>1. payable' \in [Payables -> Payable]
    BY <1>2 DEF ReverseAuditPayable, TypeOK, Payable
  <2>2. pending' \in [Payables -> PendingRow]
    BY <1>2 DEF ReverseAuditPayable, TypeOK, PendingRow
  <2>3. QED
    BY <1>2, <2>1, <2>2 DEF ReverseAuditPayable, TypeOK
<1>3. QED
  BY <1>1, <1>2 DEF AuditPayables

LEMMA TypeStepVouch ==
    ASSUME TypeOK, Vouch
    PROVE  TypeOK'
<1>1. ASSUME NEW x \in Payables \cup Applications
      PROVE  /\ vouchers[x] < MaxVouchers =>
                   [vouchers EXCEPT ![x] = @ + 1] \in [Payables \cup Applications -> 0..MaxVouchers]
             /\ vouchers[x] > 0 =>
                   [vouchers EXCEPT ![x] = @ - 1] \in [Payables \cup Applications -> 0..MaxVouchers]
  <2>1. vouchers[x] \in 0..MaxVouchers /\ MaxVouchers \in Nat
    BY ConstantsOK DEF TypeOK, ConstantsOK
  <2>2. vouchers[x] < MaxVouchers => vouchers[x] + 1 \in 0..MaxVouchers
    BY <2>1
  <2>3. vouchers[x] > 0 => vouchers[x] - 1 \in 0..MaxVouchers
    BY <2>1
  <2>4. QED
    BY <2>2, <2>3 DEF TypeOK
<1>2. ASSUME NEW p \in Payables, AddRowVoucher(p)
      PROVE  TypeOK'
  BY <1>1, <1>2, RowTypes DEF AddRowVoucher, TypeOK
<1>3. ASSUME NEW p \in Payables, DeleteRowVoucher(p)
      PROVE  TypeOK'
  BY <1>1, <1>3, RowTypes DEF DeleteRowVoucher, TypeOK
<1>4. ASSUME NEW a \in Applications, AddApplicationVoucher(a)
      PROVE  TypeOK'
  BY <1>1, <1>4 DEF AddApplicationVoucher, TypeOK
<1>5. QED
  BY <1>2, <1>3, <1>4 DEF Vouch

LEMMA TypeStepApply ==
    ASSUME TypeOK, Apply
    PROVE  TypeOK'
<1> USE DEF rows
<1>1. ASSUME NEW c \in Calls, NEW S \in SUBSET Payables, NEW v \in BOOLEAN, CheckRows(c, S, v)
      PROVE  TypeOK'
  <2>1. [Idle EXCEPT !.at = "rows checked", !.rows = S, !.voucher = v] \in Call
    BY NewTypes DEF Call
  <2>2. QED
    BY <1>1, <2>1 DEF CheckRows, TypeOK
<1>2. ASSUME NEW c \in Calls, ReadRows(c)
      PROVE  TypeOK'
  <2> DEFINE amounts == [p \in Payables |-> IF p \in call[c].rows THEN pending[p].amount ELSE SomeAmount]
  <2>1. amounts \in [Payables -> Amounts]
    BY NewTypes DEF TypeOK, PendingRow
  <2>2. [call[c] EXCEPT !.at = "rows read", !.amounts = amounts] \in Call
    BY <2>1 DEF TypeOK, Call
  <2>3. \/ call' = [call EXCEPT ![c] = [call[c] EXCEPT !.at = "rows read", !.amounts = amounts]]
        \/ call' = [call EXCEPT ![c] = Idle]
    BY <1>2 DEF ReadRows, TypeOK
  <2>4. call' \in [Calls -> Call]
    BY <2>2, <2>3, NewTypes DEF TypeOK
  <2>5. QED
    BY <1>2, <2>4 DEF ReadRows, TypeOK
<1>3. ASSUME NEW c \in Calls, NEW a \in Applications, ApplyRows(c, a)
      PROVE  TypeOK'
  <2>1. \A p \in Payables : [application |-> a, amount |-> call[c].amounts[p]] \in Item
    BY DEF TypeOK, Call, Item
  <2>2. item' \in [Payables -> Item]
    BY <1>3, <2>1 DEF ApplyRows, TypeOK
  <2>3. pending' \in [Payables -> PendingRow]
    BY <1>3, RowTypes DEF ApplyRows, TypeOK
  <2>4. call' \in [Calls -> Call]
    BY <1>3, NewTypes DEF ApplyRows, TypeOK
  <2>5. application' \in [Applications -> {"ABSENT", "WAITING_PAYMENT", "PAID", "CANCELED"}]
    BY <1>3 DEF ApplyRows, TypeOK
  <2>6. vouchers' \in [Payables \cup Applications -> 0..MaxVouchers]
    <3>1. (IF call[c].voucher THEN 1 ELSE 0) \in 0..MaxVouchers
      BY ConstantsOK DEF ConstantsOK
    <3>2. QED
      BY <1>3, <3>1 DEF ApplyRows, TypeOK
  <2>7. QED
    BY <1>3, <2>2, <2>3, <2>4, <2>5, <2>6 DEF ApplyRows, TypeOK
<1>4. ASSUME NEW c \in Calls, Abandon(c)
      PROVE  TypeOK'
  BY <1>4, NewTypes DEF Abandon, TypeOK
<1>5. QED
  BY <1>1, <1>2, <1>3, <1>4 DEF Apply

LEMMA TypeStepPay ==
    ASSUME TypeOK, Pay
    PROVE  TypeOK'
<1>1. ASSUME NEW a \in Applications, CancelPaymentApplication(a)
      PROVE  TypeOK'
  <2>1. pending' \in [Payables -> PendingRow] /\ item' \in [Payables -> Item]
    BY <1>1, RowTypes, NewTypes DEF CancelPaymentApplication, TypeOK
  <2>2. application' \in [Applications -> {"ABSENT", "WAITING_PAYMENT", "PAID", "CANCELED"}]
    BY <1>1 DEF CancelPaymentApplication, TypeOK
  <2>3. QED
    BY <1>1, <2>1, <2>2 DEF CancelPaymentApplication, TypeOK
<1>2. ASSUME NEW a \in Applications, ConfirmPaid(a)
      PROVE  TypeOK'
  <2>1. pending' \in [Payables -> PendingRow] /\ payable' \in [Payables -> Payable]
    BY <1>2, RowTypes DEF ConfirmPaid, TypeOK
  <2>2. application' \in [Applications -> {"ABSENT", "WAITING_PAYMENT", "PAID", "CANCELED"}]
    BY <1>2 DEF ConfirmPaid, TypeOK
  <2>3. QED
    BY <1>2, <2>1, <2>2 DEF ConfirmPaid, TypeOK
<1>3. ASSUME NEW a \in Applications, ReversePaid(a)
      PROVE  TypeOK'
  <2>1. pending' \in [Payables -> PendingRow]
    BY <1>3, RowTypes DEF ReversePaid, TypeOK
  <2>2. application' \in [Applications -> {"ABSENT", "WAITING_PAYMENT", "PAID", "CANCELED"}]
    BY <1>3 DEF ReversePaid, TypeOK
  <2>3. QED
    BY <1>3, <2>1, <2>2 DEF ReversePaid, TypeOK
<1>4. QED
  BY <1>1, <1>2, <1>3 DEF Pay

LEMMA TypeStepSettle ==
    ASSUME TypeOK, Settle
    PROVE  TypeOK'
  BY DEF TypeOK, Settle, SettleProfit, ReleaseProfit, rows

LEMMA TypeStep ==
    ASSUME TypeOK, [Next]_vars
    PROVE  TypeOK'
<1>1. CASE Next
  BY <1>1, TypeStepEnter, TypeStepAudit, TypeStepVouch, TypeStepApply, TypeStepPay, TypeStepSettle DEF Next
<1>2. CASE UNCHANGED vars
  BY <1>2 DEF vars, rows, TypeOK
<1>3. QED
  BY <1>1, <1>2

\* Rows, items, vouchers and calls keep their types.
THEOREM TypeCorrect == Spec => []TypeOK
<1>1. TypeOK /\ [Next]_vars => TypeOK'
  BY TypeStep
<1>2. QED
  BY TypeInit, <1>1, PTL DEF Spec

-----------------------------------------------------------------------------
(* The inductive invariant.                                                *)

\* An audit that stands holds its payable, and the row it made.
ReviewedStands ==
    \A p \in Payables : payable[p].reviewed =>
        Live(p) /\ payable[p].audit = "CONFIRMED" /\ payable[p].locked /\ HasRow(p)

\* One call at a time has read rows under the lock.
OneReader ==
    \A c, d \in Calls : call[c].at = "rows read" /\ call[d].at = "rows read" => c = d

\* An ordinary row it has read is still as it was read.
AsRead(c, p) ==
    /\ ~ InApplication(p)
    /\ p \in Ordinary => /\ pending[p].status \in {"PENDING", "READY"}
                         /\ call[c].amounts[p] = pending[p].amount

RowsAsRead ==
    \A c \in Calls : call[c].at = "rows read" => \A p \in call[c].rows : AsRead(c, p)

SomeRows ==
    \A c \in Calls : call[c].at \in {"rows checked", "rows read"} => call[c].rows # {}

LateRowsEarly ==
    \A c \in Calls : call[c].at = "row to write" => call[c].rows \subseteq MayBeEarly

CallsAgree == OneReader /\ RowsAsRead /\ SomeRows /\ LateRowsEarly

Books ==
    /\ RowsFollowApplications
    /\ AppliedAsAudited
    /\ OrdinaryExposedWhenAudited
    /\ SettledStayAudited
    /\ ReviewedStands

IInv == TypeOK /\ Books /\ CallsAgree

LEMMA BooksInit == Init => Books /\ CallsAgree
<1> SUFFICES ASSUME Init PROVE Books /\ CallsAgree
  OBVIOUS
<1>1. \A p \in Payables : /\ ~ InApplication(p)
                          /\ pending[p].status = "ABSENT"
                          /\ ~ payable[p].reviewed
  BY DEF Init, NoItem, InApplication
<1>2. \A c \in Calls : call[c].at = "idle"
  BY DEF Init, Idle
<1>3. RowsFollowApplications /\ ReviewedStands
  BY <1>1 DEF RowsFollowApplications, ReviewedStands
<1>4. AppliedAsAudited /\ OrdinaryExposedWhenAudited
  BY <1>1 DEF AppliedAsAudited, OrdinaryExposedWhenAudited, Ordinary
<1>5. SettledStayAudited
  BY DEF Init, SettledStayAudited
<1>6. CallsAgree
  BY <1>2 DEF CallsAgree, OneReader, RowsAsRead, SomeRows, LateRowsEarly
<1>7. QED
  BY <1>3, <1>4, <1>5, <1>6 DEF Books

\* A step that leaves reviewed payables and ordinary rows alone, and at most
\* makes the row of an early payable anew, keeps the books ...
LEMMA EntryKeepsBooks ==
    ASSUME TypeOK, TypeOK', Books, UNCHANGED <<application, item, settled>>,
           \A p \in Payables : payable[p].reviewed => payable'[p] = payable[p],
           \A p \in Payables : ~ payable[p].reviewed => ~ payable'[p].reviewed,
           \A p \in Ordinary : pending'[p] = pending[p],
           \A p \in Payables : pending'[p] = pending[p] \/ pending'[p].status = "PENDING"
    PROVE  Books'
<1>1. RowsFollowApplications'
  BY DEF Books, RowsFollowApplications, InApplication
<1>2. OrdinaryExposedWhenAudited'
  BY DEF Books, OrdinaryExposedWhenAudited, Live, Ordinary, TypeOK, Payable
<1>3. AppliedAsAudited'
  <2> SUFFICES ASSUME NEW p \in Ordinary, InApplication(p)
               PROVE  /\ pending[p].status = (IF application[item[p].application] = "PAID" THEN "PAID" ELSE "APPLIED")
                      /\ payable[p].reviewed
                      /\ item[p].amount = pending[p].amount /\ item[p].amount = payable[p].amount
                      /\ Live(p) /\ payable[p].audit = "CONFIRMED" /\ payable[p].locked
    BY DEF AppliedAsAudited, Ordinary, InApplication, Live
  <2>1. pending[p].status = (IF application[item[p].application] = "PAID" THEN "PAID" ELSE "APPLIED")
    BY DEF Books, AppliedAsAudited
  <2>2. payable[p].reviewed
    BY <2>1 DEF Books, OrdinaryExposedWhenAudited, Ordinary
  <2>3. QED
    BY <2>1, <2>2 DEF Books, AppliedAsAudited
<1>4. SettledStayAudited'
  BY DEF Books, SettledStayAudited, Live, TypeOK
<1>5. ReviewedStands'
  BY DEF Books, ReviewedStands, Live, HasRow
<1>6. QED
  BY <1>1, <1>2, <1>3, <1>4, <1>5 DEF Books

\* ... and one that starts no payment call keeps the calls in agreement.
LEMMA EntryKeepsCalls ==
    ASSUME TypeOK, CallsAgree, UNCHANGED item,
           \A p \in Ordinary : pending'[p] = pending[p],
           \A c \in Calls : \/ call'[c] = call[c]
                            \/ call'[c].at \in {"idle", "to delete"}
                            \/ call'[c].at = "row to write" /\ call'[c].rows \subseteq MayBeEarly
    PROVE  CallsAgree'
<1>1. \A c \in Calls : call'[c].at \in {"rows checked", "rows read"} => call'[c] = call[c]
  OBVIOUS
<1>2. OneReader'
  BY <1>1 DEF CallsAgree, OneReader
<1>3. RowsAsRead'
  <2> SUFFICES ASSUME NEW c \in Calls, call'[c].at = "rows read", NEW p \in call'[c].rows
               PROVE  AsRead(c, p)'
    BY DEF RowsAsRead
  <2>1. call'[c] = call[c]
    BY <1>1
  <2>2. AsRead(c, p)
    BY <2>1 DEF CallsAgree, RowsAsRead
  <2>3. QED
    BY <2>1, <2>2 DEF AsRead, InApplication
<1>4. SomeRows'
  BY <1>1 DEF CallsAgree, SomeRows
<1>5. LateRowsEarly'
  BY DEF CallsAgree, LateRowsEarly
<1>6. QED
  BY <1>2, <1>3, <1>4, <1>5 DEF CallsAgree

LEMMA NewNotReviewed ==
    \A n, s : ~ NewPayable(n, s).reviewed
  BY DEF NewPayable

LEMMA AbsentKeeps ==
    ASSUME TypeOK, Books, NEW p \in Payables, ~ HasRow(p), payable' = Absent(p)
    PROVE  /\ \A q \in Payables : payable[q].reviewed => payable'[q] = payable[q]
           /\ \A q \in Payables : ~ payable[q].reviewed => ~ payable'[q].reviewed
<1>1. ~ payable[p].reviewed
  BY DEF Books, ReviewedStands
<1>2. QED
  BY <1>1 DEF Absent, NewPayable, TypeOK

LEMMA RowLaterKeeps ==
    ASSUME TypeOK, NEW c \in Calls, NEW p \in Payables, NEW n \in Amounts, NEW e \in Early(p), RowLater(c, p, n, e)
    PROVE  \A d \in Calls : \/ call'[d] = call[d]
                            \/ call'[d].at \in {"idle", "to delete"}
                            \/ call'[d].at = "row to write" /\ call'[d].rows \subseteq MayBeEarly
<1>1. CASE e
  <2>1. p \in MayBeEarly
    BY <1>1 DEF Early
  <2>2. /\ call'[c].at = "row to write" /\ call'[c].rows = {p}
        /\ \A d \in Calls \ {c} : call'[d] = call[d]
    BY <1>1 DEF RowLater, Idle, TypeOK
  <2>3. QED
    BY <2>1, <2>2
<1>2. CASE ~ e
  BY <1>2 DEF RowLater
<1>3. QED
  BY <1>1, <1>2 DEF Early

LEMMA UpsertEarly ==
    ASSUME TypeOK, NEW p \in MayBeEarly, NEW n, Upsert(p, n)
    PROVE  /\ \A q \in Ordinary : pending'[q] = pending[q]
           /\ \A q \in Payables : pending'[q] = pending[q] \/ pending'[q].status = "PENDING"
  BY DEF TypeOK, Upsert, PendingRow, Ordinary

\* What an audit holds is not entered again.
ReviewedKept ==
    /\ UNCHANGED <<application, item, settled>>
    /\ \A p \in Payables : payable[p].reviewed => payable'[p] = payable[p]

LEMMA EnterStep ==
    ASSUME TypeOK, TypeOK', Books, CallsAgree, EnterPayables
    PROVE  Books' /\ CallsAgree' /\ ReviewedKept
<1> USE DEF rows
<1>1. ASSUME NEW p \in Payables, NEW n \in Amounts, NEW e \in Early(p), CreatePayableAudit(p, n, e)
      PROVE  Books' /\ CallsAgree' /\ ReviewedKept
  <2>1. ~ payable[p].reviewed
    BY <1>1 DEF CreatePayableAudit, Books, ReviewedStands, Live
  <2>2. /\ \A q \in Payables : payable[q].reviewed => payable'[q] = payable[q]
        /\ \A q \in Payables : ~ payable[q].reviewed => ~ payable'[q].reviewed
    BY <1>1, <2>1, NewNotReviewed DEF CreatePayableAudit, TypeOK
  <2>3. /\ \A q \in Ordinary : pending'[q] = pending[q]
        /\ \A q \in Payables : pending'[q] = pending[q] \/ pending'[q].status = "PENDING"
    BY <1>1, UpsertEarly DEF CreatePayableAudit, Early
  <2>4. QED
    BY <1>1, <2>2, <2>3, EntryKeepsBooks, EntryKeepsCalls DEF CreatePayableAudit, ReviewedKept
<1>2. ASSUME NEW p \in Payables, NEW n \in Amounts, NEW e \in Early(p), UpdatePayableAudit(p, n, e)
      PROVE  Books' /\ CallsAgree' /\ ReviewedKept
  <2>1. ~ payable[p].reviewed
    BY <1>2 DEF UpdatePayableAudit, Editable, Books, ReviewedStands
  <2>2. /\ \A q \in Payables : payable[q].reviewed => payable'[q] = payable[q]
        /\ \A q \in Payables : ~ payable[q].reviewed => ~ payable'[q].reviewed
    BY <1>2, <2>1 DEF UpdatePayableAudit, TypeOK, Payable
  <2>3. /\ \A q \in Ordinary : pending'[q] = pending[q]
        /\ \A q \in Payables : pending'[q] = pending[q] \/ pending'[q].status = "PENDING"
    BY <1>2, UpsertEarly DEF UpdatePayableAudit, Early
  <2>4. QED
    BY <1>2, <2>2, <2>3, EntryKeepsBooks, EntryKeepsCalls DEF UpdatePayableAudit, ReviewedKept
<1>3. ASSUME NEW p \in Payables, NEW n \in Amounts, NEW e \in Early(p), NEW c \in Calls, NEW s,
             CreateShipmentFinanceItem(c, p, n, e, s)
      PROVE  Books' /\ CallsAgree' /\ ReviewedKept
  <2>1. ~ payable[p].reviewed
    BY <1>3 DEF CreateShipmentFinanceItem, Books, ReviewedStands, Live
  <2>2. /\ \A q \in Payables : payable[q].reviewed => payable'[q] = payable[q]
        /\ \A q \in Payables : ~ payable[q].reviewed => ~ payable'[q].reviewed
    BY <1>3, <2>1, NewNotReviewed DEF CreateShipmentFinanceItem, TypeOK
  <2>3. Books'
    BY <1>3, <2>2, EntryKeepsBooks DEF CreateShipmentFinanceItem
  <2>4. QED
    BY <1>3, <2>2, <2>3, RowLaterKeeps, EntryKeepsCalls DEF CreateShipmentFinanceItem, ReviewedKept
<1>4. ASSUME NEW p \in Payables, NEW n \in Amounts, NEW e \in Early(p), NEW c \in Calls, NEW s,
             UpdateShipmentFinanceItem(c, p, n, e, s)
      PROVE  Books' /\ CallsAgree' /\ ReviewedKept
  <2>1. ~ payable[p].reviewed
    BY <1>4 DEF UpdateShipmentFinanceItem, Books, ReviewedStands
  <2>2. /\ \A q \in Payables : payable[q].reviewed => payable'[q] = payable[q]
        /\ \A q \in Payables : ~ payable[q].reviewed => ~ payable'[q].reviewed
    BY <1>4, <2>1 DEF UpdateShipmentFinanceItem, TypeOK, Payable
  <2>3. Books'
    BY <1>4, <2>2, EntryKeepsBooks DEF UpdateShipmentFinanceItem
  <2>4. QED
    BY <1>4, <2>2, <2>3, RowLaterKeeps, EntryKeepsCalls DEF UpdateShipmentFinanceItem, ReviewedKept
<1>5. ASSUME NEW New \in SUBSET Payables, NEW n \in Amounts, ReenterOrder(New, n)
      PROVE  Books' /\ CallsAgree' /\ ReviewedKept
  <2>1. \A p \in Payables : payable[p].reviewed => ~ Editable(p) /\ p \notin New
    BY <1>5 DEF ReenterOrder, Editable, Books, ReviewedStands, Live
  <2>2. /\ \A q \in Payables : payable[q].reviewed => payable'[q] = payable[q]
        /\ \A q \in Payables : ~ payable[q].reviewed => ~ payable'[q].reviewed
    <3>1. \A q \in Payables :
             [payable[q] EXCEPT !.status = "VOIDED", !.audit = "VOIDED"].reviewed = payable[q].reviewed
      BY DEF TypeOK, Payable
    <3>2. \A q \in Payables : ~ NewPayable(n, "PENDING").reviewed
      BY NewNotReviewed
    <3>3. QED
      BY <1>5, <2>1, <3>1, <3>2 DEF ReenterOrder
  <2>3. QED
    BY <1>5, <2>2, EntryKeepsBooks, EntryKeepsCalls DEF ReenterOrder, ReviewedKept
<1>6. ASSUME NEW New \in SUBSET Payables, NEW n \in Amounts, ReplaceShipmentAgent(New, n)
      PROVE  Books' /\ CallsAgree' /\ ReviewedKept
  <2>1. \A p \in Payables : ~ payable[p].reviewed
    BY <1>6 DEF ReplaceShipmentAgent, LivePayables, Books, ReviewedStands
  <2>2. \A q \in Payables : ~ payable'[q].reviewed
    BY <1>6, <2>1, NewNotReviewed DEF ReplaceShipmentAgent, TypeOK, Payable
  <2>3. QED
    BY <1>6, <2>1, <2>2, EntryKeepsBooks, EntryKeepsCalls DEF ReplaceShipmentAgent, ReviewedKept
<1>7. ASSUME NEW S \in SUBSET Payables, NEW n \in Amounts, UpdateServiceData(S, n)
      PROVE  Books' /\ CallsAgree' /\ ReviewedKept
  <2>1. \A p \in S : ~ payable[p].reviewed
    BY <1>7 DEF UpdateServiceData, Books, ReviewedStands
  <2>2. /\ \A q \in Payables : payable[q].reviewed => payable'[q] = payable[q]
        /\ \A q \in Payables : ~ payable[q].reviewed => ~ payable'[q].reviewed
    BY <1>7, <2>1 DEF UpdateServiceData, TypeOK, Payable
  <2>3. QED
    BY <1>7, <2>2, EntryKeepsBooks, EntryKeepsCalls DEF UpdateServiceData, ReviewedKept
<1>8. ASSUME NEW p \in Payables, DeleteShipmentFinanceItem(p)
      PROVE  Books' /\ CallsAgree' /\ ReviewedKept
  <2>1. /\ \A q \in Payables : payable[q].reviewed => payable'[q] = payable[q]
        /\ \A q \in Payables : ~ payable[q].reviewed => ~ payable'[q].reviewed
    BY <1>8, AbsentKeeps DEF DeleteShipmentFinanceItem
  <2>2. QED
    BY <1>8, <2>1, EntryKeepsBooks, EntryKeepsCalls DEF DeleteShipmentFinanceItem, ReviewedKept
<1>9. ASSUME NEW p \in Payables, LockShipmentFinanceItem(p) \/ UnlockShipmentFinanceItem(p)
      PROVE  Books' /\ CallsAgree' /\ ReviewedKept
  <2>1. /\ \A q \in Payables : payable[q].reviewed => payable'[q] = payable[q]
        /\ \A q \in Payables : ~ payable[q].reviewed => ~ payable'[q].reviewed
    BY <1>9 DEF LockShipmentFinanceItem, UnlockShipmentFinanceItem, TypeOK, Payable
  <2>2. QED
    BY <1>9, <2>1, EntryKeepsBooks, EntryKeepsCalls DEF LockShipmentFinanceItem, UnlockShipmentFinanceItem, ReviewedKept
<1>10. ASSUME NEW p \in Payables, NEW c \in Calls, CheckDelete(c, p)
       PROVE  Books' /\ CallsAgree' /\ ReviewedKept
  <2>1. \A d \in Calls : call'[d] = call[d] \/ call'[d].at = "to delete"
    BY <1>10 DEF CheckDelete, TypeOK, Idle
  <2>2. QED
    BY <1>10, <2>1, EntryKeepsBooks, EntryKeepsCalls DEF CheckDelete, ReviewedKept
<1>11. ASSUME NEW p \in Payables, NEW c \in Calls, DeletePayableAudit(c, p)
       PROVE  Books' /\ CallsAgree' /\ ReviewedKept
  <2>1. \A d \in Calls : call'[d] = call[d] \/ call'[d].at = "idle"
    BY <1>11 DEF DeletePayableAudit, TypeOK, Idle
  <2>2. /\ \A q \in Payables : payable[q].reviewed => payable'[q] = payable[q]
        /\ \A q \in Payables : ~ payable[q].reviewed => ~ payable'[q].reviewed
    BY <1>11, AbsentKeeps DEF DeletePayableAudit
  <2>3. QED
    BY <1>11, <2>1, <2>2, EntryKeepsBooks, EntryKeepsCalls DEF DeletePayableAudit, ReviewedKept
<1>12. ASSUME NEW p \in Payables, NEW c \in Calls, WriteRowLater(c, p)
       PROVE  Books' /\ CallsAgree' /\ ReviewedKept
  <2>1. \A d \in Calls : call'[d] = call[d] \/ call'[d].at = "idle"
    BY <1>12 DEF WriteRowLater, TypeOK, Idle
  <2>2. p \in MayBeEarly
    BY <1>12 DEF WriteRowLater, CallsAgree, LateRowsEarly
  <2>3. /\ \A q \in Ordinary : pending'[q] = pending[q]
        /\ \A q \in Payables : pending'[q] = pending[q] \/ pending'[q].status = "PENDING"
    BY <1>12, <2>2, UpsertEarly DEF WriteRowLater
  <2>4. QED
    BY <1>12, <2>1, <2>3, EntryKeepsBooks, EntryKeepsCalls DEF WriteRowLater, ReviewedKept
<1>13. QED
  BY <1>1, <1>2, <1>3, <1>4, <1>5, <1>6, <1>7, <1>8, <1>9, <1>10, <1>11, <1>12 DEF EnterPayables

\* Nothing of an ordinary payable is in an application before its audit.
LEMMA OrdinaryApplied ==
    ASSUME Books, NEW p \in Ordinary, InApplication(p)
    PROVE  payable[p].reviewed
<1>1. pending[p].status \in {"APPLIED", "PAID"}
  BY DEF Books, AppliedAsAudited
<1>2. QED
  BY <1>1 DEF Books, OrdinaryExposedWhenAudited

LEMMA AuditStep ==
    ASSUME TypeOK, Books, CallsAgree, NEW p \in Payables, AuditPayable(p)
    PROVE  Books' /\ CallsAgree'
<1>0. Live(p) /\ payable[p].audit = "PENDING" /\ UNCHANGED <<application, item, settled, call>>
  BY DEF AuditPayable
<1>1. ~ payable[p].reviewed
  BY <1>0 DEF Books, ReviewedStands
<1>2. /\ pending'[p].status = "PENDING" /\ pending'[p].amount = payable[p].amount
      /\ \A q \in Payables \ {p} : pending'[q] = pending[q]
  BY DEF AuditPayable, Upsert, TypeOK, PendingRow
<1>3. /\ Live(p)' /\ payable'[p].audit = "CONFIRMED" /\ payable'[p].locked /\ payable'[p].reviewed
      /\ payable'[p].amount = payable[p].amount
      /\ \A q \in Payables \ {p} : payable'[q] = payable[q]
  BY <1>0 DEF AuditPayable, TypeOK, Payable, Live
<1>4. p \in Ordinary => ~ InApplication(p) /\ pending[p].status \notin {"PENDING", "READY"}
  BY <1>1, OrdinaryApplied DEF Books, OrdinaryExposedWhenAudited
<1>5. RowsFollowApplications'
  BY <1>0, <1>2 DEF Books, RowsFollowApplications, InApplication
<1>6. AppliedAsAudited'
  <2> SUFFICES ASSUME NEW q \in Ordinary, InApplication(q)
               PROVE  pending'[q] = pending[q] /\ payable'[q] = payable[q]
    BY <1>0 DEF Books, AppliedAsAudited, InApplication, Live
  <2>1. q # p
    BY <1>4
  <2>2. QED
    BY <1>2, <1>3, <2>1 DEF Ordinary
<1>7. OrdinaryExposedWhenAudited'
  <2> SUFFICES ASSUME NEW q \in Ordinary, q # p
               PROVE  pending'[q] = pending[q] /\ payable'[q] = payable[q]
    BY <1>2, <1>3 DEF Books, OrdinaryExposedWhenAudited, Live
  <2>1. QED
    BY <1>2, <1>3 DEF Ordinary
<1>8. SettledStayAudited'
  BY <1>0, <1>1, <1>3 DEF Books, SettledStayAudited, Live, TypeOK
<1>9. ReviewedStands'
  <2> SUFFICES ASSUME NEW q \in Payables, payable'[q].reviewed, q # p
               PROVE  (Live(q) /\ payable[q].audit = "CONFIRMED" /\ payable[q].locked /\ HasRow(q))'
    BY <1>2, <1>3 DEF ReviewedStands, HasRow
  <2>1. pending'[q] = pending[q] /\ payable'[q] = payable[q]
    BY <1>2, <1>3
  <2>2. QED
    BY <2>1 DEF Books, ReviewedStands, Live, HasRow
<1>10. RowsAsRead'
  <2> SUFFICES ASSUME NEW c \in Calls, call[c].at = "rows read", NEW q \in call[c].rows
               PROVE  AsRead(c, q)'
    BY <1>0 DEF RowsAsRead
  <2>1. AsRead(c, q)
    BY DEF CallsAgree, RowsAsRead
  <2>2. q \in Ordinary => q # p
    BY <2>1, <1>4 DEF AsRead
  <2>3. QED
    BY <1>0, <2>1, <2>2, <1>2 DEF AsRead, InApplication, Ordinary
<1>11. OneReader' /\ SomeRows' /\ LateRowsEarly'
  BY <1>0 DEF CallsAgree, OneReader, SomeRows, LateRowsEarly
<1>12. QED
  BY <1>5, <1>6, <1>7, <1>8, <1>9, <1>10, <1>11 DEF Books, CallsAgree

\* Nobody has read rows while the lock is free.
LEMMA FreeKeepsCalls ==
    ASSUME CallsAgree, LockFree, UNCHANGED call
    PROVE  CallsAgree'
<1>1. OneReader' /\ RowsAsRead'
  BY DEF LockFree, OneReader, RowsAsRead
<1>2. SomeRows' /\ LateRowsEarly'
  BY DEF CallsAgree, SomeRows, LateRowsEarly
<1>3. QED
  BY <1>1, <1>2 DEF CallsAgree

LEMMA ReverseAuditStep ==
    ASSUME TypeOK, Books, CallsAgree, NEW p \in Payables, ReverseAuditPayable(p)
    PROVE  Books' /\ CallsAgree'
<1>0. /\ LockFree /\ p \notin settled
      /\ InApplication(p) => application[item[p].application] \notin {"WAITING_PAYMENT", "PAID"}
      /\ UNCHANGED <<application, item, vouchers, settled, call>>
  BY DEF ReverseAuditPayable
<1>1. ~ InApplication(p)
  BY <1>0 DEF Books, RowsFollowApplications
<1>2. /\ pending'[p].status \in {"ABSENT", "INVALIDATED"}
      /\ \A q \in Payables \ {p} : pending'[q] = pending[q]
  BY DEF ReverseAuditPayable, HasRow, TypeOK, PendingRow
<1>3. /\ ~ payable'[p].reviewed
      /\ \A q \in Payables \ {p} : payable'[q] = payable[q]
  BY DEF ReverseAuditPayable, TypeOK, Payable
<1>4. RowsFollowApplications'
  BY <1>0, <1>2 DEF Books, RowsFollowApplications, InApplication
<1>5. AppliedAsAudited'
  <2> SUFFICES ASSUME NEW q \in Ordinary, InApplication(q)
               PROVE  pending'[q] = pending[q] /\ payable'[q] = payable[q]
    BY <1>0 DEF Books, AppliedAsAudited, InApplication, Live
  <2>1. q # p
    BY <1>1
  <2>2. QED
    BY <1>2, <1>3, <2>1 DEF Ordinary
<1>6. OrdinaryExposedWhenAudited'
  <2> SUFFICES ASSUME NEW q \in Ordinary, q # p
               PROVE  pending'[q] = pending[q] /\ payable'[q] = payable[q]
    BY <1>2, <1>3 DEF Books, OrdinaryExposedWhenAudited, Live
  <2>1. QED
    BY <1>2, <1>3 DEF Ordinary
<1>7. SettledStayAudited'
  BY <1>0, <1>3 DEF Books, SettledStayAudited, Live, TypeOK
<1>8. ReviewedStands'
  BY <1>2, <1>3 DEF Books, ReviewedStands, Live, HasRow
<1>9. QED
  BY <1>0, <1>4, <1>5, <1>6, <1>7, <1>8, FreeKeepsCalls DEF Books

\* Steps that leave payables, items and applications alone.
LEMMA ToggleKeeps ==
    ASSUME TypeOK, Books, CallsAgree, UNCHANGED <<payable, application, item, settled, call>>,
           \A p \in Payables :
               \/ pending'[p] = pending[p]
               \/ /\ pending[p].status \in {"PENDING", "READY"} /\ pending'[p].status \in {"PENDING", "READY"}
                  /\ pending'[p].amount = pending[p].amount
    PROVE  Books' /\ CallsAgree'
<1>1. RowsFollowApplications'
  BY DEF Books, RowsFollowApplications, InApplication
<1>2. AppliedAsAudited'
  <2> SUFFICES ASSUME NEW p \in Ordinary, InApplication(p)
               PROVE  pending'[p] = pending[p]
    BY DEF Books, AppliedAsAudited, InApplication, Live
  <2>1. pending[p].status \in {"APPLIED", "PAID"}
    BY DEF Books, AppliedAsAudited
  <2>2. QED
    BY <2>1 DEF Ordinary
<1>3. OrdinaryExposedWhenAudited'
  BY DEF Books, OrdinaryExposedWhenAudited, Live, Ordinary
<1>4. SettledStayAudited'
  BY DEF Books, SettledStayAudited, Live
<1>5. ReviewedStands'
  BY DEF Books, ReviewedStands, Live, HasRow
<1>6. RowsAsRead'
  <2> SUFFICES ASSUME NEW c \in Calls, call[c].at = "rows read", NEW p \in call[c].rows
               PROVE  AsRead(c, p)'
    BY DEF RowsAsRead
  <2>1. AsRead(c, p)
    BY DEF CallsAgree, RowsAsRead
  <2>2. QED
    BY <2>1 DEF AsRead, InApplication, Ordinary
<1>7. OneReader' /\ SomeRows' /\ LateRowsEarly'
  BY DEF CallsAgree, OneReader, SomeRows, LateRowsEarly
<1>8. QED
  BY <1>1, <1>2, <1>3, <1>4, <1>5, <1>6, <1>7 DEF Books, CallsAgree

LEMMA VouchStep ==
    ASSUME TypeOK, Books, CallsAgree, Vouch
    PROVE  Books' /\ CallsAgree'
<1>1. ASSUME NEW p \in Payables, AddRowVoucher(p)
      PROVE  Books' /\ CallsAgree'
  BY <1>1, ToggleKeeps DEF AddRowVoucher, TypeOK, PendingRow
<1>2. ASSUME NEW p \in Payables, DeleteRowVoucher(p)
      PROVE  Books' /\ CallsAgree'
  <2>1. SummaryStatus(p) = "READY" => pending[p].status = "READY"
    BY DEF SummaryStatus
  <2>2. QED
    BY <1>2, <2>1, ToggleKeeps DEF DeleteRowVoucher, TypeOK, PendingRow
<1>3. ASSUME NEW a \in Applications, AddApplicationVoucher(a)
      PROVE  Books' /\ CallsAgree'
  BY <1>3, ToggleKeeps DEF AddApplicationVoucher
<1>4. QED
  BY <1>1, <1>2, <1>3 DEF Vouch

\* Steps of a call that write nothing.
LEMMA CallKeepsBooks ==
    ASSUME Books, UNCHANGED <<payable, rows, settled>>
    PROVE  Books'
<1>1. RowsFollowApplications' /\ AppliedAsAudited'
  BY DEF Books, rows, RowsFollowApplications, AppliedAsAudited, InApplication, Live
<1>2. OrdinaryExposedWhenAudited' /\ SettledStayAudited' /\ ReviewedStands'
  BY DEF Books, rows, OrdinaryExposedWhenAudited, SettledStayAudited, ReviewedStands, Live, HasRow
<1>3. QED
  BY <1>1, <1>2 DEF Books

LEMMA OthersKeepCalls ==
    ASSUME CallsAgree, NEW c \in Calls, UNCHANGED <<pending, item>>,
           \A d \in Calls \ {c} : call'[d] = call[d],
           \/ call'[c].at = "idle"
           \/ call'[c].at = "rows checked" /\ call'[c].rows # {}
    PROVE  CallsAgree'
<1>1. \A d \in Calls : call'[d].at = "rows read" => call'[d] = call[d]
  OBVIOUS
<1>2. OneReader'
  BY <1>1 DEF CallsAgree, OneReader
<1>3. RowsAsRead'
  <2> SUFFICES ASSUME NEW d \in Calls, call'[d].at = "rows read", NEW p \in call'[d].rows
               PROVE  AsRead(d, p)'
    BY DEF RowsAsRead
  <2>1. call'[d] = call[d]
    BY <1>1
  <2>2. AsRead(d, p)
    BY <2>1 DEF CallsAgree, RowsAsRead
  <2>3. QED
    BY <2>1, <2>2 DEF AsRead, InApplication
<1>4. SomeRows' /\ LateRowsEarly'
  BY DEF CallsAgree, SomeRows, LateRowsEarly
<1>5. QED
  BY <1>2, <1>3, <1>4 DEF CallsAgree

LEMMA ReadStep ==
    ASSUME TypeOK, Books, CallsAgree, NEW c \in Calls, ReadRows(c)
    PROVE  Books' /\ CallsAgree'
<1>0. /\ LockFree /\ call[c].at = "rows checked" /\ UNCHANGED <<payable, rows, settled>>
      /\ UNCHANGED <<pending, item>>
  BY DEF ReadRows, rows
<1>1. Books'
  BY <1>0, CallKeepsBooks
<1>2. CASE \A p \in call[c].rows : pending[p].status \in {"PENDING", "READY"} /\ ~InApplication(p)
  <2>1. /\ call'[c].at = "rows read" /\ call'[c].rows = call[c].rows
        /\ \A p \in call[c].rows : call'[c].amounts[p] = pending[p].amount
        /\ \A d \in Calls \ {c} : call'[d] = call[d]
    BY <1>2 DEF ReadRows, TypeOK, Call
  <2>2. \A d \in Calls : call'[d].at = "rows read" => d = c
    BY <1>0, <2>1 DEF LockFree
  <2>3. RowsAsRead'
    BY <1>0, <1>2, <2>1, <2>2 DEF RowsAsRead, AsRead, InApplication
  <2>4. OneReader'
    BY <2>2 DEF OneReader
  <2>5. SomeRows' /\ LateRowsEarly'
    BY <1>0, <2>1 DEF CallsAgree, SomeRows, LateRowsEarly
  <2>6. QED
    BY <1>1, <2>3, <2>4, <2>5 DEF CallsAgree
<1>3. CASE ~ \A p \in call[c].rows : pending[p].status \in {"PENDING", "READY"} /\ ~InApplication(p)
  <2>1. call'[c].at = "idle" /\ \A d \in Calls \ {c} : call'[d] = call[d]
    BY <1>3 DEF ReadRows, TypeOK, Idle
  <2>2. QED
    BY <1>0, <1>1, <2>1, OthersKeepCalls
<1>4. QED
  BY <1>2, <1>3

LEMMA ApplyRowsStep ==
    ASSUME TypeOK, Books, CallsAgree, NEW c \in Calls, NEW a \in Applications, ApplyRows(c, a)
    PROVE  Books' /\ CallsAgree'
<1> DEFINE R == call[c].rows
<1>0. /\ call[c].at = "rows read" /\ R \subseteq Payables /\ a # None
      /\ application[a] = "ABSENT" /\ UNCHANGED <<payable, settled>>
  BY ConstantsOK DEF ApplyRows, TypeOK, Call, ConstantsOK
<1>1. /\ application'[a] = "WAITING_PAYMENT"
      /\ \A b \in Applications \ {a} : application'[b] = application[b]
  BY DEF ApplyRows, TypeOK
<1>2. \A p \in R : /\ item'[p].application = a /\ item'[p].amount = call[c].amounts[p]
                   /\ pending'[p].status = "APPLIED" /\ pending'[p].amount = pending[p].amount
                   /\ pending[p].status \in {"PENDING", "READY"}
  BY <1>0 DEF ApplyRows, TypeOK, PendingRow
<1>3. \A p \in Payables \ R : item'[p] = item[p] /\ pending'[p] = pending[p]
  BY DEF ApplyRows
<1>4. call'[c].at = "idle" /\ \A d \in Calls \ {c} : call'[d] = call[d] /\ call[d].at # "rows read"
  BY <1>0 DEF ApplyRows, CallsAgree, OneReader, TypeOK, Idle
<1>5. \A p \in Payables : item[p].application # a
  BY <1>0 DEF Books, RowsFollowApplications, InApplication
<1>6. \A p \in R : AsRead(c, p)
  BY <1>0 DEF CallsAgree, RowsAsRead
<1>7. ASSUME NEW p \in Payables \ R, InApplication(p)
      PROVE  application'[item[p].application] = application[item[p].application]
  BY <1>1, <1>5, <1>7 DEF InApplication, TypeOK, Item
<1>8. RowsFollowApplications'
  <2> SUFFICES ASSUME NEW p \in Payables
               PROVE  (/\ pending[p].status = "APPLIED" => InApplication(p) /\ application[item[p].application] = "WAITING_PAYMENT"
                       /\ pending[p].status = "PAID" => InApplication(p) /\ application[item[p].application] = "PAID"
                       /\ InApplication(p) => application[item[p].application] \in {"WAITING_PAYMENT", "PAID"})'
    BY DEF RowsFollowApplications
  <2>1. CASE p \in R
    BY <1>0, <1>1, <1>2, <2>1 DEF InApplication
  <2>2. CASE p \notin R
    <3>1. item'[p] = item[p] /\ pending'[p] = pending[p]
      BY <1>3, <2>2
    <3>2. InApplication(p) => application'[item[p].application] = application[item[p].application]
      BY <1>7, <2>2
    <3>3. QED
      BY <3>1, <3>2 DEF Books, RowsFollowApplications, InApplication
  <2>3. QED
    BY <2>1, <2>2
<1>9. \A p \in R \cap Ordinary : payable[p].reviewed
  BY <1>2 DEF Books, OrdinaryExposedWhenAudited
<1>10. AppliedAsAudited'
  <2> SUFFICES ASSUME NEW p \in Ordinary, InApplication(p)'
               PROVE  (/\ pending[p].status = (IF application[item[p].application] = "PAID" THEN "PAID" ELSE "APPLIED")
                       /\ item[p].amount = pending[p].amount /\ item[p].amount = payable[p].amount
                       /\ Live(p) /\ payable[p].audit = "CONFIRMED" /\ payable[p].locked)'
    BY DEF AppliedAsAudited
  <2>1. CASE p \in R
    <3>1. payable[p].reviewed
      BY <1>9, <2>1
    <3>2. Live(p)' /\ payable'[p].audit = "CONFIRMED" /\ payable'[p].locked /\ pending[p].amount = payable'[p].amount
      BY <1>0, <3>1 DEF Books, OrdinaryExposedWhenAudited, Live
    <3>3. call[c].amounts[p] = pending[p].amount
      BY <1>6, <2>1 DEF AsRead
    <3>4. QED
      BY <1>1, <1>2, <2>1, <3>2, <3>3
  <2>2. CASE p \notin R
    <3>1. p \in Payables /\ item'[p] = item[p] /\ pending'[p] = pending[p] /\ InApplication(p)
      BY <1>3, <2>2 DEF Ordinary, InApplication
    <3>2. application'[item[p].application] = application[item[p].application]
      BY <1>7, <2>2, <3>1
    <3>3. /\ pending[p].status = (IF application[item[p].application] = "PAID" THEN "PAID" ELSE "APPLIED")
          /\ item[p].amount = pending[p].amount /\ item[p].amount = payable[p].amount
          /\ Live(p) /\ payable[p].audit = "CONFIRMED" /\ payable[p].locked
      BY <3>1 DEF Books, AppliedAsAudited
    <3>4. payable' = payable
      BY <1>0
    <3>5. QED
      BY <3>1, <3>2, <3>3, <3>4 DEF Live
  <2>3. QED
    BY <2>1, <2>2
<1>11. OrdinaryExposedWhenAudited'
  <2>1. \A p \in Ordinary : /\ pending'[p].amount = pending[p].amount
                            /\ pending'[p].status \notin {"ABSENT", "INVALIDATED"} <=> pending[p].status \notin {"ABSENT", "INVALIDATED"}
    BY <1>2, <1>3 DEF Ordinary
  <2>2. QED
    BY <1>0, <2>1 DEF Books, OrdinaryExposedWhenAudited, Live
<1>12. SettledStayAudited'
  BY <1>0 DEF Books, SettledStayAudited, Live
<1>13. ReviewedStands'
  <2>1. \A p \in Payables : HasRow(p) => HasRow(p)'
    BY <1>2, <1>3 DEF HasRow
  <2>2. QED
    BY <1>0, <2>1 DEF Books, ReviewedStands, Live
<1>14. OneReader' /\ RowsAsRead'
  BY <1>4 DEF OneReader, RowsAsRead
<1>15. SomeRows' /\ LateRowsEarly'
  BY <1>4 DEF CallsAgree, SomeRows, LateRowsEarly
<1>16. QED
  BY <1>8, <1>10, <1>11, <1>12, <1>13, <1>14, <1>15 DEF Books, CallsAgree

LEMMA ApplyStep ==
    ASSUME TypeOK, Books, CallsAgree, Apply
    PROVE  Books' /\ CallsAgree'
<1>1. ASSUME NEW c \in Calls, NEW S \in SUBSET Payables, NEW v \in BOOLEAN, CheckRows(c, S, v)
      PROVE  Books' /\ CallsAgree'
  <2>1. call'[c].at = "rows checked" /\ call'[c].rows # {} /\ \A d \in Calls \ {c} : call'[d] = call[d]
    BY <1>1 DEF CheckRows, TypeOK, Idle
  <2>2. QED
    BY <1>1, <2>1, CallKeepsBooks, OthersKeepCalls DEF CheckRows, rows
<1>2. ASSUME NEW c \in Calls, Abandon(c)
      PROVE  Books' /\ CallsAgree'
  <2>1. call'[c].at = "idle" /\ \A d \in Calls \ {c} : call'[d] = call[d]
    BY <1>2 DEF Abandon, TypeOK, Idle
  <2>2. QED
    BY <1>2, <2>1, CallKeepsBooks, OthersKeepCalls DEF Abandon, rows
<1>3. QED
  BY <1>1, <1>2, ReadStep, ApplyRowsStep DEF Apply

LEMMA CancelStep ==
    ASSUME TypeOK, Books, CallsAgree, NEW a \in Applications, CancelPaymentApplication(a)
    PROVE  Books' /\ CallsAgree'
<1>0. /\ LockFree /\ a # None /\ UNCHANGED <<payable, settled, call>>
      /\ \A p \in ItemsOf(a) : pending[p].status = "APPLIED"
  BY ConstantsOK DEF CancelPaymentApplication, ConstantsOK
<1>1. \A b \in Applications \ {a} : application'[b] = application[b]
  BY DEF CancelPaymentApplication, TypeOK
<1>2. \A p \in ItemsOf(a) : /\ item'[p].application = None
                            /\ pending'[p].status = "READY" /\ pending'[p].amount = pending[p].amount
  BY DEF CancelPaymentApplication, ItemsOf, NoItem, TypeOK, PendingRow
<1>3. \A p \in Payables \ ItemsOf(a) : item'[p] = item[p] /\ pending'[p] = pending[p]
  BY DEF CancelPaymentApplication
<1>4. ASSUME NEW p \in Payables \ ItemsOf(a), InApplication(p)
      PROVE  application'[item[p].application] = application[item[p].application]
  BY <1>1, <1>4 DEF InApplication, ItemsOf, TypeOK, Item
<1>5. RowsFollowApplications'
  <2> SUFFICES ASSUME NEW p \in Payables
               PROVE  (/\ pending[p].status = "APPLIED" => InApplication(p) /\ application[item[p].application] = "WAITING_PAYMENT"
                       /\ pending[p].status = "PAID" => InApplication(p) /\ application[item[p].application] = "PAID"
                       /\ InApplication(p) => application[item[p].application] \in {"WAITING_PAYMENT", "PAID"})'
    BY DEF RowsFollowApplications
  <2>1. CASE p \in ItemsOf(a)
    BY <1>2, <2>1 DEF InApplication
  <2>2. CASE p \notin ItemsOf(a)
    <3>1. item'[p] = item[p] /\ pending'[p] = pending[p]
      BY <1>3, <2>2
    <3>2. InApplication(p) => application'[item[p].application] = application[item[p].application]
      BY <1>4, <2>2
    <3>3. QED
      BY <3>1, <3>2 DEF Books, RowsFollowApplications, InApplication
  <2>3. QED
    BY <2>1, <2>2
<1>6. AppliedAsAudited'
  <2> SUFFICES ASSUME NEW p \in Ordinary, InApplication(p)'
               PROVE  (/\ pending[p].status = (IF application[item[p].application] = "PAID" THEN "PAID" ELSE "APPLIED")
                       /\ item[p].amount = pending[p].amount /\ item[p].amount = payable[p].amount
                       /\ Live(p) /\ payable[p].audit = "CONFIRMED" /\ payable[p].locked)'
    BY DEF AppliedAsAudited
  <2>1. p \in Payables \ ItemsOf(a)
    BY <1>2 DEF InApplication, Ordinary
  <2>2. item'[p] = item[p] /\ pending'[p] = pending[p] /\ InApplication(p)
    BY <1>3, <2>1 DEF InApplication
  <2>3. application'[item[p].application] = application[item[p].application]
    BY <1>4, <2>1, <2>2
  <2>4. /\ pending[p].status = (IF application[item[p].application] = "PAID" THEN "PAID" ELSE "APPLIED")
        /\ item[p].amount = pending[p].amount /\ item[p].amount = payable[p].amount
        /\ Live(p) /\ payable[p].audit = "CONFIRMED" /\ payable[p].locked
    BY <2>2 DEF Books, AppliedAsAudited
  <2>5. payable' = payable
    BY <1>0
  <2>6. QED
    BY <2>2, <2>3, <2>4, <2>5 DEF Live
<1>7. OrdinaryExposedWhenAudited'
  <2>1. \A p \in Ordinary : /\ pending'[p].amount = pending[p].amount
                            /\ pending'[p].status \notin {"ABSENT", "INVALIDATED"} <=> pending[p].status \notin {"ABSENT", "INVALIDATED"}
    BY <1>0, <1>2, <1>3 DEF Ordinary
  <2>2. QED
    BY <1>0, <2>1 DEF Books, OrdinaryExposedWhenAudited, Live
<1>8. SettledStayAudited'
  BY <1>0 DEF Books, SettledStayAudited, Live
<1>9. ReviewedStands'
  BY <1>0, <1>2, <1>3 DEF Books, ReviewedStands, Live, HasRow
<1>10. QED
  BY <1>0, <1>5, <1>6, <1>7, <1>8, <1>9, FreeKeepsCalls DEF Books

\* An application that is paid or taken back, with all its rows.
LEMMA PaidOrBack ==
    ASSUME TypeOK, Books, CallsAgree, NEW a \in Applications, NEW s \in {"WAITING_PAYMENT", "PAID"},
           application[a] \in {"WAITING_PAYMENT", "PAID"},
           application' = [application EXCEPT ![a] = s],
           \A p \in ItemsOf(a) : /\ pending[p].status \in {"APPLIED", "PAID"} \/ p \notin Ordinary
                                 /\ pending'[p] = [pending[p] EXCEPT !.status = IF s = "PAID" THEN "PAID" ELSE "APPLIED"],
           \A p \in Payables \ ItemsOf(a) : pending'[p] = pending[p],
           UNCHANGED <<item, settled, call>>,
           \A p \in Payables : payable'[p] = payable[p] \/ payable'[p] = [payable[p] EXCEPT !.locked = TRUE]
    PROVE  Books' /\ CallsAgree'
<1>1. application'[a] = s /\ \A b \in Applications \ {a} : application'[b] = application[b]
  BY DEF TypeOK
<1>2. \A p \in ItemsOf(a) : /\ pending'[p].status = IF s = "PAID" THEN "PAID" ELSE "APPLIED"
                            /\ pending'[p].amount = pending[p].amount
  <2> SUFFICES ASSUME NEW p \in ItemsOf(a)
               PROVE  /\ pending'[p].status = IF s = "PAID" THEN "PAID" ELSE "APPLIED"
                      /\ pending'[p].amount = pending[p].amount
    OBVIOUS
  <2>1. pending[p] \in PendingRow
    BY DEF TypeOK, ItemsOf
  <2>2. pending'[p] = [pending[p] EXCEPT !.status = IF s = "PAID" THEN "PAID" ELSE "APPLIED"]
    OBVIOUS
  <2>3. QED
    BY <2>1, <2>2 DEF PendingRow
<1>3. \A p \in Payables : /\ payable'[p].reviewed = payable[p].reviewed /\ payable'[p].amount = payable[p].amount
                          /\ payable'[p].status = payable[p].status /\ payable'[p].audit = payable[p].audit
                          /\ payable[p].locked => payable'[p].locked
  <2> SUFFICES ASSUME NEW p \in Payables
               PROVE  /\ payable'[p].reviewed = payable[p].reviewed /\ payable'[p].amount = payable[p].amount
                      /\ payable'[p].status = payable[p].status /\ payable'[p].audit = payable[p].audit
                      /\ payable[p].locked => payable'[p].locked
    OBVIOUS
  <2>1. payable[p] \in Payable
    BY DEF TypeOK
  <2>2. payable'[p] = payable[p] \/ payable'[p] = [payable[p] EXCEPT !.locked = TRUE]
    OBVIOUS
  <2>3. QED
    BY <2>1, <2>2 DEF Payable
<1>4. ASSUME NEW p \in Payables \ ItemsOf(a), InApplication(p)
      PROVE  application'[item[p].application] = application[item[p].application]
  BY <1>1, <1>4 DEF InApplication, ItemsOf, TypeOK, Item
<1>5. \A p \in ItemsOf(a) : InApplication(p) /\ item[p].application = a
  BY ConstantsOK DEF InApplication, ItemsOf, ConstantsOK
<1>6. RowsFollowApplications'
  <2> SUFFICES ASSUME NEW p \in Payables
               PROVE  (/\ pending[p].status = "APPLIED" => InApplication(p) /\ application[item[p].application] = "WAITING_PAYMENT"
                       /\ pending[p].status = "PAID" => InApplication(p) /\ application[item[p].application] = "PAID"
                       /\ InApplication(p) => application[item[p].application] \in {"WAITING_PAYMENT", "PAID"})'
    BY DEF RowsFollowApplications
  <2>1. CASE p \in ItemsOf(a)
    BY <1>1, <1>2, <1>5, <2>1 DEF InApplication
  <2>2. CASE p \notin ItemsOf(a)
    <3>1. pending'[p] = pending[p]
      BY <2>2
    <3>2. InApplication(p) => application'[item[p].application] = application[item[p].application]
      BY <1>4, <2>2
    <3>3. InApplication(p)' <=> InApplication(p)
      BY DEF InApplication
    <3>4. QED
      BY <3>1, <3>2, <3>3 DEF Books, RowsFollowApplications
  <2>3. QED
    BY <2>1, <2>2
<1>7. AppliedAsAudited'
  <2> SUFFICES ASSUME NEW p \in Ordinary, InApplication(p)
               PROVE  (/\ pending[p].status = (IF application[item[p].application] = "PAID" THEN "PAID" ELSE "APPLIED")
                       /\ item[p].amount = pending[p].amount /\ item[p].amount = payable[p].amount
                       /\ Live(p) /\ payable[p].audit = "CONFIRMED" /\ payable[p].locked)'
    BY DEF AppliedAsAudited, InApplication
  <2>1. /\ pending[p].status = (IF application[item[p].application] = "PAID" THEN "PAID" ELSE "APPLIED")
        /\ item[p].amount = pending[p].amount /\ item[p].amount = payable[p].amount
        /\ Live(p) /\ payable[p].audit = "CONFIRMED" /\ payable[p].locked
    BY DEF Books, AppliedAsAudited
  <2>2. p \in Payables
    BY DEF Ordinary
  <2>3. Live(p)' /\ payable'[p].audit = "CONFIRMED" /\ payable'[p].locked /\ item'[p].amount = payable'[p].amount
    BY <1>3, <2>1, <2>2 DEF Live
  <2>4. CASE p \in ItemsOf(a)
    BY <1>1, <1>2, <1>5, <2>1, <2>3, <2>4
  <2>5. CASE p \notin ItemsOf(a)
    <3>1. p \in Payables \ ItemsOf(a)
      BY <2>2, <2>5
    <3>2. application'[item[p].application] = application[item[p].application]
      BY <1>4, <3>1
    <3>3. pending'[p] = pending[p] /\ item' = item
      BY <3>1
    <3>4. application'[item'[p].application] = application[item[p].application]
      BY <3>2, <3>3
    <3>5. pending'[p].status = (IF application'[item'[p].application] = "PAID" THEN "PAID" ELSE "APPLIED")
      BY <2>1, <3>3, <3>4
    <3>6. item'[p].amount = pending'[p].amount
      BY <2>1, <3>3
    <3>7. QED
      BY <2>3, <3>5, <3>6
  <2>6. QED
    BY <2>4, <2>5
<1>8. OrdinaryExposedWhenAudited'
  <2>1. \A p \in Ordinary : /\ pending'[p].amount = pending[p].amount
                            /\ pending'[p].status \notin {"ABSENT", "INVALIDATED"} <=> pending[p].status \notin {"ABSENT", "INVALIDATED"}
    BY <1>2 DEF Ordinary
  <2>2. QED
    BY <1>3, <2>1 DEF Books, OrdinaryExposedWhenAudited, Live, Ordinary
<1>9. SettledStayAudited'
  BY <1>3 DEF Books, SettledStayAudited, Live, TypeOK
<1>10. ReviewedStands'
  BY <1>2, <1>3 DEF Books, ReviewedStands, Live, HasRow
<1>11. RowsAsRead'
  <2> SUFFICES ASSUME NEW c \in Calls, call[c].at = "rows read", NEW p \in call[c].rows
               PROVE  AsRead(c, p)'
    BY DEF RowsAsRead
  <2>1. AsRead(c, p) /\ p \in Payables
    BY DEF CallsAgree, RowsAsRead, TypeOK, Call
  <2>2. pending'[p] = pending[p]
    BY <1>5, <2>1 DEF AsRead
  <2>3. QED
    BY <2>1, <2>2 DEF AsRead, InApplication
<1>12. OneReader' /\ SomeRows' /\ LateRowsEarly'
  BY DEF CallsAgree, OneReader, SomeRows, LateRowsEarly
<1>13. QED
  BY <1>6, <1>7, <1>8, <1>9, <1>10, <1>11, <1>12 DEF Books, CallsAgree

LEMMA PayStep ==
    ASSUME TypeOK, Books, CallsAgree, Pay
    PROVE  Books' /\ CallsAgree'
<1>1. ASSUME NEW a \in Applications, ConfirmPaid(a)
      PROVE  Books' /\ CallsAgree'
  BY <1>1, PaidOrBack DEF ConfirmPaid, ItemsOf
<1>2. ASSUME NEW a \in Applications, ReversePaid(a)
      PROVE  Books' /\ CallsAgree'
  <2>1. \A p \in ItemsOf(a) : p \in Ordinary => pending[p].status \in {"APPLIED", "PAID"}
    BY ConstantsOK DEF ItemsOf, Books, AppliedAsAudited, InApplication, ConstantsOK
  <2>2. QED
    BY <1>2, <2>1, PaidOrBack DEF ReversePaid, ItemsOf
<1>3. QED
  BY <1>1, <1>2, CancelStep DEF Pay

LEMMA SettleStep ==
    ASSUME TypeOK, Books, CallsAgree, Settle
    PROVE  Books' /\ CallsAgree'
<1>1. UNCHANGED <<payable, rows, call>> /\ UNCHANGED <<pending, application, item, vouchers>>
  BY DEF Settle, SettleProfit, ReleaseProfit, rows
<1>2. \A p \in settled' : Live(p) /\ payable[p].audit = "CONFIRMED" /\ payable[p].reviewed
  BY DEF Settle, SettleProfit, ReleaseProfit, Books, SettledStayAudited
<1>3. SettledStayAudited'
  BY <1>1, <1>2 DEF SettledStayAudited, Live
<1>4. RowsFollowApplications' /\ AppliedAsAudited'
  BY <1>1 DEF Books, RowsFollowApplications, AppliedAsAudited, InApplication, Live
<1>5. OrdinaryExposedWhenAudited' /\ ReviewedStands'
  BY <1>1 DEF Books, OrdinaryExposedWhenAudited, ReviewedStands, Live, HasRow
<1>6. OneReader' /\ SomeRows' /\ LateRowsEarly'
  BY <1>1 DEF CallsAgree, OneReader, SomeRows, LateRowsEarly
<1>7. RowsAsRead'
  BY <1>1 DEF CallsAgree, RowsAsRead, AsRead, InApplication
<1>8. QED
  BY <1>3, <1>4, <1>5, <1>6, <1>7 DEF Books, CallsAgree

LEMMA IInvStep ==
    ASSUME IInv, [Next]_vars
    PROVE  IInv'
<1>1. TypeOK'
  BY TypeStep DEF IInv
<1>2. CASE AuditPayables
  BY <1>1, <1>2, AuditStep, ReverseAuditStep DEF AuditPayables, IInv
<1>3. CASE EnterPayables \/ Vouch \/ Apply \/ Pay \/ Settle
  BY <1>1, <1>3, EnterStep, VouchStep, ApplyStep, PayStep, SettleStep DEF IInv
<1>4. CASE UNCHANGED vars
  BY <1>1, <1>4, CallKeepsBooks, ToggleKeeps DEF vars, rows, IInv
<1>5. QED
  BY <1>2, <1>3, <1>4 DEF Next

LEMMA PayablesInvariant == Spec => []IInv
<1>1. Init => IInv
  BY TypeInit, BooksInit DEF IInv
<1>2. IInv /\ [Next]_vars => IInv'
  BY IInvStep
<1>3. QED
  BY <1>1, <1>2, PTL DEF Spec

\* The rows and the applications that pay the agents tell one story, whatever
\* is applied for, cancelled, paid and taken back, and by however many calls
\* that read the rows before they write them.
THEOREM RowsFollowCorrect == Spec => []RowsFollowApplications
<1>1. IInv => RowsFollowApplications
  BY DEF IInv, Books
<1>2. QED
  BY <1>1, PayablesInvariant, PTL

\* An ordinary payable in an application keeps its audit, its lock and the
\* amount that was audited, and its row says where the application stands,
\* whichever reversal, edit or replacement of the agents runs beside it.
THEOREM AppliedCorrect == Spec => []AppliedAsAudited
<1>1. IInv => AppliedAsAudited
  BY DEF IInv, Books
<1>2. QED
  BY <1>1, PayablesInvariant, PTL

\* An ordinary payable is offered for payment just while its audit stands, and
\* at the amount that was audited.
THEOREM ExposedCorrect == Spec => []OrdinaryExposedWhenAudited
<1>1. IInv => OrdinaryExposedWhenAudited
  BY DEF IInv, Books
<1>2. QED
  BY <1>1, PayablesInvariant, PTL

\* What a settlement of profit has counted stays audited until it is released.
THEOREM SettledAuditedCorrect == Spec => []SettledStayAudited
<1>1. IInv => SettledStayAudited
  BY DEF IInv, Books
<1>2. QED
  BY <1>1, PayablesInvariant, PTL

LEMMA AmountsKept ==
    ASSUME IInv, [Next]_vars, NEW p \in settled \cap settled'
    PROVE  payable'[p].amount = payable[p].amount
<1>1. p \in Payables /\ payable[p].reviewed
  BY DEF IInv, TypeOK, Books, SettledStayAudited
<1>2. CASE EnterPayables
  BY <1>1, <1>2, TypeStep, EnterStep DEF IInv, ReviewedKept, Next
<1>3. CASE AuditPayables
  BY <1>1, <1>3 DEF AuditPayables, AuditPayable, ReverseAuditPayable, IInv, TypeOK, Payable
<1>4. CASE Vouch \/ Apply \/ Settle \/ UNCHANGED vars
  <2>1. payable' = payable
    BY <1>4 DEF Vouch, AddRowVoucher, DeleteRowVoucher, AddApplicationVoucher, Apply, CheckRows, ReadRows,
                ApplyRows, Abandon, Settle, SettleProfit, ReleaseProfit, vars
  <2>2. QED
    BY <2>1
<1>5. CASE Pay
  BY <1>1, <1>5 DEF Pay, CancelPaymentApplication, ConfirmPaid, ReversePaid, IInv, TypeOK, Payable
<1>6. QED
  BY <1>2, <1>3, <1>4, <1>5 DEF Next

\* The amount that a profit settlement has counted never changes under it.
THEOREM SettledAmounts == Spec => SettledKeepAmount
<1>1. Init => IInv
  BY TypeInit, BooksInit DEF IInv
<1>2. IInv /\ [Next]_vars => IInv'
  BY IInvStep
<1>3. IInv /\ [Next]_vars => [\A p \in settled \cap settled' : payable'[p].amount = payable[p].amount]_vars
  BY AmountsKept
<1>4. QED
  BY <1>1, <1>2, <1>3, PTL DEF Spec, SettledKeepAmount

-----------------------------------------------------------------------------
(* The refinement.                                                         *)

LEMMA ClaimsInit == Init => Claims!Init
  BY ConstantsOK DEF Init, Claims!Init, ItemsOf, NoItem, ConstantsOK

LEMMA ClaimsApply ==
    ASSUME IInv, NEW c \in Calls, NEW a \in Applications, ApplyRows(c, a)
    PROVE  Claims!Make(a)
<1> DEFINE R == call[c].rows
           Members == [b \in Applications |-> ItemsOf(b)]
<1>1. call[c].at = "rows read" /\ R \subseteq Payables /\ a # None /\ application[a] = "ABSENT"
  BY ConstantsOK DEF ApplyRows, IInv, TypeOK, Call, ConstantsOK
<1>2. R # {}
  BY <1>1 DEF IInv, CallsAgree, SomeRows
<1>3. \A b \in Applications : R \cap ItemsOf(b) = {}
  BY <1>1, ConstantsOK DEF IInv, CallsAgree, RowsAsRead, AsRead, InApplication, ItemsOf, ConstantsOK
<1>4. ItemsOf(a) = {}
  BY <1>1 DEF IInv, Books, RowsFollowApplications, InApplication, ItemsOf
<1>5. ItemsOf(a)' = R
  BY <1>1, <1>4 DEF ApplyRows, ItemsOf
<1>6. \A b \in Applications \ {a} : ItemsOf(b)' = ItemsOf(b)
  BY <1>1, <1>3 DEF ApplyRows, ItemsOf
<1>7. application' = [application EXCEPT ![a] = "WAITING_PAYMENT"]
  BY DEF ApplyRows
<1>8. R \in SUBSET (Payables \ Claims!Claimed)
  <2>1. R \cap Claims!Claimed = {}
    BY <1>3 DEF Claims!Claimed
  <2>2. QED
    BY <1>1, <2>1
<1>9. Members' = [Members EXCEPT ![a] = R]
  BY <1>5, <1>6
<1>10. QED
  BY <1>1, <1>2, <1>7, <1>8, <1>9 DEF Claims!Make

LEMMA ClaimsPay ==
    ASSUME IInv, Pay
    PROVE  Claims!Next
<1>1. application \in [Applications -> {"ABSENT", "WAITING_PAYMENT", "PAID", "CANCELED"}]
  BY DEF IInv, TypeOK
<1>2. ASSUME NEW a \in Applications, ConfirmPaid(a)
      PROVE  Claims!Pay(a)
  BY <1>1, <1>2 DEF ConfirmPaid, Claims!Pay, ItemsOf
<1>3. ASSUME NEW a \in Applications, ReversePaid(a)
      PROVE  Claims!TakeBack(a)
  BY <1>1, <1>3 DEF ReversePaid, Claims!TakeBack, ItemsOf
<1>4. ASSUME NEW a \in Applications, CancelPaymentApplication(a)
      PROVE  Claims!Withdraw(a)
  <2>1. ItemsOf(a)' = {}
    BY <1>4, ConstantsOK DEF CancelPaymentApplication, ItemsOf, NoItem, ConstantsOK
  <2>2. \A b \in Applications \ {a} : ItemsOf(b)' = ItemsOf(b)
    BY <1>4, ConstantsOK DEF CancelPaymentApplication, ItemsOf, NoItem, ConstantsOK
  <2>3. QED
    BY <1>1, <1>4, <2>1, <2>2 DEF CancelPaymentApplication, Claims!Withdraw
<1>5. QED
  BY <1>2, <1>3, <1>4 DEF Pay, Claims!Next

LEMMA ClaimsStep ==
    ASSUME IInv, [Next]_vars
    PROVE  [Claims!Next]_(Claims!vars)
<1>1. CASE UNCHANGED <<application, item>>
  BY <1>1 DEF Claims!vars, ItemsOf
<1>2. ASSUME NEW c \in Calls, NEW a \in Applications, ApplyRows(c, a)
      PROVE  Claims!Next
  BY <1>2, ClaimsApply DEF Claims!Next
<1>3. CASE EnterPayables
  BY <1>1, <1>3, TypeStep, EnterStep DEF IInv, ReviewedKept, Next
<1>4. CASE AuditPayables \/ Vouch \/ Settle \/ UNCHANGED vars
  BY <1>1, <1>4 DEF AuditPayables, AuditPayable, ReverseAuditPayable, Vouch, AddRowVoucher, DeleteRowVoucher,
                    AddApplicationVoucher, Settle, SettleProfit, ReleaseProfit, vars, rows
<1>5. CASE Apply
  BY <1>1, <1>2, <1>5 DEF Apply, CheckRows, ReadRows, Abandon, rows
<1>6. CASE Pay
  BY <1>6, ClaimsPay
<1>7. QED
  BY <1>3, <1>4, <1>5, <1>6 DEF Next

\* Payment applications implement PaymentClaims: no row is ever in two of
\* them, and each is paid, taken back and withdrawn as promised.
THEOREM ImplementsClaims == Spec => KeepsClaims
<1>1. Init => IInv /\ Claims!Init
  BY TypeInit, BooksInit, ClaimsInit DEF IInv
<1>2. IInv /\ [Next]_vars => IInv'
  BY IInvStep
<1>3. IInv /\ [Next]_vars => [Claims!Next]_(Claims!vars)
  BY ClaimsStep
<1>4. QED
  BY <1>1, <1>2, <1>3, PTL DEF Spec, KeepsClaims, Claims!Spec
=============================================================================
