# TLA+ models of siyuan

siyuan is the order and finance system of a freight forwarder: a NestJS API over
PostgreSQL (`apps/api`), a React client (`apps/web`), shared domain code
(`packages/shared`) and release scripts (`scripts`, `deploy`). The rules that keep
its data right live in `apps/api/src/modules/prisma.repository.ts` (R below, 33,748
lines) and in a few services beside it. This directory models the parts where
several users, several processes or several steps of one call can meet in an order
that no test of the repository produces.

- [Inventory](#inventory)
- [What is modelled](#what-is-modelled)
- [Runs](#runs)
- [What the counterexamples show](#what-the-counterexamples-show)
- [Proofs](#proofs)
- [What is left out](#what-is-left-out)
- [Plan](#plan)
- [Running it](#running-it)

## Inventory

The API is one process except during a release, when the old and the new process
overlap (`scripts/lib/47-api-warm-handoff.sh`). Every handler runs against one
PostgreSQL database at READ COMMITTED; Prisma's `$transaction` makes a handler's
writes atomic, `SELECT ... FOR UPDATE` and conditional `updateMany` order them, and
what a handler reads before its transaction may be stale in it. Everything below
meets in that database; the only timers are the notification worker's ten seconds
and the price book worker's.

| Component (source) | State | Operations | What is hard | What makes it correct |
| --- | --- | --- | --- | --- |
| Water receipts, receivables, allocations (R 11459-13560, 16706-18502) | WaterReceipt, ReceivableFee, ShipmentFinanceItem, WaterReceiptMatchRequest, WaterReceiptMatch, CustomerAccount, AccountLedger, Payment | enter, edit, arrive, archive, void a receipt; submit, edit, delete, reject, approve, reverse, unmatch an allocation; create, edit, audit, lock, delete a receivable; pay; edit or delete an order | two receipts and two receivables reserve each other's money; reversal reserves again; checks before the transaction; rows replaced under pending allocations | no money is promised twice; books, account and ledger follow every posting and its reversal |
| Notification events (`notifications/notification.service.ts`) | NotificationEventCursor, NotificationEventProcessing, Notification | round of a worker: read, claim, attempt, settle, advance, retry; administrator's retry | several processes, leases, crashes between statements, lost answers | every event gets one outcome, and one notification if it is called delivered |
| Return work (same file) | NotificationActionTask, its watermark | a rejection opens, a resubmission closes | events handled out of order | a task is open only if nothing answered it |
| Announcements and deliveries (same file) | Announcement, NotificationDelivery | publish, withdraw, read, acknowledge | single-row updates | - |
| Payables, applications, paid payments (R 14013-15440, 16706-18113, 19760-20500) | ShipmentFinanceItem (PAYABLE), PayablePaymentApplication, PaymentApplication and its items, PaymentVoucher | enter, edit, audit, take the audit back, lock, void, replace a payable; apply for rows, withdraw, pay, take a payment back; add and delete bill vouchers | checks before the advisory lock; rows written after the commit; payables paid before their audit | a row is in one application; what is paid and settled is what was audited |
| Business cost audit (R 13572-13845) | cost rows, disputes | confirm, dispute, resolve | meets payable audit | a disputed cost is not payable |
| Misc. fees and profit settlement (R 25114-25260, 27131-29931) | MiscFeeRecord, its two ShipmentFinanceItems, MiscFeeHangRequest, its PayablePaymentApplication, ProfitSettlement and lines | register or claim, edit, match, confirm, audit, hang, approve singly or in batches, pay directly, reverse, void; count, submit, audit, archive, release a settlement | a reversal meets open requests; order pages rewrite the items; lines must stay true while a settlement goes back to draft | fee, requests and row tell one story; a cost on an order has been decided; what a settlement counted stays so |
| Warehouse packages (R 8171-9520) | WarehousePackage, scans | receive, measure, split, void, import | machine and user write the same package | a package belongs to one shipment |
| Tally tasks (R 9753-11460) | tally task, lines, claims | claim, submit, review, correct, reverse | retried serializable transaction | counts equal the packages |
| Warehouse rent (`warehouse-rent.ts`) | rules | compute, maintain | date boundaries | total of the tiers |
| Shipments (R 16090-16690, 18574-19990) | Shipment, stages | entry, review, receive, route, dispatch, reroute | long status machine over several roles | no stage without its predecessor |
| Data confirmation (R 20035-20550) | confirmation rows | submit, approve, reject | - | approved data is what is billed |
| Order packages, charge weight (`charge-weight-change.ts`, ...) | none | compute | rounding | monotone, at least the actual weight |
| Carrier tasks, tracking (R 21046-21250, 26651-26789) | CarrierTask, TrackingEvent | create, run, retry, import | find-then-create, unconditional update | one open task per shipment and kind |
| Labels, invoices (R 21251-21575) | file records | version, revoke | file I/O | - |
| Problem tickets (R 21629-21980) | ProblemTicket | open, reply, close | - | - |
| Price books (R 6804-7647) | PriceBook, its rows and sources, PriceBookImportJob | import, replace, delete, scan for stale books, claim, rebuild, recover | a worker in each process, jobs recovered while their worker runs, releases that overlap, scans of books that change | rows of one parser revision; every stale book is rebuilt or says why not |
| Pricing engine (`packages/shared/src/pricing-rule-engine.ts`) | none | compute | - | deterministic choice of rule |
| Master data, identity, HTTP audit, lineage | single rows, logs | maintenance | - | - |
| In-memory repository, web client | none of record | - | - | - |
| Release scripts (`scripts/lib/47-release-lock.sh`) | lock directory, recovery marker | acquire, heartbeat, recover | process dies holding the lock | one release at a time |

`PROJECT.json` has the same list with sources and status, and under `hazards` every
place in this code where something is hard to test, with the properties that cover it.

Interactions: order entry and fee generation create and replace the receivables that
allocations refer to; allocations write the customer account that payments write too;
every handler writes an audit row in its transaction, and the notification worker reads
those rows afterwards; a rejected allocation becomes return work through that worker.

## What is modelled

### Water receipts: `WaterReceipts`

One action per committed transaction, so that the interleavings are those of the
database. The variables are the tables, a function from ids to rows each; a row nobody
has created has status `ABSENT`. A receivable is a `ReceivableFee` (in `SystemFees`) or
a `ShipmentFinanceItem`; where the two are treated differently the guard says so.

Two handlers check first and write in a later transaction (`deleteReceivableAudit`,
`reverseAuditReceivableAudit`). They are two actions each, with the call in `inFlight`
between them, and `AbandonCall` for a call whose write never comes. All other handlers
of the component lock the rows they check, or check and write the same rows under
conditions, so that one action is faithful. `createPayment` opens the customer's account
before its checks, which is `OpenAccount`.

| Code | Actions |
| --- | --- |
| createWaterReceipt, updateWaterReceipt, markWaterReceiptArrived, archiveWaterReceipt, voidWaterReceipt | CreateReceipt, UpdatePendingReceipt, UpdateArrivedReceipt, MarkArrived, ArchiveReceipt, VoidPendingReceipt, VoidArrivedReceipt |
| create/update/delete/reject/approve/reverse...MatchRequest(s), unmatchWaterReceipt | Submit, UpdateRequest, DeleteRequest, RejectRequest, ApproveRequest, ReverseRequest, Unmatch |
| receivable audit and shipment finance items | CreateFee, UpdateFee, AuditFee, LockFee, UnlockFee, DeleteFinanceItem, DeleteFeeCheck/Write, ReverseAuditCheck/Write |
| createPayment | OpenAccount, CreatePayment |
| generateShipmentFees, order entry, updateShipmentReviewBasic, deleteOrderEntryDraft | RegenerateFees, OrderEntry, ReassignShipment, DeleteShipment |

`Init` is an empty database, or one with any of the `Legacy` matches: an earlier release posted
matches without requests (`matchWaterReceiptOrders`, still in the file and no longer
reachable), and `unmatchWaterReceipt` exists for them. Several of them may be of one receipt
and one receivable, since no index forbids it; where that matters see the counterexamples.

Amounts are whole cents. `Totals` defines a sum over rows as the number of cents they
have together, which TLC evaluates and which the provers can reason about without
unfolding a recursion.

`Budget` is the abstract specification: an item has a total, part of it reserved, part
posted; money is posted only out of what is reserved, a reversal reserves it again, and
the total is fixed meanwhile. Each receipt is such a budget and each receivable is one:
`ReceiptsAreBudgets` and `FeesAreBudgets` are the two refinements, with the pending
requests as the reserved part.

`WaterReceiptClaims` states what messages and documents of the repository say and the
code does not keep; see the counterexamples below.

### Payables: `Payables`, `PaymentClaims`

The payables of one shipment. `payable` is the finance item (`reviewed` is `auditedAt`),
`pending` the row that waits to be paid, `application` and `item` the applications,
`vouchers` the bill vouchers of rows and applications, `settled` the payables with a line
in a profit settlement. A payable whose settlement method is 挂账 ("early") has its row
as soon as it is entered; the others (`Ordinary`) get it from their audit.

An action is one transaction. Four kinds of call do more, and have a record in `call`
between their steps: `createPaymentApplications` checks rows and vouchers first
(`CheckRows`), reads the rows again under the advisory lock (`ReadRows`) and writes
(`ApplyRows`); a general fee edit commits the payable and writes the row of an early one
afterwards (`WriteRowLater`); `deletePayableAudit` checks and deletes without a
transaction. `Abandon` is a call that is refused, fails or is lost in between. The lock
(`withMiscFeeFinancialLock`) is held exactly while a call is at "rows read": every other
call that takes it is a single action with the guard `LockFree`. Taking a payment back
takes no lock, as in the code.

| Code | Actions |
| --- | --- |
| create/update/audit/reverseAudit/deletePayableAudit | CreatePayableAudit, UpdatePayableAudit, AuditPayable, ReverseAuditPayable, CheckDelete, DeletePayableAudit |
| create/update/delete/lock/unlockShipmentFinanceItem | CreateShipmentFinanceItem, UpdateShipmentFinanceItem, WriteRowLater, DeleteShipmentFinanceItem, LockShipmentFinanceItem, UnlockShipmentFinanceItem |
| data confirmation, order entry, replaceShipmentAgent | UpdateServiceData, ReenterOrder, ReplaceShipmentAgent |
| addPaymentVoucher, updatePaymentApplication, deletePendingPaymentBillVoucher | AddRowVoucher, AddApplicationVoucher, DeleteRowVoucher |
| createPaymentApplications, cancelPaymentApplication, confirmPaymentApplicationPaid, reversePaidPayment | CheckRows, ReadRows, ApplyRows, CancelPaymentApplication, ConfirmPaid, ReversePaid |
| createProfitSettlement, releaseProfitSettlement | SettleProfit, ReleaseProfit |

Two things a reader of the code will look for. The look for vouchers in the calls of
data confirmation asks for `PaymentVoucher.payableFinanceItemId`, a field the schema does
not have, so that the query fails whenever the payable has a row: `UpdateServiceData`
therefore never changes one. Whether the shipment's data are confirmed and its transfer
number is known is decided elsewhere and may change at any time, so that a call which
asks for it is one that may be refused; every guard on it is left open.

`PaymentClaims` is the abstract specification: an application claims free debts, is paid,
taken back or withdrawn, and a withdrawn one frees them. `KeepsClaims` is the refinement.

### Miscellaneous fees: `MiscFees`

Pickups, deliveries, purchases, tally fees and the carrier's imported bills. A fee has two
costs, for sales and for the company, which `EnsureItems` copies into two items of the
order once they are decided (`Materialized`). `hang` is the fee's own note of its request
for payment, `request` the requests, `row` what is to be paid once one is approved, `line`
the line of a fee in a settlement of each type. PICKUP stands for WAREHOUSE_PICKUP and
MARKET_PICKUP, DELIVERY also for the legacy OTHER_PICKUP; they go the same way.

An action is one committed transaction. Handlers read the fee before it, and their update
is conditional on the fee's version, so that a stale read is a refused call; requests,
rows, items and lines are written under the one advisory lock or together with such an
update.

| Code | Actions |
| --- | --- |
| createMiscFee, claimKuayueImportLine, updateMiscFee | CreateMiscFee, ClaimKuayueImportLine, UpdateMiscFee |
| matchMiscFee, matchTallyMiscFeesToShipment, assignMiscFeeBusinessCost, confirmMiscFee, auditMiscFee | MatchMiscFee, MatchTallyMiscFees, AssignMiscFeeBusinessCost, ConfirmMiscFee, AuditMiscFee |
| directPayAndArchiveKuayueMiscFee, reverseAuditMiscFee, voidMiscFee | DirectPayAndArchiveKuayueMiscFee, ReverseAuditMiscFee, VoidMiscFee |
| create, applyPurchasePayment, approve (one or a batch), reject, withdraw | CreateMiscFeeHangRequest, ApplyPurchasePayment, ApproveMiscFeeHangRequests, TransitionMiscFeeHangRequest |
| order entry, replaceShipmentAgent, the two customer service pages | ReenterOrder, ReplaceShipmentAgent, UpdateCustomerServiceFinanceItem, UpdateShipmentBusinessData |
| create, recompute, release, submit, audit, reverse and archive a settlement | CreateProfitSettlement, RecomputeProfitSettlement, ReleaseProfitSettlement, TransitionProfitSettlement |

Which of the countable fees fall into the period of a settlement is a free choice (`F`), so
every period and every date is covered.

### Notification events: `NotificationEvents`, `EventOutcomes`

One action per statement against the database, for any number of processes
(`Workers`). Audit rows are numbered by their key (createdAt, id). A round reads the
cursor, reads the rows behind it, and for each registers a processing row, claims it
with one conditional update, attempts it, stores the result if its claim still stands,
and advances the cursor; then it goes through failed rows and old claims. `pc` is where
the round is.

- The lock token is the number of the claim: tokens are unique and only compared.
- Five minutes of a lease and the back-off of a failure are one bit, `timer`, that
  `TimePasses` sets.
- Whom an event notifies depends on users, roles and preferences that change; an
  attempt chooses among recipients, none, nothing to say and failure.
- `Send` is the transaction that creates the notification: it commits, meets the unique
  dedupe key of another attempt, fails, or commits and its answer is lost.
- `Settle` stores the outcome under the token; if that statement fails the attempt
  counts as failed (the `catch` of `processAuditEventSafely`).
- A failure of any other statement ends the round, and so does the end of the process;
  both are `Stop`, which forgets the round. What the claim's read-back of the attempts
  could see is folded into `Claim`.
- Audit rows are never deleted, so the branch of a missing source row is not reachable.
  Retries of one round are limited to 20 rows by age; the instances have fewer.
- `OrderedCommits` says that audit rows become visible in the order of their keys. It is
  an assumption about the business transactions, not something this code ensures; the
  runs and the theorem that need it name it.

`EventOutcomes` is the abstract specification of one event's life: attempts up to the
limit, one notification at the most, one outcome (processed only if notified, a dead letter
only when every attempt is used), final unless an administrator reopens it. Rounds,
cursor, leases and tokens are invisible in it. `KeepsOutcomes` is the refinement.

### Price books: `PriceBooks`

Each price book carries the revision of the parser that made its rows. A release that
raises the revision of a module makes the books of that module stale, and a worker in
every API process rebuilds them, one job after the other, from the retained upload. The
books of the model share a file name, an agent and a module, so that imports replace each
other. `life`, `revision`, `shown` are columns of the book (`shown` is `refreshStatus`);
`parts` are its rows and its sources, each with the revision and the process that wrote them; `original` says
that an IMPORT job with a file names the book; `refresh` is the status of the one
RULE_REFRESH job a book can have per revision (the unique `dedupeKey`); `aged` are those
untouched for ten minutes. `Rule[p]` is the revision in the code that process p runs.

A step is one statement or one transaction, because almost nothing here is in a
transaction: an import writes the book, its rows, its sources and the end of the books it
replaces one after the other, and `pc` follows the worker through its statements.

| Code | Actions |
| --- | --- |
| persistPriceBookRows, processPriceBookImportJob | BeginImport, CreateBook, WriteRows, WriteSources, RetireReplaced, FinishImport, FailImport |
| deletePriceBook | ReadForDelete, DeleteBook |
| recoverStalledPriceBookRefreshJobs, enqueueStalePriceBookRefreshJobs | StartTurn, FindCurrent, FindUnavailable, Enqueue, PassOver, Mark, MarkThrows |
| runPriceBookRuleRefreshWorker | Pick, FindNothing, Claim, LoseClaim |
| processPriceBookRuleRefreshJob | Start, Parsed, Succeed, Throw, FailJob, FailBook |
| replacePriceBookRowsFromRuleRefresh | ReadSources, Adopt, Clear, Replace |
| the process and the clock | Crash, Restart, Age |

- The scan reads all books at once and updates them later, one by one (`todo`, `mark`).
  When the book has been deleted meanwhile the update throws; the caller is
  `void this.runPriceBookRuleRefreshWorker()`, so nobody catches it and Node ends the
  process (`MarkThrows`). `restart: unless-stopped` starts it again.
- What the worker asks between the scan and the creation of a job (is there a job, is there
  an original?) it asks of tables that only grow meanwhile; the questions and the creation
  are one step, and a creation that meets another worker's is `PassOver`.
- The replacement is one transaction, but at READ COMMITTED and without a lock on the book,
  so it is four steps: it reads the sources of the book, or the one source without a book
  that it may take over (`Adopt`), deletes what it has read and all rows committed so far,
  and commits the new contents. What another replacement commits in between is in `missed`,
  and stays. Deletions of the same source wait for each other (`Clear`), and an update of a
  source that is gone throws. `OverlappingReplacements` says whether two workers may replace
  one book at once. The code lets them; a run or theorem that needs the contrary names it.
- `Throw` is any failure inside the `try`: no file, a workbook without valid rows, a
  transaction past its three minutes. Each of the two writes of the `catch` may fail in turn
  and is then swallowed (`Unrecorded`); `MaxCrashes` bounds these together with the deaths.

## Runs

| Run | Question | Instance | Distinct states |
| --- | --- | --- | --- |
| WaterReceiptsCore | Do the capacity invariants, the receipt's books and both refinements survive every order of the transactions? | 2 receipts, 2 receivables (one of each kind), 2 requests, 2 matches, amounts 1 and 2 | 430,684 |
| WaterReceiptsCalls | What still protects allocations when a handler checks before its transaction, and do accounts and ledger follow the receipts, legacy matches included? | 2 customers, 1 receipt, 1 receivable, 1 request, 1 payment, perhaps a legacy match, a call in flight | 189,232 |
| NotificationEvents | Is nothing skipped, called delivered without a notification, or settled over? | 2 processes, 2 events, 2 attempts, a stop at any point, one retry by an administrator | 3,690,461 |
| NotificationEventsLive | Does every event come to an outcome, by the steps `EventOutcomes` allows? | 2 processes, 1 event, 2 attempts, a stop and a retry | 57,695 |
| Payables | Do rows, applications and payments tell one story, is what is paid and counted what was audited, and is no row in two applications? | 1 ordinary and 1 early payable, 2 applications, 2 calls at once, amounts 1 and 2, within `Small` | 439,236 |
| PriceBooks | Does every stale book get rebuilt, once, through deaths and recovered jobs? | 2 processes of one release, 1 book of an older revision that may be deleted, 1 death or unrecorded failure | 71,721 |
| PriceBooksHandover | Does a book ever mix the rows of two parsers, if replacements of one book do not overlap? | 2 processes of two revisions, an old book and the import that replaces it, a deletion | 1,322,312 |
| MiscFees | Do fee, requests, row, order items and settlement lines agree through reversals, voids and the order pages? | 1 fee of any kind, 2 requests, 1 settlement, amounts 1 and 2 | 572,793 |
| WaterReceiptsReverseAudit, NotificationEventsUnordered, PriceBooksRevision, PriceBooksMixed | One claim each that TLC refutes | minimal | - |

Why these bounds are enough to make the cases happen. With two receipts and two
receivables a receipt can be shared by receivables, a receivable by receipts, and the
two at once; with amounts 1 and 2 an allocation can be partial, exact, or too large by
one, and two partial ones can fill an item. Two requests are what a check that forgets
"the others" needs to fail, and a match id is used once, so that a reversal followed by
a new approval needs the second. Two customers are what moving a receipt needs. For the
worker, two processes and a lease that may run out at any time are what stale results
need; two attempts separate "the last" from "one left"; two events give the cursor an
order to violate. Two payables and two applications let a call apply for both, for one
while the other is taken, and let a withdrawn application be followed by another; two
calls at once, each in steps, race for the same rows, are what a lock keeps apart, and make
a late write late. The constraint `Small` goes on from three kinds of states: without vouchers
on rows, two amounts meet one call and no early row, or one amount meets everything else;
vouchers on rows meet one call, one amount and no early row. The properties are checked on the
states just outside as well, and the theorems cover all of them together. One voucher
more or less is all that a count is compared with, so `MaxVouchers` is 1. Miscellaneous
fees meet only in batches and in settlements, and the theorems cover any number, so the run
has one fee (batches of several are shown by the proofs alone); a withdrawn or rejected request is followed by the second. Two price book
processes are what a recovered job and its first worker need, or an old and a new release;
one book is enough for what happens to a job, and the import that replaces it is the second
one.

Bounds by name: `MaxInFlight` (calls between check and write), `MaxStops`,
`MaxRequeues` (what would make the state infinite or liveness vacuous if unbounded),
`MaxVouchers`, `Amounts` (positive, as the pages ask for; `createReceivableAudit` itself does
not look, and a receivable of nothing or less can never be matched), `MaxCrashes`, `Deleted`
(the books a user may delete), the constraint `Small`, and the sets of ids. `Legacy` has at
most one match in the runs. `MaxAttempts` is 5 in the code. Deadlock is checked in
every run but `MiscFees`, where a void fee and an archived settlement really end. Symmetry is declared for ids only, never in a run with a liveness property.

Fairness of `NotificationEventsLive`: each process's round is weakly fair, because a
timer starts one every ten seconds and every statement ends in an answer or an error,
and time is weakly fair, because leases and back-offs are compared with the clock.
Nothing is assumed of attempts succeeding, of the administrator, or of stops.

Fairness of `PriceBooks` (`LiveSpec`): a worker's steps are weakly fair, each ends in an
answer or an error, success or failure being a free choice. `StartTurn` is among them: a
process schedules a turn at its start, again while jobs are pending, and whenever a page
asks for price books or their progress, which the price book page does every two seconds
while a book is pending or running (`PricingPage.tsx` 904-923). Without such a page open a
job left by a dead process waits for the next request, which is the assumption to know of
`BooksSettle`. Dead processes are restarted, and time passes.

### Properties

For water receipts: `ReceiptCapacity` and `FeeCapacity` (pending allocations never
exceed what is left), `ReceiptBooks` and `FeeBooks` (amounts are the sums of live
matches), `AccountConservation` and `LedgerFollowsReceipt` (the account is the sum of
the receipts' balances and the payments' rests; the ledger row shows the receipt),
`PendingCanBeApproved` (no reservation is stuck), `ApprovedHasOneMatch`,
`OpenAllocationsHaveRows` (no allocation loses its receivable), and as action properties
`ReversalReservesCapacity`, `OpenAllocationFreezesFee`, `ClosedRowsStayClosed`.

For notifications: `CursorLeavesNothingBehind`, `DeliveredIsNotified`,
`FailedCanBeRetried`, the action property `OutcomeStands`, the refinement `KeepsOutcomes`, and the liveness property `EveryEventComesToAnOutcome`.

For payables: `RowsFollowApplications` (rows, applications and payments agree, resets and
late writes included), `AppliedAsAudited` and `OrdinaryExposedWhenAudited` (an ordinary
payable can be paid just while its audit stands, at the audited amount, and nothing
touches it in an application), `SettledStayAudited` and the action property
`SettledKeepAmount` (what a profit settlement counted stays), and the refinement
`KeepsClaims`.

For miscellaneous fees: `HangBooks` (a fee is hung just while one request is open, an
approved one has a row of the fee's payable, a pending one can be approved),
`OrderCostsStand` (a confirmed cost on an order has the audit or confirmation behind it,
whatever the order pages did to it), `SettledAsAudited` (a counted fee stays live and audited
with the amounts counted; a finance line of amount 0 may be of any fee, see below).

For price books: `RowsOfOneRevision` (a book in use holds the rows of one parser, the one
whose revision it carries), `SpentJobsRebuilt` (a job whose unique key is spent has brought
its book to its revision), the action property `SettledJobsRest` (a job that came to an end
is not taken again), and the liveness property `BooksSettle` (a stale book comes to be
rebuilt, failed, unavailable or gone, and is shown so).

Every property has a mutant: a change of one definition, as a plausible bug would make
it, under which TLC finds the property violated. They stand beside the definitions they
change and are listed in `PROJECT.json`.

## What the counterexamples show

- `WaterReceiptsReverseAudit`: a receivable is audited; a call to reverse the audit finds
  no match and no request; a request is submitted and approved; the call then writes,
  on the audit status alone. The receivable is matched and unaudited, the state the call's
  own message forbids (R 12240).
- `NotificationEventsUnordered`: two business transactions insert audit rows 1 and 2; row
  2 commits first, a round handles it and moves the cursor to 2; row 1 commits and lies
  behind the cursor for ever. No processing row exists, so the operations page does not
  show it either.

- `PriceBooksRevision`: the new process finds a stale book and makes the job for the new
  revision; the old process, still running beside it, claims the job, rebuilds the book with
  its own parser, and sets the job to SUCCESS. The book stays behind, and since the job's
  unique key exists no later turn can make another: `PassOver` for ever. The documents say
  that raising the revision is all that is needed.
- `PriceBooksMixed`: a worker claims the refresh job of a book and is slow; after ten minutes
  the job is recovered, or the other release makes its own, and a second worker takes it.
  Both read the book's old source; the first commits; the second deletes the old source, which
  is gone, and commits its own. The book is CURRENT with the sources of two revisions, and
  only the next rebuild or import removes them. The documents promise a replacement.

Two legacy matches of one receipt and one receivable are another case with no run, since the
code that made them is no longer reachable. `unmatchWaterReceipt` may take both back in one
call: it reads the receivable before its loop (R 13346) and writes it once per match, each time
from the amount it has read, so one of the two amounts stays on the receivable (`TakeBack`).
With such matches `FeeBooks` is false, and after it the other properties of receivables; the
theorems about receivables have the premise `LegacyOncePerPair`, and no run has two of them.

One more thing is visible in `Payables` and has no run: when an early payable is edited or
audited while its row is in an application, `upsertPayablePaymentApplication` sets the row
back to PENDING, and withdrawing and paying both demand that all rows be APPLIED
(`RowsFollowApplications` is stated with that in mind).

Three more are visible in `MiscFees`. The row of a hung fee can never enter a payment
application: `ensurePendingPaymentReadyForFinance` (R 25114-25138) asks for the hang account
of the row's finance item, which such a row does not have, and throws. So the end of the
hanging, where a paid fee is archived (R 15185), is not reached, and the model has none.
Customer service may turn a business cost of an unaudited fee into a payable, which a finance
settlement then counts with amount 0. And replacing a shipment's agent voids the payable item
of an audited fee, which no finance settlement counts unless the fee is matched again.

## Proofs

TLAPS checks the theorems below for every value of the constants that satisfies the
modules' assumptions (`ConstantsOK`: the ids of matches, requests, receipts, receivables
and payments are finite sets, amounts are positive, limits are natural numbers). Every
invariant and every action property that the passing runs check has a theorem of its own;
so have the four refinements. Two premises that the code does not ensure appear in them:
`LegacyOncePerPair` (of the database at the start) and `~OverlappingReplacements`; a third,
`OrderedCommits`, is about the business transactions. What follows says which invariant carries them.

- `WaterReceiptsProofs`: first the lemmas about sums (the sum of a set of rows is a natural
  number; adding, removing or changing a row changes it by that row's amount), which carry
  every argument about money; then `TypeCorrect`: every transaction keeps every table
  typed. The step lemmas follow the groups of `Next` (receipts, matches, receivables,
  shipments); the two postings and their reversals have lemmas of their own.
- `BudgetProofs!BudgetCovered`: reserved and posted money never exceed the total of an
  item. With the two refinements this gives both capacity invariants again.
- `ReceiptBooksProofs`, the receipts, accounts and ledger, in two layers:
  - `ReceiptCapacityCorrect`, `ReceiptBooksCorrect` from `BooksInv`, which is `TypeOK`,
    `ReceiptsOK` and `AllocationsOK`. Neither property is inductive alone. A receipt that
    does not exist yet has amount 0, so nothing is reserved on it when it is created; an
    approved request has a live match of the same receipt and amount, so a reversal puts
    back exactly what it then reserves; no two approved requests share a match, so the
    reversal of one leaves the other's in place; live matches are positive, so an archived
    receipt that gets money back has some. Each action is a lemma: it says which of the two
    sums, reserved and matched, changes for which receipt and by how much, and the rest is
    arithmetic on one row.
  - `AccountsCorrect`, `LedgerCorrect`, `ClosedRowsCorrect` from `AccountsInv` on top of
    `BooksInv`. It adds that an entered receipt has an amount and an arrived one a customer,
    that a request is pending only on a receipt that can be matched, and that payments settle
    no more than they pay. With these an account changes by just what one receipt or one
    payment changes (`ShareMoves`, `PaymentStep`); the receipts of a customer are never
    credited before they arrive, and archiving an empty receipt changes nothing, since
    every receipt without a balance is archived already (`NothingLeft`). That is also why
    `archive`, which does not look at the status, never reopens a voided receipt: a voided
    receipt keeps its balance.
- `FeeBooksProofs`, the receivables, from `FeesInv` on top of both:
  - `FeesOK` is the books of a receivable and its capacity; `RowsOK` says that what counts
    refers to receivables with a row, that an approved request is for the receivable of its
    match and that a live match has an approved request or is one of the earlier release;
    `UnclaimedOnce` says that a receipt and a receivable have at most one match without a
    request. Without the last one the received amount would not be inductive: `TakeBack`
    reads a receivable once and writes it once per match, so two matches of one receivable
    in one call would lose one of the two. The code lets only matches without a request be
    taken back together, and only the earlier release left such matches; that it left at
    most one for each receipt and receivable is the premise `LegacyOncePerPair`. All theorems
    of the module but `ReceiptsAreBudgetsCorrect` have it.
  - Each action is shown to make one of four moves for every receivable (`FeeMoves`): it
    leaves what is received, moves between received and reserved, withdraws, or the
    receivable has nothing allocated to it. `FrozenFeesCorrect` and the refinement
    are read off these moves; so are those of `ReceiptsAreBudgetsCorrect` off `ReceiptMoves`.
  - `FeeCapacityCorrect`, `FeeBooksCorrect`, `ApprovedHasOneMatchCorrect`,
    `OpenAllocationsCorrect`, `PendingCanBeApprovedCorrect` follow from the invariants.
  - `ReversalReservesCorrect`: only a reversal makes an approved request pending
    (`OnlyReversalReopens`), and its amount goes from posted to reserved on both sides.
  - `ReceiptsAreBudgetsCorrect`, `FeesAreBudgetsCorrect`: the refinements of `Budget`.
- `NotificationEventsProofs`:
  - `TypeCorrect`, which contains that no row is claimed more than `MaxAttempts` times;
  - `RetriesCorrect`, `DeliveredCorrect`. Neither invariant is inductive alone. `RowsOK` adds that an unclaimed row has no attempts, so that a claim
    that is refused has met a claimed row; `JobsOK` says what a worker in the middle of an
    event relies on (its row has been claimed, and a result `PROCESSED` in hand means that
    the notification exists). Another worker cannot take that away, because
    `RowsOnlyGrow`: a row once registered, claimed or notified stays so through every step;
  - `CursorCorrect`: under `OrderedCommits` the cursor passes no unclaimed event. The
    invariant `CursorOK` says that whatever a worker has read, all events before it are
    claimed or still in its batch, and that it is at the first of the batch; reading a
    batch establishes this because the rows behind a key are committed before it;
  - `OutcomesStand`: the action property;
  - `KeepsOutcomesCorrect`: the refinement of `EventOutcomes`. Giving an event up is the
    step that needs more than `RowsOK` and `JobsOK`: a round decides it from a row read
    before. `GivingUpOK` says that while the claim that was read stands the event still has
    no attempt left, which holds because a row that is reopened has to be claimed again
    before it is processed, and a claim is a new one (`ClaimsOnlyGrow`).
- `PayablesProofs`, from `ConstantsOK` of `Payables` (early payables are payables, there is
  an amount):
  - `TypeCorrect`;
  - `RowsFollowCorrect`, `AppliedCorrect`, `ExposedCorrect` and `SettledAuditedCorrect`,
    the four invariants. `IInv` adds
    `ReviewedStands` (an audit that stands holds its payable locked and has made its row)
    and `CallsAgree`: at most one call has read rows under the lock, none of these rows is
    in an application, and the ordinary ones are as they were read. Ordinary rows that can
    be applied for belong to audited payables; a payable that is audited is neither edited
    nor audited again, and taking its audit back needs the lock, which the reading call
    has. That is why the amounts a call read under the lock are right when it writes;
  - `SettledAmounts`: `SettledKeepAmount` by the same invariant, since every entry leaves a
    reviewed payable as it is (`ReviewedKept`);
  - `ImplementsClaims`: the refinement. The one step that needs the invariant is
    `ApplyRows`, which must find its rows free and its application empty.

- `MiscFeesProofs`, from `ConstantsOK` of `MiscFees` (amounts are natural numbers, there is a
  fee), for any number of fees, requests and settlements:
  - `TypeCorrect`;
  - `HangBooksCorrect`, `OrderCostsCorrect`, `SettledCorrect`: the three invariants. Their
    conjunction is inductive as it stands. All steps but a direct payment, a reversal and a
    void only take a fee forward (`Advances`: it stays live, what is confirmed or audited
    stays so, and so do the amounts of a fee that is), and so keep what items and lines rely
    on; `HangFrame` carries the fees a step does not name. A reversal and a void are
    guarded by the absence of lines; a new line counts only live, audited fees, which for
    finance follows from `OrderCostsStand`, since finance counts the items on orders.

- `PriceBooksProofs`, from `ConstantsOK` of `PriceBooks` (revisions are numbers, there is a
  book and a process):
  - `TypeCorrect`;
  - `JobsRest`: `SettledJobsRest`. Recovery takes only running jobs, and every other write to a job is by a worker that is on it or that finds it
    PENDING;
  - `ContentsCorrect`: `RowsOfOneRevision` for any mixture of releases, under the premise
    `~OverlappingReplacements`. The invariant
    `WriterInv` says who writes a book when: a job exists only for a book with an original,
    an original only for a book whose import is done, and a worker at work is on a job; so
    import and worker never write one book together. `ContentsOf` says what the import has
    written at each of its steps, and `Alone` that while one worker replaces a book nobody
    else writes to it, so that its transaction misses nothing;
  - `SpentJobsOfOneRelease`: `SpentJobsRebuilt`, assuming that all processes run one
    revision, the assumption whose failure `PriceBooksRevision` shows. A worker about to
    write SUCCESS has written its revision to the book, and no import makes a book that has
    jobs.

Only model-checked: `EveryEventComesToAnOutcome` and `BooksSettle`, since liveness under
fairness is beyond the prover, and of course the refuted claims.

## What is left out

- Water receipts: second currencies (a receipt matched to a receivable in another
  currency by an exchange rate), duplicate accounts of one customer and deletion of
  customers, the guards of shipment status and of profit settlement on receivables,
  miscellaneous fees that void their linked receivable, and the deletion of reviewed
  shipments. Leaving out a guard only adds behaviours. Who may call a handler is open in
  every model.
- Locks inside a transaction are not modelled: PostgreSQL aborts one of two transactions
  that wait for each other, and an aborted transaction is a step that did not happen.
- Payables: payee bank accounts, the receipts and later edits of a payment, and the switch
  of a payable to a business cost by customer service.
- Miscellaneous fees: the import of the carrier's bills before a line is claimed, the history
  of matches, attachments, the sites and dates of a settlement's period, settlement lines
  of shipments and of finance items without a fee, and edits of an item's amount on the order pages.
- Price books: the import of Dubai workbooks with its rendering, remarks, the cache of
  markup routes, the lookups themselves, and the endpoints for a legacy source by itself.
- Notifications: texts, templates and the choice of recipients; announcements and
  deliveries; return-work tasks.
- The components with status `not_modelled` in `PROJECT.json`, each with its reason.

## Plan

In this order, most important first:

1. `ReturnWork`: tasks and their watermark, on top of the order in which
   `NotificationEvents` may handle a rejection and a resubmission.
2. `TallyTasks`: the task lifecycle, claims, the correction that is retried after a
   serialization failure.
3. `ShipmentLifecycle`: entry, review, receiving, routing, dispatch, reroute.
4. `CarrierTasks`; charge weight and rent as operators against reference definitions;
   `ReleaseLock`.

Proofs to come: the safety of each new module as it is written, on the model of the
present ones.

## Running it

    tlc -workers 2 -config WaterReceiptsCore.cfg MCWaterReceipts.tla
    tlc -workers 2 -config NotificationEvents.cfg MCNotificationEvents.tla
    tlapm FeeBooksProofs.tla

The configurations named `WaterReceipts*` belong to `MCWaterReceipts`, those named
`NotificationEvents*` to `MCNotificationEvents`, and so on.
