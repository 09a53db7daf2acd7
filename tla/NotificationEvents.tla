------------------------- MODULE NotificationEvents -------------------------
(***************************************************************************)
(* The worker that turns audit rows into notifications                     *)
(* (apps/api/src/modules/notifications/notification.service.ts).  Every    *)
(* API process runs one: a round reads the rows behind a shared cursor,    *)
(* claims each, notifies, settles the claim and moves the cursor; then it  *)
(* tries again what failed or was left behind.  Each step is one statement *)
(* against the database; the processes interleave between them.            *)
(*                                                                         *)
(* Audit rows are numbered by their key (createdAt, id).  Whom a row       *)
(* notifies depends on tables that change, so an attempt may find          *)
(* recipients, none, nothing to say, or fail.                              *)
(***************************************************************************)
EXTENDS Integers, FiniteSets

CONSTANTS
    LastEvent,       \* number of audit rows
    Workers,         \* API processes
    MaxAttempts,     \* maxProcessingAttempts
    BatchSize,       \* audit rows a round reads
    OrderedCommits,  \* audit rows become visible in the order of their keys
    MaxStops,        \* bound on rounds that end early
    MaxRequeues      \* bound on retries asked for by an administrator

ASSUME ConstantsOK ==
    /\ LastEvent \in Nat
    /\ MaxAttempts \in Nat \ {0}
    /\ BatchSize \in Nat \ {0}
    /\ OrderedCommits \in BOOLEAN
    /\ MaxStops \in Nat /\ MaxRequeues \in Nat

Events == 1..LastEvent

VARIABLES
    committed,  \* the audit rows that other transactions have committed
    cursor,     \* NotificationEventCursor
    row,        \* NotificationEventProcessing, by audit row
    notices,    \* how many Notification rows there are for an audit row
    pc,         \* where each worker's round is
    from,       \* the cursor the round read
    batch,      \* the audit rows the round has left
    retries,    \* the processing rows the round has left to try again
    job,        \* the audit row being processed
    claim,      \* the lock token of the claim on it
    result,     \* what the attempt came to
    stops, requeues

db    == <<cursor, row, notices>>
local == <<from, batch, retries, job, claim, result>>
vars  == <<committed, db, pc, local, stops, requeues>>

Finished == {"PROCESSED", "SKIPPED", "NO_RECIPIENT", "DEAD_LETTER"}

\* claims counts the claims there have been: the lock token of the last one.
\* timer says whether nextRetryAt has come or the lease is five minutes old.
ProcessingRow == [
    status   : {"ABSENT", "PENDING", "PROCESSING", "FAILED"} \cup Finished,
    attempts : 0..MaxAttempts,
    claims   : Nat,
    timer    : {"running", "up"}]

NoRow == [status |-> "ABSENT", attempts |-> 0, claims |-> 0, timer |-> "running"]

\* Where a worker is busy with one event.
AtEvent == {"claim", "decide", "send", "settle", "advance"}

Retry == [event : Events, claims : Nat, plan : {"try again", "give up"}]

Init ==
    /\ committed = {}
    /\ cursor = 0
    /\ row = [e \in Events |-> NoRow]
    /\ notices = [e \in Events |-> 0]
    /\ pc = [w \in Workers |-> "idle"]
    /\ from = [w \in Workers |-> 0]
    /\ batch = [w \in Workers |-> {}]
    /\ retries = [w \in Workers |-> {}]
    /\ job = [w \in Workers |-> 0]
    /\ claim = [w \in Workers |-> 0]
    /\ result = [w \in Workers |-> "error"]
    /\ stops = 0
    /\ requeues = 0

-----------------------------------------------------------------------------
(* The rest of the system.                                                 *)

\* A business transaction commits with its audit row.
Commit(e) ==
    /\ e \notin committed
    /\ OrderedCommits => 1..(e - 1) \subseteq committed
    /\ committed' = committed \cup {e}
    /\ UNCHANGED <<db, pc, local, stops, requeues>>

\* A lease grows old, or the time of a retry comes.
TimePasses(e) ==
    /\ row[e].status \in {"PROCESSING", "FAILED"} /\ row[e].timer = "running"
    /\ row' = [row EXCEPT ![e].timer = "up"]
    /\ UNCHANGED <<committed, cursor, notices, pc, local, stops, requeues>>

\* retryOperation
Requeue(e) ==
    /\ requeues < MaxRequeues
    /\ row[e].status \in {"FAILED", "DEAD_LETTER"}
    /\ row' = [row EXCEPT ![e].status = "FAILED", ![e].attempts = 0, ![e].timer = "up"]
    /\ requeues' = requeues + 1
    /\ UNCHANGED <<committed, cursor, notices, pc, local, stops>>

-----------------------------------------------------------------------------
(* A round.                                                                *)

Goto(w, label) == pc' = [pc EXCEPT ![w] = label]

ReadCursor(w) ==
    /\ pc[w] = "idle"
    /\ from' = [from EXCEPT ![w] = cursor]
    /\ Goto(w, "read")
    /\ UNCHANGED <<committed, db, batch, retries, job, claim, result, stops, requeues>>

\* The first rows behind the cursor.
ReadEvents(w) ==
    LET behind == {e \in committed : e > from[w]} IN
    /\ pc[w] = "read"
    /\ \E B \in SUBSET behind :
          /\ Cardinality(B) <= BatchSize
          /\ B # behind => Cardinality(B) = BatchSize
          /\ \A b \in B, e \in behind \ B : b < e
          /\ batch' = [batch EXCEPT ![w] = B]
    /\ from' = [from EXCEPT ![w] = 0]
    /\ Goto(w, "batch")
    /\ UNCHANGED <<committed, db, retries, job, claim, result, stops, requeues>>

\* claimAuditEvent makes sure that there is a processing row ...
Register(w, e) ==
    /\ row' = [row EXCEPT ![e].status = IF @ = "ABSENT" THEN "PENDING" ELSE @]
    /\ job' = [job EXCEPT ![w] = e]
    /\ Goto(w, "claim")
    /\ UNCHANGED <<committed, cursor, notices, from, batch, claim, result, stops, requeues>>

NextEvent(w) ==
    /\ pc[w] = "batch"
    /\ \E e \in batch[w] :
          /\ \A other \in batch[w] : e <= other
          /\ Register(w, e)
    /\ UNCHANGED retries

\* Mutant: the number of attempts is not looked at.
ClaimableForever(e) ==
    \/ row[e].status = "PENDING"
    \/ row[e].status \in {"FAILED", "PROCESSING"} /\ row[e].timer = "up"

Claimable(e) ==
    /\ row[e].attempts < MaxAttempts
    /\ \/ row[e].status = "PENDING"
       \/ row[e].status \in {"FAILED", "PROCESSING"} /\ row[e].timer = "up"

\* Where a worker goes on once an event is dealt with: only an event of the
\* batch moves the cursor.
AfterEvent(w) == IF batch[w] # {} THEN "advance" ELSE "retries"

\* ... and claims it with one conditional update.
Claim(w) ==
    LET e == job[w] IN
    /\ pc[w] = "claim"
    /\ IF Claimable(e)
       THEN /\ row' = [row EXCEPT ![e] = [status   |-> "PROCESSING",
                                          attempts |-> @.attempts + 1,
                                          claims   |-> @.claims + 1,
                                          timer    |-> "running"]]
            /\ claim' = [claim EXCEPT ![w] = row[e].claims + 1]
            /\ Goto(w, "decide")
       ELSE /\ Goto(w, AfterEvent(w))
            /\ UNCHANGED <<row, claim>>
    /\ UNCHANGED <<committed, cursor, notices, from, batch, retries, job, result, stops, requeues>>

\* processAuditEvent looks for the notification of an earlier attempt, then
\* for recipients.
Decide(w) ==
    /\ pc[w] = "decide"
    /\ \/ /\ notices[job[w]] > 0
          /\ result' = [result EXCEPT ![w] = "PROCESSED"]
          /\ Goto(w, "settle")
       \/ /\ notices[job[w]] = 0
          /\ \E r \in {"SKIPPED", "NO_RECIPIENT", "error"} :
                result' = [result EXCEPT ![w] = r]
          /\ Goto(w, "settle")
       \/ /\ notices[job[w]] = 0
          /\ Goto(w, "send")
          /\ UNCHANGED result
    /\ UNCHANGED <<committed, db, from, batch, retries, job, claim, stops, requeues>>

\* The notification and its deliveries are created in one transaction; the
\* unique dedupe key refuses a second one.
Notify(e) == notices' = [notices EXCEPT ![e] = 1]

\* Mutant: a transaction that fails is taken for one that another attempt won.
SendIgnoringErrors(w) ==
    /\ pc[w] = "send"
    /\ Notify(job[w]) \/ UNCHANGED notices
    /\ result' = [result EXCEPT ![w] = "PROCESSED"]
    /\ Goto(w, "settle")
    /\ UNCHANGED <<committed, cursor, row, from, batch, retries, job, claim, stops, requeues>>

\* The transaction commits, or finds that another attempt has notified; or it
\* fails, or its answer is lost.
Send(w) ==
    LET e == job[w] IN
    /\ pc[w] = "send"
    /\ \/ /\ Notify(e)
          /\ \E r \in {"PROCESSED", "error"} : result' = [result EXCEPT ![w] = r]
       \/ /\ result' = [result EXCEPT ![w] = "error"]
          /\ UNCHANGED notices
    /\ Goto(w, "settle")
    /\ UNCHANGED <<committed, cursor, row, from, batch, retries, job, claim, stops, requeues>>

\* Mutant: the last attempt leaves a failure.
OutcomeOneMore(entry, r) ==
    [entry EXCEPT !.status = IF r # "error" THEN r
                             ELSE IF entry.attempts > MaxAttempts THEN "DEAD_LETTER"
                             ELSE "FAILED",
                  !.timer = "running"]

\* The processing row after an attempt.
Outcome(entry, r) ==
    [entry EXCEPT !.status = IF r # "error" THEN r
                             ELSE IF entry.attempts >= MaxAttempts THEN "DEAD_LETTER"
                             ELSE "FAILED",
                  !.timer = "running"]

\* Mutant: the result is stored whoever holds the claim.
SettleAnyway(w) ==
    /\ pc[w] = "settle"
    /\ \E r \in {result[w], "error"} : row' = [row EXCEPT ![job[w]] = Outcome(@, r)]
    /\ claim' = [claim EXCEPT ![w] = 0]
    /\ result' = [result EXCEPT ![w] = "error"]
    /\ Goto(w, AfterEvent(w))
    /\ UNCHANGED <<committed, cursor, notices, from, batch, retries, job, stops, requeues>>

\* The result is stored if the claim still stands; if that statement fails,
\* the attempt has failed.
Settle(w) ==
    LET e == job[w] IN
    /\ pc[w] = "settle"
    /\ \E r \in {result[w], "error"} :
          row' = IF row[e].status = "PROCESSING" /\ row[e].claims = claim[w]
                 THEN [row EXCEPT ![e] = Outcome(@, r)]
                 ELSE row
    /\ claim' = [claim EXCEPT ![w] = 0]
    /\ result' = [result EXCEPT ![w] = "error"]
    /\ Goto(w, AfterEvent(w))
    /\ UNCHANGED <<committed, cursor, notices, from, batch, retries, job, stops, requeues>>

\* Mutant: the cursor jumps to the end of the batch.
AdvanceToBatchEnd(w) ==
    /\ pc[w] = "advance"
    /\ \E last \in batch[w] :
          /\ \A e \in batch[w] : e <= last
          /\ cursor' = IF cursor < last THEN last ELSE cursor
    /\ batch' = [batch EXCEPT ![w] = @ \ {job[w]}]
    /\ Goto(w, "batch")
    /\ UNCHANGED <<committed, row, notices, from, retries, job, claim, result, stops, requeues>>

Advance(w) ==
    /\ pc[w] = "advance"
    /\ cursor' = IF cursor < job[w] THEN job[w] ELSE cursor
    /\ batch' = [batch EXCEPT ![w] = @ \ {job[w]}]
    /\ Goto(w, "batch")
    /\ UNCHANGED <<committed, row, notices, from, retries, job, claim, result, stops, requeues>>

\* Mutant: claims that were left behind are not picked up.
RetriableFailed(e) ==
    row[e].timer = "up" /\ row[e].status = "FAILED" /\ row[e].attempts < MaxAttempts

\* Failed rows that are due, and claims whose lease has run out.
Retriable(e) ==
    /\ row[e].timer = "up"
    /\ \/ row[e].status = "FAILED" /\ row[e].attempts < MaxAttempts
       \/ row[e].status = "PROCESSING"

ReadRetries(w) ==
    /\ pc[w] = "batch" /\ batch[w] = {}
    /\ retries' = [retries EXCEPT ![w] =
           {[event |-> e, claims |-> row[e].claims,
             plan |-> IF row[e].status = "PROCESSING" /\ row[e].attempts >= MaxAttempts
                      THEN "give up" ELSE "try again"] :
                e \in {x \in Events : Retriable(x)}}]
    /\ Goto(w, "retries")
    /\ UNCHANGED <<committed, db, from, batch, job, claim, result, stops, requeues>>

TryAgain(w, x) ==
    /\ pc[w] = "retries" /\ x \in retries[w]
    /\ x.plan = "try again"
    /\ Register(w, x.event)
    /\ retries' = [retries EXCEPT ![w] = @ \ {x}]

\* Mutant: the claim that was read is not compared with the one that stands.
GiveUpAnyClaim(w, x) ==
    /\ pc[w] = "retries" /\ x \in retries[w]
    /\ x.plan = "give up"
    /\ row' = IF row[x.event].status = "PROCESSING"
              THEN [row EXCEPT ![x.event].status = "DEAD_LETTER", ![x.event].timer = "running"]
              ELSE row
    /\ retries' = [retries EXCEPT ![w] = @ \ {x}]
    /\ UNCHANGED <<committed, cursor, notices, pc, from, batch, job, claim, result, stops, requeues>>

\* The lease of the last attempt ran out.
GiveUp(w, x) ==
    /\ pc[w] = "retries" /\ x \in retries[w]
    /\ x.plan = "give up"
    /\ row' = IF row[x.event].status = "PROCESSING" /\ row[x.event].claims = x.claims
              THEN [row EXCEPT ![x.event].status = "DEAD_LETTER", ![x.event].timer = "running"]
              ELSE row
    /\ retries' = [retries EXCEPT ![w] = @ \ {x}]
    /\ UNCHANGED <<committed, cursor, notices, pc, from, batch, job, claim, result, stops, requeues>>

EndRound(w) ==
    /\ pc[w] = "retries" /\ retries[w] = {}
    /\ job' = [job EXCEPT ![w] = 0]
    /\ Goto(w, "idle")
    /\ UNCHANGED <<committed, db, from, batch, retries, claim, result, stops, requeues>>

\* A statement outside the attempt fails and ends the round, or the process
\* stops and is started again.
Stop(w) ==
    /\ stops < MaxStops
    /\ pc[w] # "idle"
    /\ stops' = stops + 1
    /\ Goto(w, "idle")
    /\ from' = [from EXCEPT ![w] = 0]
    /\ batch' = [batch EXCEPT ![w] = {}]
    /\ retries' = [retries EXCEPT ![w] = {}]
    /\ job' = [job EXCEPT ![w] = 0]
    /\ claim' = [claim EXCEPT ![w] = 0]
    /\ result' = [result EXCEPT ![w] = "error"]
    /\ UNCHANGED <<committed, db, requeues>>

-----------------------------------------------------------------------------
Round(w) ==
    \/ ReadCursor(w) \/ ReadEvents(w) \/ NextEvent(w) \/ Claim(w) \/ Decide(w)
    \/ Send(w) \/ Settle(w) \/ Advance(w) \/ ReadRetries(w) \/ EndRound(w)
    \/ \E x \in retries[w] : TryAgain(w, x) \/ GiveUp(w, x)

Next ==
    \/ \E e \in Events : Commit(e) \/ TimePasses(e) \/ Requeue(e)
    \/ \E w \in Workers : Round(w) \/ Stop(w)

Spec == Init /\ [][Next]_vars

\* A timer starts a round every ten seconds and every statement of a round
\* ends; leases and back-offs are measured against the clock.
Fairness ==
    /\ \A w \in Workers : WF_vars(Round(w))
    /\ \A e \in Events : WF_vars(TimePasses(e))

FairSpec == Spec /\ Fairness

-----------------------------------------------------------------------------
(* Properties.                                                             *)

\* Every column is in its domain; no row is claimed more than MaxAttempts
\* times without an administrator.
TypeOK ==
    /\ committed \subseteq Events
    /\ cursor \in 0..LastEvent
    /\ row \in [Events -> ProcessingRow]
    /\ notices \in [Events -> Nat]
    /\ pc \in [Workers -> {"idle", "read", "batch", "claim", "decide", "send",
                           "settle", "advance", "retries"}]
    /\ from \in [Workers -> 0..LastEvent]
    /\ batch \in [Workers -> SUBSET Events]
    /\ retries \in [Workers -> SUBSET Retry]
    /\ job \in [Workers -> 0..LastEvent]
    /\ \A w \in Workers : pc[w] \in AtEvent => job[w] # 0
    /\ claim \in [Workers -> Nat]
    /\ result \in [Workers -> {"error"} \cup Finished]
    /\ stops \in Nat /\ requeues \in Nat

\* The cursor leaves nothing behind: every audit row up to it has been claimed
\* by somebody, so that the retries of later rounds find it.
CursorLeavesNothingBehind ==
    \A e \in 1..cursor : row[e].status \notin {"ABSENT", "PENDING"}

\* An event is recorded as delivered only if its notification exists.
DeliveredIsNotified ==
    \A e \in Events : row[e].status = "PROCESSED" => notices[e] > 0

\* A failed row is one that a later round will still try again: the last
\* attempt ends in a dead letter, never in a failure nobody picks up.
FailedCanBeRetried ==
    \A e \in Events : row[e].status = "FAILED" => row[e].attempts < MaxAttempts

\* A recorded outcome stands: an attempt that outlived its lease does not
\* overwrite it, and only an administrator takes a dead letter back.
OutcomeStands ==
    [][\A e \in Events : row[e].status \in Finished =>
          \/ row'[e] = row[e]
          \/ row[e].status = "DEAD_LETTER" /\ requeues' > requeues]_vars

\* Every event of a committed transaction comes to an outcome, in spite of
\* processes that stop, failed attempts and retries, if the audit rows
\* become visible in order.
EveryEventComesToAnOutcome ==
    \A e \in Events : e \in committed ~> [](row[e].status \in Finished)

-----------------------------------------------------------------------------
(* Refinement.                                                             *)

\* What a processing row says of its event's outcome.
StateOf(status) ==
    IF status \in {"ABSENT", "PENDING"} THEN "new"
    ELSE IF status \in {"PROCESSING", "FAILED"} THEN "open" ELSE status

Outcomes == INSTANCE EventOutcomes WITH
    Events   <- Events,
    state    <- [e \in Events |-> StateOf(row[e].status)],
    attempts <- [e \in Events |-> row[e].attempts],
    notices  <- notices

\* The processes together keep what EventOutcomes promises of each event: no
\* attempt that lost its lease notifies again or overwrites an outcome, and
\* none is given up while an attempt is left, not even by a process that read
\* the row before an administrator gave the event new attempts.
KeepsOutcomes == Outcomes!Spec
=============================================================================
