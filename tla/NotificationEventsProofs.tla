---------------------- MODULE NotificationEventsProofs ----------------------
(***************************************************************************)
(* Proofs about NotificationEvents, for any number of processes and of     *)
(* audit rows: type correctness, what a processing row says of its event,  *)
(* and that the cursor leaves no event behind.                             *)
(***************************************************************************)
EXTENDS NotificationEvents, TLAPS

LEMMA EventsAreKeys == Events = 0..LastEvent \ {0} /\ 0 \in 0..LastEvent
  BY ConstantsOK DEF ConstantsOK, Events

\* What each update of a processing row leaves is a processing row.
LEMMA RowUpdates ==
    ASSUME NEW r \in ProcessingRow
    PROVE  /\ [r EXCEPT !.timer = "up"] \in ProcessingRow
           /\ [r EXCEPT !.status = "FAILED", !.attempts = 0, !.timer = "up"] \in ProcessingRow
           /\ [r EXCEPT !.status = IF @ = "ABSENT" THEN "PENDING" ELSE @] \in ProcessingRow
           /\ [r EXCEPT !.status = "DEAD_LETTER", !.timer = "running"] \in ProcessingRow
           /\ r.attempts < MaxAttempts =>
                 [status |-> "PROCESSING", attempts |-> r.attempts + 1,
                  claims |-> r.claims + 1, timer |-> "running"] \in ProcessingRow
           /\ \A x \in {"error"} \cup Finished : Outcome(r, x) \in ProcessingRow
<1>1. 0 \in 0..MaxAttempts
  BY ConstantsOK DEF ConstantsOK
<1>2. [r EXCEPT !.status = "FAILED", !.attempts = 0, !.timer = "up"] \in ProcessingRow
  BY <1>1 DEF ProcessingRow
<1>3. r.attempts < MaxAttempts =>
         [status |-> "PROCESSING", attempts |-> r.attempts + 1,
          claims |-> r.claims + 1, timer |-> "running"] \in ProcessingRow
  BY ConstantsOK DEF ConstantsOK, ProcessingRow
<1>4. [r EXCEPT !.status = "DEAD_LETTER", !.timer = "running"] \in ProcessingRow
  BY DEF ProcessingRow, Finished
<1>5. ASSUME NEW x \in {"error"} \cup Finished PROVE Outcome(r, x) \in ProcessingRow
  BY DEF Outcome, ProcessingRow, Finished
<1>6. QED
  BY <1>2, <1>3, <1>4, <1>5 DEF ProcessingRow

LEMMA InitType == Init => TypeOK
<1> SUFFICES ASSUME Init PROVE TypeOK
  OBVIOUS
<1>1. NoRow \in ProcessingRow
  BY ConstantsOK DEF ConstantsOK, NoRow, ProcessingRow
<1>2. QED
  BY <1>1, EventsAreKeys DEF Init, TypeOK, AtEvent

LEMMA RegisterType ==
    ASSUME TypeOK, NEW w \in Workers, NEW e \in Events, Register(w, e),
           retries' \in [Workers -> SUBSET Retry]
    PROVE  TypeOK'
<1>1. row' \in [Events -> ProcessingRow]
  BY RowUpdates DEF Register, TypeOK
<1>2. job' \in [Workers -> 0..LastEvent]
  BY EventsAreKeys DEF Register, TypeOK
<1>3. QED
  BY <1>1, <1>2, EventsAreKeys DEF Register, Goto, AtEvent, TypeOK

\* A step of a round keeps the types.
LEMMA RoundType == ASSUME TypeOK, NEW w \in Workers, Round(w) PROVE TypeOK'
<1>1. CASE ReadCursor(w)
  BY <1>1 DEF ReadCursor, Goto, AtEvent, TypeOK, db
<1>2. CASE ReadEvents(w)
  BY <1>2, EventsAreKeys DEF ReadEvents, Goto, AtEvent, TypeOK, db
<1>3. CASE NextEvent(w)
  BY <1>3, RegisterType DEF NextEvent, TypeOK
<1>4. CASE Claim(w)
  <2>0. job[w] \in Events /\ row[job[w]] \in ProcessingRow
    BY <1>4, EventsAreKeys DEF Claim, TypeOK, AtEvent
  <2>1. row' \in [Events -> ProcessingRow] /\ claim' \in [Workers -> Nat]
    <3>1. CASE Claimable(job[w])
      <4>1. row[job[w]].claims + 1 \in Nat
        BY <2>0 DEF ProcessingRow
      <4>2. [status |-> "PROCESSING", attempts |-> row[job[w]].attempts + 1,
             claims |-> row[job[w]].claims + 1, timer |-> "running"] \in ProcessingRow
        BY <2>0, <3>1, RowUpdates DEF Claimable
      <4>3. QED
        BY <1>4, <2>0, <3>1, <4>1, <4>2 DEF Claim, TypeOK
    <3>2. CASE ~ Claimable(job[w])
      BY <1>4, <3>2 DEF Claim, TypeOK
    <3>3. QED
      BY <3>1, <3>2
  <2>2. QED
    BY <1>4, <2>1 DEF Claim, Goto, AtEvent, AfterEvent, TypeOK
<1>5. CASE Decide(w)
  BY <1>5 DEF Decide, Goto, AtEvent, TypeOK, db, Finished
<1>6. CASE Send(w)
  BY <1>6 DEF Send, Notify, Goto, AtEvent, TypeOK, Finished
<1>7. CASE Settle(w)
  <2>1. PICK r \in {result[w], "error"} :
           row' = row \/ row' = [row EXCEPT ![job[w]] = Outcome(@, r)]
    BY <1>7 DEF Settle
  <2>2. r \in {"error"} \cup Finished
    BY DEF TypeOK
  <2>3. \A e \in Events : Outcome(row[e], r) \in ProcessingRow
    BY <2>2, RowUpdates DEF TypeOK
  <2>4. row' \in [Events -> ProcessingRow]
    BY <2>1, <2>3 DEF TypeOK
  <2>5. QED
    BY <1>7, <2>4 DEF Settle, Goto, AtEvent, AfterEvent, TypeOK
<1>8. CASE Advance(w)
  BY <1>8 DEF Advance, Goto, AtEvent, TypeOK
<1>9. CASE ReadRetries(w)
  <2>1. \A e \in Events : row[e].claims \in Nat
    BY DEF TypeOK, ProcessingRow
  <2>2. ASSUME NEW e \in Events, NEW p \in {"try again", "give up"}
        PROVE  [event |-> e, claims |-> row[e].claims, plan |-> p] \in Retry
    BY <2>1 DEF Retry
  <2>3. \A e \in Events :
           [event |-> e, claims |-> row[e].claims,
            plan |-> IF row[e].status = "PROCESSING" /\ row[e].attempts >= MaxAttempts
                     THEN "give up" ELSE "try again"] \in Retry
    BY <2>2
  <2>4. retries' \in [Workers -> SUBSET Retry]
    BY <1>9, <2>3 DEF ReadRetries, TypeOK
  <2>5. QED
    BY <1>9, <2>4 DEF ReadRetries, Goto, AtEvent, TypeOK, db
<1>10. CASE EndRound(w)
  BY <1>10, EventsAreKeys DEF EndRound, Goto, AtEvent, TypeOK, db
<1>11. ASSUME NEW x \in retries[w], TryAgain(w, x) PROVE TypeOK'
  <2>0. x \in Retry
    BY DEF TypeOK
  <2>1. x.event \in Events
    BY <2>0 DEF Retry
  <2>2. retries' \in [Workers -> SUBSET Retry]
    BY <1>11 DEF TryAgain, TypeOK
  <2>3. QED
    BY <1>11, <2>1, <2>2, RegisterType DEF TryAgain
<1>12. ASSUME NEW x \in retries[w], GiveUp(w, x) PROVE TypeOK'
  <2>1. row' \in [Events -> ProcessingRow]
    BY <1>12, RowUpdates DEF GiveUp, TypeOK
  <2>2. retries' \in [Workers -> SUBSET Retry]
    BY <1>12 DEF GiveUp, TypeOK
  <2>3. QED
    BY <1>12, <2>1, <2>2 DEF GiveUp, TypeOK
<1>13. QED
  BY <1>1, <1>2, <1>3, <1>4, <1>5, <1>6, <1>7, <1>8, <1>9, <1>10, <1>11, <1>12 DEF Round

LEMMA NextType == TypeOK /\ [Next]_vars => TypeOK'
<1> SUFFICES ASSUME TypeOK, [Next]_vars PROVE TypeOK'
  OBVIOUS
<1>1. ASSUME NEW e \in Events, Commit(e) PROVE TypeOK'
  BY <1>1 DEF Commit, TypeOK, db, local
<1>2. ASSUME NEW e \in Events, TimePasses(e) PROVE TypeOK'
  <2>1. row' \in [Events -> ProcessingRow]
    BY <1>2, RowUpdates DEF TimePasses, TypeOK
  <2>2. QED
    BY <1>2, <2>1 DEF TimePasses, TypeOK, local
<1>3. ASSUME NEW e \in Events, Requeue(e) PROVE TypeOK'
  <2>1. row' \in [Events -> ProcessingRow]
    BY <1>3, RowUpdates DEF Requeue, TypeOK
  <2>2. QED
    BY <1>3, <2>1 DEF Requeue, TypeOK, local
<1>4. ASSUME NEW w \in Workers, Round(w) PROVE TypeOK'
  BY <1>4, RoundType
<1>5. ASSUME NEW w \in Workers, Stop(w) PROVE TypeOK'
  BY <1>5, EventsAreKeys DEF Stop, Goto, AtEvent, TypeOK, db
<1>6. CASE UNCHANGED vars
  BY <1>6 DEF vars, db, local, TypeOK
<1>7. QED
  BY <1>1, <1>2, <1>3, <1>4, <1>5, <1>6 DEF Next

\* Every step of every process, and every stop, keeps the processing rows, the
\* cursor and the workers' variables in their domains: in particular no row is
\* claimed a time more than maxProcessingAttempts allows.
THEOREM TypeCorrect == Spec => []TypeOK
<1>1. QED
  BY InitType, NextType, PTL DEF Spec
-----------------------------------------------------------------------------
(* What a processing row says of its event.                                *)

Claimed(e) == row[e].status \notin {"ABSENT", "PENDING"}

\* A row is claimable until it has been claimed, and is then never again
\* taken for new.
RowsOK == \A e \in Events :
    /\ ~ Claimed(e) => row[e].attempts = 0
    /\ row[e].status = "FAILED" => row[e].attempts < MaxAttempts
    /\ row[e].status = "PROCESSED" => notices[e] > 0
    /\ notices[e] <= 1

\* What a worker in the middle of an event may rely on.
JobsOK == \A w \in Workers :
    /\ pc[w] = "claim" => row[job[w]].status # "ABSENT"
    /\ pc[w] \in AtEvent \ {"claim"} => Claimed(job[w])
    /\ pc[w] = "settle" /\ result[w] = "PROCESSED" => notices[job[w]] > 0

\* The rows that a step leaves claimed, registered and notified stay so.
LEMMA RowsOnlyGrow ==
    ASSUME TypeOK, [Next]_vars, NEW e \in Events
    PROVE  /\ row[e].status # "ABSENT" => row'[e].status # "ABSENT"
           /\ Claimed(e) => Claimed(e)'
           /\ notices[e] > 0 => notices'[e] > 0
<1> DEFINE Grown == /\ row[e].status # "ABSENT" => row'[e].status # "ABSENT"
                    /\ Claimed(e) => Claimed(e)'
                    /\ notices[e] > 0 => notices'[e] > 0
<1>1. ASSUME NEW d \in Events, Commit(d) \/ TimePasses(d) \/ Requeue(d) PROVE Grown
  <2>1. CASE Commit(d)
    BY <2>1 DEF Commit, Claimed, db
  <2>2. CASE TimePasses(d)
    BY <2>2 DEF TimePasses, Claimed, TypeOK, ProcessingRow
  <2>3. CASE Requeue(d)
    BY <2>3 DEF Requeue, Claimed, TypeOK, ProcessingRow
  <2>4. QED
    BY <1>1, <2>1, <2>2, <2>3
<1>2. ASSUME NEW w \in Workers, NEW d \in Events, Register(w, d) PROVE Grown
  BY <1>2 DEF Register, Claimed, TypeOK, ProcessingRow
<1>3. ASSUME NEW w \in Workers, Claim(w) PROVE Grown
  BY <1>3 DEF Claim, Claimed, TypeOK, ProcessingRow
<1>4. ASSUME NEW w \in Workers, Settle(w) PROVE Grown
  <2>1. \A r \in {result[w], "error"} :
           Outcome(row[e], r).status \notin {"ABSENT", "PENDING"}
    BY <1>4 DEF Outcome, Finished, TypeOK, ProcessingRow
  <2>2. QED
    BY <1>4, <2>1 DEF Settle, Claimed, TypeOK
<1>5. ASSUME NEW w \in Workers, NEW x \in retries[w], GiveUp(w, x) PROVE Grown
  BY <1>5 DEF GiveUp, Claimed, TypeOK, ProcessingRow
<1>6. ASSUME NEW w \in Workers, Send(w) PROVE Grown
  BY <1>6 DEF Send, Notify, Claimed, TypeOK
<1>7. ASSUME NEW w \in Workers,
             \/ ReadCursor(w) \/ ReadEvents(w) \/ Decide(w) \/ Advance(w)
             \/ ReadRetries(w) \/ EndRound(w) \/ Stop(w)
      PROVE  Grown
  BY <1>7 DEF ReadCursor, ReadEvents, Decide, Advance, ReadRetries, EndRound, Stop, Claimed, db
<1>8. ASSUME NEW w \in Workers, NEW x \in retries[w], TryAgain(w, x) PROVE Grown
  <2>1. x \in Retry
    BY DEF TypeOK
  <2>2. x.event \in Events
    BY <2>1 DEF Retry
  <2>3. QED
    BY <1>2, <1>8, <2>2 DEF TryAgain
<1>9. ASSUME NEW w \in Workers, NextEvent(w) PROVE Grown
  BY <1>2, <1>9 DEF NextEvent, TypeOK
<1>10. CASE UNCHANGED vars
  BY <1>10 DEF vars, db, Claimed
<1>11. QED
  BY <1>1, <1>3, <1>4, <1>5, <1>6, <1>7, <1>8, <1>9, <1>10 DEF Next, Round

LEMMA RowsInit == Init => RowsOK /\ JobsOK
BY DEF Init, RowsOK, JobsOK, Claimed, NoRow, AtEvent

\* A step keeps what the rows say.
LEMMA RowsStep ==
    ASSUME TypeOK, RowsOK, JobsOK, [Next]_vars
    PROVE  RowsOK'
<1> DEFINE Good(e) == /\ ~ Claimed(e) => row[e].attempts = 0
                      /\ row[e].status = "FAILED" => row[e].attempts < MaxAttempts
                      /\ row[e].status = "PROCESSED" => notices[e] > 0
                      /\ notices[e] <= 1
<1> SUFFICES ASSUME NEW e \in Events PROVE Good(e)'
  BY DEF RowsOK
<1>0. Good(e) /\ row[e] \in ProcessingRow /\ notices[e] \in Nat
  BY DEF RowsOK, TypeOK
<1>1. ASSUME NEW d \in Events, Commit(d) \/ TimePasses(d) \/ Requeue(d) PROVE Good(e)'
  <2>1. CASE Commit(d)
    BY <1>0, <2>1 DEF Commit, Claimed, db
  <2>2. CASE TimePasses(d)
    BY <1>0, <2>2 DEF TimePasses, Claimed, TypeOK, ProcessingRow
  <2>3. CASE Requeue(d)
    BY <1>0, <2>3, ConstantsOK DEF Requeue, Claimed, TypeOK, ProcessingRow, ConstantsOK
  <2>4. QED
    BY <1>1, <2>1, <2>2, <2>3
<1>2. ASSUME NEW w \in Workers, NEW d \in Events, Register(w, d) PROVE Good(e)'
  BY <1>0, <1>2 DEF Register, Claimed, TypeOK, ProcessingRow
<1>3. ASSUME NEW w \in Workers, Claim(w) PROVE Good(e)'
  BY <1>0, <1>3 DEF Claim, Claimed, TypeOK, ProcessingRow
<1>4. ASSUME NEW w \in Workers, Settle(w) PROVE Good(e)'
  <2>1. CASE row'[e] = row[e]
    BY <1>0, <1>4, <2>1 DEF Settle, Claimed
  <2>2. ASSUME NEW r \in {result[w], "error"}, e = job[w], row[e].status = "PROCESSING",
               row'[e] = Outcome(row[e], r)
        PROVE  Good(e)'
    <3>1. r = "PROCESSED" => notices[e] > 0
      BY <1>4, <2>2 DEF Settle, JobsOK
    <3>2. row[e].attempts \in Nat /\ MaxAttempts \in Nat
      BY <1>0, ConstantsOK DEF ProcessingRow, ConstantsOK
    <3>3. r \in {"error"} \cup Finished
      BY <2>2 DEF TypeOK
    <3>4. Outcome(row[e], r).status \notin {"ABSENT", "PENDING"}
      BY <1>0, <3>3 DEF Outcome, Finished, ProcessingRow
    <3>5. Outcome(row[e], r).status = "FAILED" =>
             Outcome(row[e], r).attempts < MaxAttempts
      BY <1>0, <3>2, <3>3 DEF Outcome, Finished, ProcessingRow
    <3>6. Outcome(row[e], r).status = "PROCESSED" => r = "PROCESSED"
      BY <1>0, <3>3 DEF Outcome, Finished, ProcessingRow
    <3>7. QED
      BY <1>0, <1>4, <2>2, <3>1, <3>4, <3>5, <3>6 DEF Settle, Claimed
  <2>3. QED
    BY <1>4, <2>1, <2>2 DEF Settle, TypeOK
<1>5. ASSUME NEW w \in Workers, NEW x \in retries[w], GiveUp(w, x) PROVE Good(e)'
  BY <1>0, <1>5 DEF GiveUp, Claimed, TypeOK, ProcessingRow
<1>6. ASSUME NEW w \in Workers, Send(w) PROVE Good(e)'
  BY <1>0, <1>6 DEF Send, Notify, Claimed, TypeOK
<1>7. ASSUME NEW w \in Workers,
             \/ ReadCursor(w) \/ ReadEvents(w) \/ Decide(w) \/ Advance(w)
             \/ ReadRetries(w) \/ EndRound(w) \/ Stop(w)
      PROVE  Good(e)'
  BY <1>0, <1>7
  DEF ReadCursor, ReadEvents, Decide, Advance, ReadRetries, EndRound, Stop, Claimed, db
<1>8. ASSUME NEW w \in Workers, NEW x \in retries[w], TryAgain(w, x) PROVE Good(e)'
  <2>1. x \in Retry
    BY DEF TypeOK
  <2>2. x.event \in Events
    BY <2>1 DEF Retry
  <2>3. QED
    BY <1>2, <1>8, <2>2 DEF TryAgain
<1>9. ASSUME NEW w \in Workers, NextEvent(w) PROVE Good(e)'
  BY <1>2, <1>9 DEF NextEvent, TypeOK
<1>10. CASE UNCHANGED vars
  BY <1>0, <1>10 DEF vars, db, Claimed
<1>11. QED
  BY <1>1, <1>3, <1>4, <1>5, <1>6, <1>7, <1>8, <1>9, <1>10 DEF Next, Round

\* A step keeps what the workers rely on: what another worker does to a row
\* never takes it back to where it can be claimed afresh.
LEMMA JobsStep ==
    ASSUME TypeOK, RowsOK, JobsOK, [Next]_vars
    PROVE  JobsOK'
<1> DEFINE Job(w) == /\ pc[w] = "claim" => row[job[w]].status # "ABSENT"
                     /\ pc[w] \in AtEvent \ {"claim"} => Claimed(job[w])
                     /\ pc[w] = "settle" /\ result[w] = "PROCESSED" => notices[job[w]] > 0
           Grown(e) == /\ row[e].status # "ABSENT" => row'[e].status # "ABSENT"
                       /\ Claimed(e) => Claimed(e)'
                       /\ notices[e] > 0 => notices'[e] > 0
<1> SUFFICES ASSUME NEW v \in Workers PROVE Job(v)'
  BY DEF JobsOK
<1>1. Job(v)
  BY DEF JobsOK
<1>2. \A e \in Events : Grown(e)
  BY RowsOnlyGrow
<1>3. pc[v] \in AtEvent => job[v] \in Events
  BY EventsAreKeys DEF TypeOK
<1>4. (pc'[v] = pc[v] \/ pc'[v] \notin AtEvent) /\ job'[v] = job[v] /\ result'[v] = result[v]
         => Job(v)'
  BY <1>1, <1>2, <1>3 DEF AtEvent, Claimed
<1>5. ASSUME NEW w \in Workers, NEW e \in Events, Register(w, e) PROVE Job(v)'
  <2>1. CASE v = w
    <3>1. row'[e].status # "ABSENT"
      BY <1>5 DEF Register, TypeOK, ProcessingRow
    <3>2. QED
      BY <1>5, <2>1, <3>1 DEF Register, Goto, TypeOK
  <2>2. CASE v # w
    BY <1>4, <1>5, <2>2 DEF Register, Goto, TypeOK
  <2>3. QED
    BY <2>1, <2>2
<1>6. ASSUME NEW w \in Workers, Claim(w) PROVE Job(v)'
  <2>1. CASE v = w /\ Claimable(job[w])
    <3>1. job[w] \in Events /\ row'[job[w]].status = "PROCESSING" /\ pc'[w] = "decide"
      BY <1>3, <1>6, <2>1 DEF Claim, Goto, AtEvent, TypeOK
    <3>2. QED
      BY <1>6, <2>1, <3>1 DEF Claim, Claimed
  <2>2. CASE v = w /\ ~ Claimable(job[w])
    <3>1. job[w] \in Events /\ row[job[w]].status # "ABSENT" /\ job' = job /\ row' = row
      BY <1>1, <1>3, <1>6, <2>2 DEF Claim, AtEvent
    <3>2. Claimed(job[w])
      BY <2>2, <3>1, ConstantsOK DEF RowsOK, Claimed, Claimable, ConstantsOK
    <3>3. pc'[w] \in {"advance", "retries"}
      BY <1>6, <2>2 DEF Claim, Goto, AfterEvent, TypeOK
    <3>4. QED
      BY <2>2, <3>1, <3>2, <3>3 DEF Claimed, AtEvent
  <2>3. CASE v # w
    BY <1>4, <1>6, <2>3 DEF Claim, Goto, TypeOK
  <2>4. QED
    BY <2>1, <2>2, <2>3
<1>7. ASSUME NEW w \in Workers, Decide(w) PROVE Job(v)'
  <2>1. CASE v = w
    <3>1. Claimed(job[w]) /\ job' = job /\ row' = row /\ notices' = notices
      BY <1>1, <1>7, <2>1 DEF Decide, AtEvent, db, local
    <3>2. \/ pc'[w] = "settle" /\ (result'[w] = "PROCESSED" => notices[job[w]] > 0)
          \/ pc'[w] = "send"
      BY <1>7 DEF Decide, Goto, TypeOK
    <3>3. QED
      BY <2>1, <3>1, <3>2 DEF Claimed
  <2>2. CASE v # w
    BY <1>4, <1>7, <2>2 DEF Decide, Goto, TypeOK
  <2>3. QED
    BY <2>1, <2>2
<1>8. ASSUME NEW w \in Workers, Send(w) PROVE Job(v)'
  <2>1. CASE v = w
    <3>1. Claimed(job[w]) /\ job[w] \in Events /\ job' = job /\ row' = row
      BY <1>1, <1>3, <1>8, <2>1 DEF Send, AtEvent
    <3>2. pc'[w] = "settle" /\ (result'[w] = "PROCESSED" => notices'[job[w]] > 0)
      BY <1>8, <3>1 DEF Send, Notify, Goto, TypeOK
    <3>3. QED
      BY <2>1, <3>1, <3>2 DEF Claimed
  <2>2. CASE v # w
    BY <1>4, <1>8, <2>2 DEF Send, Goto, TypeOK
  <2>3. QED
    BY <2>1, <2>2
<1>9. ASSUME NEW w \in Workers, Settle(w) PROVE Job(v)'
  <2>1. CASE v = w
    <3>1. job[w] \in Events /\ Claimed(job[w]) /\ job' = job
      BY <1>1, <1>3, <1>9, <2>1 DEF Settle, AtEvent
    <3>2. Claimed(job[w])'
      BY <1>2, <3>1 DEF Claimed
    <3>3. pc'[w] \in {"advance", "retries"}
      BY <1>9 DEF Settle, Goto, AfterEvent, TypeOK
    <3>4. QED
      BY <2>1, <3>2, <3>3 DEF Claimed
  <2>2. CASE v # w
    BY <1>4, <1>9, <2>2 DEF Settle, Goto, TypeOK
  <2>3. QED
    BY <2>1, <2>2
<1>10. ASSUME NEW w \in Workers,
              ReadCursor(w) \/ ReadEvents(w) \/ Advance(w) \/ ReadRetries(w)
       PROVE  Job(v)'
  <2>1. job' = job /\ result' = result /\ (pc'[v] = pc[v] \/ pc'[v] \notin AtEvent)
    BY <1>10 DEF ReadCursor, ReadEvents, Advance, ReadRetries, Goto, AtEvent, TypeOK
  <2>2. QED
    BY <1>4, <2>1
<1>11. ASSUME NEW w \in Workers, EndRound(w) \/ Stop(w) PROVE Job(v)'
  <2>1. CASE v = w
    BY <1>11, <2>1 DEF EndRound, Stop, Goto, AtEvent, TypeOK
  <2>2. CASE v # w
    BY <1>4, <1>11, <2>2 DEF EndRound, Stop, Goto, TypeOK
  <2>3. QED
    BY <2>1, <2>2
<1>12. ASSUME NEW w \in Workers, NEW x \in retries[w], TryAgain(w, x) PROVE Job(v)'
  <2>1. x \in Retry
    BY DEF TypeOK
  <2>2. x.event \in Events
    BY <2>1 DEF Retry
  <2>3. QED
    BY <1>5, <1>12, <2>2 DEF TryAgain
<1>13. ASSUME NEW w \in Workers, NextEvent(w) PROVE Job(v)'
  BY <1>5, <1>13 DEF NextEvent, TypeOK
<1>14. ASSUME NEW w \in Workers, NEW x \in retries[w], GiveUp(w, x) PROVE Job(v)'
  BY <1>4, <1>14 DEF GiveUp
<1>15. ASSUME NEW e \in Events, Commit(e) \/ TimePasses(e) \/ Requeue(e) PROVE Job(v)'
  BY <1>4, <1>15 DEF Commit, TimePasses, Requeue, local
<1>16. CASE UNCHANGED vars
  BY <1>4, <1>16 DEF vars, local
<1>17. QED
  BY <1>6, <1>7, <1>8, <1>9, <1>10, <1>11, <1>12, <1>13, <1>14, <1>15, <1>16 DEF Next, Round

LEMMA RowsInvariant == Spec => []RowsOK
<1>1. TypeOK /\ RowsOK /\ JobsOK /\ [Next]_vars => (TypeOK /\ RowsOK /\ JobsOK)'
  BY NextType, RowsStep, JobsStep
<1>2. QED
  BY <1>1, InitType, RowsInit, PTL DEF Spec

\* Whatever the processes do to each other, a failed row has attempts left, so
\* that a later round picks it up.
THEOREM RetriesCorrect == Spec => []FailedCanBeRetried
<1>1. RowsOK => FailedCanBeRetried
  BY DEF RowsOK, FailedCanBeRetried
<1>2. QED
  BY <1>1, RowsInvariant, PTL

\* A row that says PROCESSED has its notification, whichever of the processes
\* that took the claim from each other wrote the one and the other.
THEOREM DeliveredCorrect == Spec => []DeliveredIsNotified
<1>1. RowsOK => DeliveredIsNotified
  BY DEF RowsOK, DeliveredIsNotified
<1>2. QED
  BY <1>1, RowsInvariant, PTL

-----------------------------------------------------------------------------
(* The cursor.                                                             *)

\* Whatever a worker has read, all that lies before it has been claimed or is
\* still in its batch, with the event it is at in front.
WorkerInOrder(w) ==
    /\ \A e \in Events : e <= from[w] => Claimed(e)
    /\ \A b \in batch[w], e \in Events : e < b => e \in batch[w] \/ Claimed(e)
    /\ pc[w] \in AtEvent /\ batch[w] # {} =>
          job[w] \in batch[w] /\ \A b \in batch[w] : job[w] <= b
    /\ pc[w] = "advance" => batch[w] # {}
    /\ pc[w] = "retries" => batch[w] = {}

CommittedInOrder ==
    OrderedCommits /\ \A e \in committed, d \in Events : d < e => d \in committed

PassedIsClaimed == \A e \in Events : e <= cursor => Claimed(e)

CursorOK == CommittedInOrder /\ PassedIsClaimed /\ \A w \in Workers : WorkerInOrder(w)

LEMMA CursorInit == OrderedCommits /\ Init => CursorOK
BY EventsAreKeys
DEF Init, CursorOK, CommittedInOrder, PassedIsClaimed, WorkerInOrder, AtEvent, Events

\* The rows become visible in the order of their keys.
LEMMA CommitsStep ==
    ASSUME TypeOK, CommittedInOrder, [Next]_vars
    PROVE  CommittedInOrder'
<1>1. ASSUME NEW e \in Events, Commit(e) PROVE CommittedInOrder'
  BY <1>1 DEF Commit, CommittedInOrder, Events
<1>2. committed' = committed => CommittedInOrder'
  BY DEF CommittedInOrder
<1>3. ASSUME NEW e \in Events, TimePasses(e) \/ Requeue(e) PROVE committed' = committed
  BY <1>3 DEF TimePasses, Requeue
<1>4. ASSUME NEW w \in Workers, Round(w) \/ Stop(w) PROVE committed' = committed
  BY <1>4 DEF Round, Stop, ReadCursor, ReadEvents, NextEvent, Register, Claim, Decide, Send,
     Settle, Advance, ReadRetries, TryAgain, GiveUp, EndRound
<1>5. CASE UNCHANGED vars
  BY <1>2, <1>5 DEF vars
<1>6. QED
  BY <1>1, <1>2, <1>3, <1>4, <1>5 DEF Next

\* Only Advance moves the cursor, to the event its worker is at.
LEMMA PassedStep ==
    ASSUME TypeOK, JobsOK, CursorOK, [Next]_vars
    PROVE  PassedIsClaimed'
<1>1. \A e \in Events : Claimed(e) => Claimed(e)'
  BY RowsOnlyGrow
<1>2. cursor' = cursor => PassedIsClaimed'
  BY <1>1 DEF CursorOK, PassedIsClaimed
<1>3. ASSUME NEW w \in Workers, Advance(w) PROVE PassedIsClaimed'
  <2>1. pc[w] \in AtEvent \ {"claim"} /\ job[w] \in batch[w] /\ Claimed(job[w])
    BY <1>3 DEF Advance, AtEvent, CursorOK, WorkerInOrder, JobsOK
  <2>2. \A b \in batch[w] : job[w] <= b
    BY <2>1 DEF CursorOK, WorkerInOrder
  <2>3. batch[w] \subseteq Events /\ Events \subseteq Int
    BY DEF TypeOK, Events
  <2>4. ASSUME NEW e \in Events, e <= job[w] PROVE Claimed(e)
    <3>1. CASE e = job[w]
      BY <2>1, <3>1
    <3>2. CASE e < job[w]
      BY <2>1, <2>2, <2>3, <3>2 DEF CursorOK, WorkerInOrder
    <3>3. job[w] \in Int /\ e \in Int
      BY <2>1, <2>3
    <3>4. QED
      BY <2>4, <3>1, <3>2, <3>3
  <2>5. QED
    BY <1>1, <1>3, <2>4 DEF Advance, CursorOK, PassedIsClaimed
<1>4. ASSUME NEW e \in Events, Commit(e) \/ TimePasses(e) \/ Requeue(e) PROVE cursor' = cursor
  BY <1>4 DEF Commit, TimePasses, Requeue, db
<1>5. ASSUME NEW w \in Workers, Stop(w) PROVE cursor' = cursor
  BY <1>5 DEF Stop, db
<1>6. ASSUME NEW w \in Workers, Round(w), ~ Advance(w) PROVE cursor' = cursor
  BY <1>6 DEF Round, ReadCursor, ReadEvents, NextEvent, Register, Claim, Decide, Send,
     Settle, ReadRetries, TryAgain, GiveUp, EndRound, db
<1>7. CASE UNCHANGED vars
  BY <1>2, <1>7 DEF vars, db
<1>8. QED
  BY <1>2, <1>3, <1>4, <1>5, <1>6, <1>7 DEF Next

\* A worker goes through its batch in order, whatever the others do.
LEMMA WorkerStep ==
    ASSUME TypeOK, JobsOK, CursorOK, [Next]_vars, NEW v \in Workers
    PROVE  WorkerInOrder(v)'
<1>0. WorkerInOrder(v) /\ CommittedInOrder /\ PassedIsClaimed
  BY DEF CursorOK
<1>1. \A e \in Events : Claimed(e) => Claimed(e)'
  BY RowsOnlyGrow
<1>2. from'[v] = from[v] /\ batch'[v] = batch[v] /\ pc'[v] = pc[v] /\ job'[v] = job[v]
         => WorkerInOrder(v)'
  BY <1>0, <1>1 DEF WorkerInOrder
<1>4. ASSUME ReadCursor(v) PROVE WorkerInOrder(v)'
  BY <1>0, <1>1, <1>4
  DEF ReadCursor, Goto, AtEvent, WorkerInOrder, PassedIsClaimed, TypeOK
<1>5. ASSUME ReadEvents(v) PROVE WorkerInOrder(v)'
  <2> DEFINE behind == {e \in committed : e > from[v]}
  <2>1. PICK B \in SUBSET behind :
           (\A b \in B, e \in behind \ B : b < e) /\ batch' = [batch EXCEPT ![v] = B]
    BY <1>5 DEF ReadEvents
  <2>2. from[v] \in Int /\ Events \subseteq Int /\ committed \subseteq Events
    BY DEF TypeOK, Events
  <2>3. ASSUME NEW b \in B, NEW e \in Events, e < b PROVE e \in B \/ Claimed(e)
    <3>1. CASE e <= from[v]
      BY <1>0, <3>1 DEF WorkerInOrder
    <3>2. CASE e > from[v]
      BY <1>0, <2>1, <2>2, <2>3, <3>2 DEF CommittedInOrder
    <3>3. QED
      BY <2>2, <3>1, <3>2
  <2>4. batch'[v] = B /\ from'[v] = 0 /\ pc'[v] = "batch"
    BY <1>5, <2>1 DEF ReadEvents, Goto, TypeOK
  <2>5. \A e \in Events : ~ (e <= 0)
    BY DEF Events
  <2>6. QED
    BY <1>1, <2>3, <2>4, <2>5 DEF WorkerInOrder, AtEvent
<1>6. ASSUME NextEvent(v) PROVE WorkerInOrder(v)'
  <2>1. job'[v] \in batch[v] /\ (\A b \in batch[v] : job'[v] <= b) /\ pc'[v] = "claim"
    BY <1>6 DEF NextEvent, Register, Goto, TypeOK
  <2>2. batch' = batch /\ from' = from
    BY <1>6 DEF NextEvent, Register
  <2>3. QED
    BY <1>0, <1>1, <2>1, <2>2 DEF WorkerInOrder
<1>7. ASSUME Claim(v) \/ Decide(v) \/ Send(v) \/ Settle(v) PROVE WorkerInOrder(v)'
  <2>1. batch' = batch /\ from' = from /\ job' = job
    BY <1>7 DEF Claim, Decide, Send, Settle, db
  <2>2. /\ pc[v] \in AtEvent
        /\ \/ pc'[v] \in {"decide", "send", "settle"}
           \/ pc'[v] = "advance" /\ batch[v] # {}
           \/ pc'[v] = "retries" /\ batch[v] = {}
    BY <1>7 DEF Claim, Decide, Send, Settle, Goto, AfterEvent, AtEvent, TypeOK
  <2>3. QED
    BY <1>0, <1>1, <2>1, <2>2 DEF WorkerInOrder, AtEvent
<1>8. ASSUME Advance(v) PROVE WorkerInOrder(v)'
  <2>1. Claimed(job[v])
    BY <1>8 DEF Advance, AtEvent, JobsOK
  <2>2. batch'[v] = batch[v] \ {job[v]} /\ from' = from /\ pc'[v] = "batch"
    BY <1>8 DEF Advance, Goto, TypeOK
  <2>3. QED
    BY <1>0, <1>1, <2>1, <2>2 DEF WorkerInOrder, AtEvent
<1>9. ASSUME ReadRetries(v) \/ EndRound(v) PROVE WorkerInOrder(v)'
  <2>1. batch' = batch /\ from' = from /\ batch[v] = {} /\ pc'[v] \in {"retries", "idle"}
    BY <1>0, <1>9 DEF ReadRetries, EndRound, Goto, WorkerInOrder, TypeOK
  <2>2. QED
    BY <1>0, <1>1, <2>1 DEF WorkerInOrder, AtEvent
<1>10. ASSUME NEW x \in retries[v], TryAgain(v, x) PROVE WorkerInOrder(v)'
  <2>1. batch' = batch /\ from' = from /\ batch[v] = {} /\ pc'[v] = "claim"
    BY <1>0, <1>10 DEF TryAgain, Register, Goto, WorkerInOrder, TypeOK
  <2>2. QED
    BY <1>0, <1>1, <2>1 DEF WorkerInOrder
<1>11. ASSUME NEW x \in retries[v], GiveUp(v, x) PROVE WorkerInOrder(v)'
  BY <1>2, <1>11 DEF GiveUp
<1>12. ASSUME Stop(v) PROVE WorkerInOrder(v)'
  <2>1. batch'[v] = {} /\ from'[v] = 0 /\ pc'[v] = "idle"
    BY <1>12 DEF Stop, Goto, TypeOK
  <2>2. \A e \in Events : ~ (e <= 0)
    BY DEF Events
  <2>3. QED
    BY <2>1, <2>2 DEF WorkerInOrder, AtEvent
<1>13. ASSUME NEW w \in Workers \ {v}, Round(w) \/ Stop(w) PROVE WorkerInOrder(v)'
  <2>1. /\ from'[v] = from[v] /\ batch'[v] = batch[v]
        /\ pc'[v] = pc[v] /\ job'[v] = job[v]
    BY <1>13 DEF Round, Stop, ReadCursor, ReadEvents, NextEvent, Register, Claim, Decide, Send,
       Settle, Advance, ReadRetries, TryAgain, GiveUp, EndRound, Goto, TypeOK, db
  <2>2. QED
    BY <1>2, <2>1
<1>14. ASSUME NEW e \in Events, Commit(e) \/ TimePasses(e) \/ Requeue(e)
       PROVE  WorkerInOrder(v)'
  BY <1>2, <1>14 DEF Commit, TimePasses, Requeue, local
<1>15. CASE UNCHANGED vars
  BY <1>2, <1>15 DEF vars, local
<1>16. ASSUME NEW w \in Workers, Round(w) \/ Stop(w) PROVE WorkerInOrder(v)'
  <2>1. CASE w = v
    BY <1>4, <1>5, <1>6, <1>7, <1>8, <1>9, <1>10, <1>11, <1>12, <1>16, <2>1 DEF Round
  <2>2. CASE w # v
    BY <1>13, <1>16, <2>2
  <2>3. QED
    BY <2>1, <2>2
<1>17. QED
  BY <1>14, <1>15, <1>16 DEF Next

\* If audit rows become visible in the order of their keys, then no process
\* moves the shared cursor past an event that nobody has claimed, however many
\* processes there are and wherever they stop.
THEOREM CursorCorrect == OrderedCommits /\ Spec => []CursorLeavesNothingBehind
<1> DEFINE IInv == TypeOK /\ RowsOK /\ JobsOK /\ CursorOK
<1>1. OrderedCommits /\ Init => IInv
  BY InitType, RowsInit, CursorInit
<1>2. IInv /\ [Next]_vars => IInv'
  <2>1. IInv /\ [Next]_vars => CursorOK'
    BY CommitsStep, PassedStep, WorkerStep DEF CursorOK
  <2>2. QED
    BY <2>1, NextType, RowsStep, JobsStep
<1>3. IInv => CursorLeavesNothingBehind
  <2>1. TypeOK => cursor \in 0..LastEvent
    BY DEF TypeOK
  <2>2. cursor \in 0..LastEvent => \A e \in 1..cursor : e \in Events /\ e <= cursor
    BY ConstantsOK DEF ConstantsOK, Events
  <2>3. QED
    BY <2>1, <2>2 DEF CursorOK, PassedIsClaimed, CursorLeavesNothingBehind, Claimed
<1>4. QED
  BY <1>1, <1>2, <1>3, PTL DEF Spec
-----------------------------------------------------------------------------
(* What a step may never do.                                               *)

\* A recorded outcome is what one claim came to, and neither a later claim nor
\* an attempt that has lost its claim replaces it.
THEOREM OutcomesStand == Spec => OutcomeStands
<1> DEFINE Stands(e) == row[e].status \in Finished =>
                          \/ row'[e] = row[e]
                          \/ row[e].status = "DEAD_LETTER" /\ requeues' > requeues
<1>1. ASSUME TypeOK, [Next]_vars, NEW e \in Events PROVE Stands(e)
  <2>0. row[e].status \in Finished =>
           row[e].status \notin {"ABSENT", "PENDING", "PROCESSING", "FAILED"}
    BY DEF Finished
  <2>1. ASSUME NEW d \in Events, Commit(d) \/ TimePasses(d) \/ Requeue(d) PROVE Stands(e)
    <3>1. CASE Commit(d)
      BY <3>1 DEF Commit, db
    <3>2. CASE TimePasses(d)
      BY <1>1, <2>0, <3>2 DEF TimePasses, TypeOK
    <3>3. CASE Requeue(d)
      <4>1. CASE e = d
        BY <1>1, <2>0, <3>3, <4>1 DEF Requeue, TypeOK
      <4>2. CASE e # d
        BY <1>1, <3>3, <4>2 DEF Requeue, TypeOK
      <4>3. QED
        BY <4>1, <4>2
    <3>4. QED
      BY <2>1, <3>1, <3>2, <3>3
  <2>2. ASSUME NEW w \in Workers, NEW d \in Events, Register(w, d) PROVE Stands(e)
    <3>1. CASE e = d /\ row[e].status \in Finished
      <4>1. row' = [row EXCEPT ![e] = [row[e] EXCEPT !.status = row[e].status]]
        BY <2>0, <2>2, <3>1 DEF Register
      <4>2. row[e] \in ProcessingRow
        BY <1>1 DEF TypeOK
      <4>3. [row[e] EXCEPT !.status = row[e].status] = row[e]
        BY <4>2 DEF ProcessingRow
      <4>4. QED
        BY <1>1, <4>1, <4>3 DEF TypeOK
    <3>2. CASE e # d
      BY <1>1, <2>2, <3>2 DEF Register, TypeOK
    <3>3. QED
      BY <3>1, <3>2
  <2>3. ASSUME NEW w \in Workers, Claim(w) PROVE Stands(e)
    BY <1>1, <2>0, <2>3 DEF Claim, Claimable, TypeOK
  <2>4. ASSUME NEW w \in Workers, Settle(w) PROVE Stands(e)
    BY <1>1, <2>0, <2>4 DEF Settle, TypeOK
  <2>5. ASSUME NEW w \in Workers, NEW x \in retries[w], GiveUp(w, x) PROVE Stands(e)
    BY <1>1, <2>0, <2>5 DEF GiveUp, TypeOK
  <2>6. ASSUME NEW w \in Workers, NEW x \in retries[w], TryAgain(w, x) PROVE Stands(e)
    <3>1. x \in Retry
      BY <1>1 DEF TypeOK
    <3>2. x.event \in Events
      BY <3>1 DEF Retry
    <3>3. QED
      BY <2>2, <2>6, <3>2 DEF TryAgain
  <2>7. ASSUME NEW w \in Workers, NextEvent(w) PROVE Stands(e)
    BY <1>1, <2>2, <2>7 DEF NextEvent, TypeOK
  <2>8. ASSUME NEW w \in Workers,
               \/ ReadCursor(w) \/ ReadEvents(w) \/ Decide(w) \/ Send(w) \/ Advance(w)
               \/ ReadRetries(w) \/ EndRound(w) \/ Stop(w)
        PROVE  Stands(e)
    BY <2>8 DEF ReadCursor, ReadEvents, Decide, Send, Advance, ReadRetries, EndRound, Stop, db
  <2>9. CASE UNCHANGED vars
    BY <2>9 DEF vars, db
  <2>10. QED
    BY <1>1, <2>1, <2>3, <2>4, <2>5, <2>6, <2>7, <2>8, <2>9 DEF Next, Round
<1>2. TypeOK /\ [Next]_vars =>
         [\A e \in Events : row[e].status \in Finished =>
             \/ row'[e] = row[e]
             \/ row[e].status = "DEAD_LETTER" /\ requeues' > requeues]_vars
  BY <1>1
<1>3. QED
  BY <1>2, TypeCorrect, PTL DEF Spec, OutcomeStands

-----------------------------------------------------------------------------
(* The processes together implement EventOutcomes.                         *)

\* Nobody gives up an event that has an attempt left: a claim read as the last
\* one still is, as long as it stands; and no attempt itself ends in a dead
\* letter.
GivingUpOK ==
    /\ \A w \in Workers : result[w] # "DEAD_LETTER"
    /\ \A w \in Workers : \A x \in retries[w] :
          /\ x.claims <= row[x.event].claims
          /\ /\ x.plan = "give up"
             /\ row[x.event].status = "PROCESSING"
             /\ row[x.event].claims = x.claims
             => row[x.event].attempts = MaxAttempts

\* A row that is being processed has the claim and the attempts it had, or
\* another claim.
LEMMA ClaimsOnlyGrow ==
    ASSUME TypeOK, [Next]_vars, NEW e \in Events
    PROVE  /\ row[e].claims <= row'[e].claims
           /\ row'[e].status = "PROCESSING" /\ row'[e].claims = row[e].claims =>
                 row[e].status = "PROCESSING" /\ row'[e].attempts = row[e].attempts
<1> DEFINE Kept == /\ row[e].claims <= row'[e].claims
                   /\ row'[e].status = "PROCESSING" /\ row'[e].claims = row[e].claims =>
                         row[e].status = "PROCESSING" /\ row'[e].attempts = row[e].attempts
<1>0. row[e] \in ProcessingRow /\ row[e].claims \in Nat
  BY DEF TypeOK, ProcessingRow
<1>1. row' = row => Kept
  BY <1>0
<1>2. ASSUME NEW d \in Events, Commit(d) \/ TimePasses(d) \/ Requeue(d) PROVE Kept
  <2>1. CASE Commit(d)
    BY <1>1, <2>1 DEF Commit, db
  <2>2. CASE TimePasses(d)
    BY <1>0, <2>2 DEF TimePasses, TypeOK, ProcessingRow
  <2>3. CASE Requeue(d)
    BY <1>0, <2>3 DEF Requeue, TypeOK, ProcessingRow
  <2>4. QED
    BY <1>2, <2>1, <2>2, <2>3
<1>3. ASSUME NEW w \in Workers, NEW d \in Events, Register(w, d) PROVE Kept
  BY <1>0, <1>3 DEF Register, TypeOK, ProcessingRow
<1>4. ASSUME NEW w \in Workers, Claim(w) PROVE Kept
  BY <1>0, <1>1, <1>4 DEF Claim, TypeOK, ProcessingRow
<1>5. ASSUME NEW w \in Workers, Settle(w) PROVE Kept
  <2>1. \A r \in {result[w], "error"} :
           /\ Outcome(row[e], r).status # "PROCESSING"
           /\ Outcome(row[e], r).claims = row[e].claims
    BY <1>0 DEF Outcome, Finished, TypeOK, ProcessingRow
  <2>2. row'[e] = row[e] \/ \E r \in {result[w], "error"} : row'[e] = Outcome(row[e], r)
    BY <1>5 DEF Settle, TypeOK
  <2>3. QED
    BY <1>0, <2>1, <2>2
<1>6. ASSUME NEW w \in Workers, NEW x \in retries[w], GiveUp(w, x) PROVE Kept
  <2>1. CASE row' = row
    BY <1>1, <2>1
  <2>2. CASE row' = [row EXCEPT ![x.event].status = "DEAD_LETTER", ![x.event].timer = "running"]
    <3>1. CASE e = x.event
      <4>1. row'[e] = [row[e] EXCEPT !.status = "DEAD_LETTER", !.timer = "running"]
        BY <2>2, <3>1 DEF TypeOK
      <4>2. QED
        BY <1>0, <4>1 DEF ProcessingRow
    <3>2. CASE e # x.event
      BY <1>0, <2>2, <3>2 DEF TypeOK
    <3>3. QED
      BY <3>1, <3>2
  <2>3. QED
    BY <1>6, <2>1, <2>2 DEF GiveUp
<1>7. ASSUME NEW w \in Workers,
             \/ ReadCursor(w) \/ ReadEvents(w) \/ Decide(w) \/ Send(w) \/ Advance(w)
             \/ ReadRetries(w) \/ EndRound(w) \/ Stop(w)
      PROVE  Kept
  BY <1>1, <1>7
  DEF ReadCursor, ReadEvents, Decide, Send, Advance, ReadRetries, EndRound, Stop, db
<1>8. ASSUME NEW w \in Workers, NEW x \in retries[w], TryAgain(w, x) PROVE Kept
  <2>1. x \in Retry
    BY DEF TypeOK
  <2>2. QED
    BY <1>3, <1>8, <2>1 DEF TryAgain, Retry
<1>9. ASSUME NEW w \in Workers, NextEvent(w) PROVE Kept
  BY <1>3, <1>9 DEF NextEvent, TypeOK
<1>10. CASE UNCHANGED vars
  BY <1>1, <1>10 DEF vars, db
<1>11. QED
  BY <1>2, <1>4, <1>5, <1>6, <1>7, <1>8, <1>9, <1>10 DEF Next, Round

LEMMA GivingUpStep ==
    ASSUME TypeOK, GivingUpOK, [Next]_vars
    PROVE  GivingUpOK'
<1> SUFFICES ASSUME NEW v \in Workers
    PROVE  /\ result'[v] # "DEAD_LETTER"
           /\ \A x \in retries'[v] :
                 /\ x.claims <= row'[x.event].claims
                 /\ /\ x.plan = "give up"
                    /\ row'[x.event].status = "PROCESSING"
                    /\ row'[x.event].claims = x.claims
                    => row'[x.event].attempts = MaxAttempts
  BY DEF GivingUpOK
<1> DEFINE Right(x) == /\ x.claims <= row'[x.event].claims
                       /\ /\ x.plan = "give up"
                          /\ row'[x.event].status = "PROCESSING"
                          /\ row'[x.event].claims = x.claims
                          => row'[x.event].attempts = MaxAttempts
<1>1. result'[v] # "DEAD_LETTER"
  <2>1. result[v] # "DEAD_LETTER"
    BY DEF GivingUpOK
  <2>2. ASSUME NEW w \in Workers, Round(w) \/ Stop(w) PROVE result'[v] # "DEAD_LETTER"
    BY <2>1, <2>2
    DEF Round, Stop, ReadCursor, ReadEvents, NextEvent, Register, Claim, Decide, Send, Settle,
        Advance, ReadRetries, TryAgain, GiveUp, EndRound, TypeOK
  <2>3. CASE UNCHANGED result
    BY <2>1, <2>3
  <2>4. QED
    BY <2>2, <2>3 DEF Next, Commit, TimePasses, Requeue, local, vars
<1>2. ASSUME NEW x \in retries[v] PROVE Right(x)
  <2>1. x \in Retry
    BY DEF TypeOK
  <2>2. x.event \in Events /\ x.claims \in Nat /\ row[x.event].claims \in Nat
    BY <2>1 DEF Retry, TypeOK, ProcessingRow
  <2>3. row'[x.event].claims \in Nat
    BY <2>2, NextType DEF TypeOK, ProcessingRow
  <2>4. /\ x.claims <= row[x.event].claims
        /\ /\ x.plan = "give up"
           /\ row[x.event].status = "PROCESSING"
           /\ row[x.event].claims = x.claims
           => row[x.event].attempts = MaxAttempts
    BY DEF GivingUpOK
  <2>5. /\ row[x.event].claims <= row'[x.event].claims
        /\ row'[x.event].status = "PROCESSING" /\ row'[x.event].claims = row[x.event].claims =>
              /\ row[x.event].status = "PROCESSING"
              /\ row'[x.event].attempts = row[x.event].attempts
    BY <2>2, ClaimsOnlyGrow
  <2>6. \A a, b, c \in Nat : a <= b /\ b <= c => a <= c /\ (c = a => b = a)
    OBVIOUS
  <2>7. /\ x.claims <= row'[x.event].claims
        /\ row'[x.event].claims = x.claims => row[x.event].claims = x.claims
    BY <2>2, <2>3, <2>4, <2>5, <2>6
  <2>8. QED
    BY <2>4, <2>5, <2>7
<1>3. retries'[v] \subseteq retries[v] \/ ReadRetries(v)
  <2>1. ASSUME NEW w \in Workers, Round(w) \/ Stop(w)
        PROVE  retries'[v] \subseteq retries[v] \/ ReadRetries(v)
    <3>1. ASSUME NEW x \in retries[w], TryAgain(w, x) \/ GiveUp(w, x)
          PROVE  retries'[v] \subseteq retries[v]
      <4>1. retries' = [retries EXCEPT ![w] = @ \ {x}]
        BY <3>1 DEF TryAgain, GiveUp
      <4>2. QED
        BY <4>1 DEF TypeOK
    <3>2. ASSUME Stop(w) PROVE retries'[v] \subseteq retries[v]
      BY <3>2 DEF Stop, TypeOK
    <3>3. ASSUME ReadRetries(w), w # v PROVE retries'[v] = retries[v]
      BY <3>3 DEF ReadRetries, TypeOK
    <3>4. ASSUME \/ ReadCursor(w) \/ ReadEvents(w) \/ NextEvent(w) \/ Claim(w) \/ Decide(w)
                 \/ Send(w) \/ Settle(w) \/ Advance(w) \/ EndRound(w)
          PROVE  retries' = retries
      BY <3>4 DEF ReadCursor, ReadEvents, NextEvent, Claim, Decide, Send, Settle, Advance, EndRound
    <3>5. QED
      BY <2>1, <3>1, <3>2, <3>3, <3>4 DEF Round
  <2>2. CASE UNCHANGED retries
    BY <2>2
  <2>3. QED
    BY <2>1, <2>2 DEF Next, Commit, TimePasses, Requeue, local, vars
<1>4. ASSUME ReadRetries(v), NEW x \in retries'[v] PROVE Right(x)
  <2>1. PICK e \in Events :
           x = [event |-> e, claims |-> row[e].claims,
                plan |-> IF row[e].status = "PROCESSING" /\ row[e].attempts >= MaxAttempts
                         THEN "give up" ELSE "try again"]
    BY <1>4 DEF ReadRetries, TypeOK
  <2>2. row' = row
    BY <1>4 DEF ReadRetries, db
  <2>3. row[e].attempts \in 0..MaxAttempts /\ row[e].claims \in Nat
    BY DEF TypeOK, ProcessingRow
  <2>4. x.event = e /\ x.claims = row[e].claims
    BY <2>1
  <2>5. x.plan = "give up" => row[e].attempts >= MaxAttempts
    BY <2>1
  <2>6. row[e].attempts >= MaxAttempts => row[e].attempts = MaxAttempts
    BY <2>3, ConstantsOK DEF ConstantsOK
  <2>7. x.claims <= row'[x.event].claims
    BY <2>2, <2>3, <2>4
  <2>8. QED
    BY <2>2, <2>4, <2>5, <2>6, <2>7
<1>5. QED
  BY <1>1, <1>2, <1>3, <1>4

StateNow == [e \in Events |-> StateOf(row[e].status)]
AttemptsNow == [e \in Events |-> row[e].attempts]

\* What EventOutcomes sees of a step that changes one processing row.
LEMMA OneRow ==
    ASSUME NEW d \in Events, \A e \in Events \ {d} : row'[e] = row[e]
    PROVE  /\ StateNow' = [StateNow EXCEPT ![d] = StateOf(row'[d].status)]
           /\ AttemptsNow' = [AttemptsNow EXCEPT ![d] = row'[d].attempts]
<1>1. \A e \in Events \ {d} : StateOf(row'[e].status) = StateOf(row[e].status)
  OBVIOUS
<1>2. \A e \in Events \ {d} : row'[e].attempts = row[e].attempts
  OBVIOUS
<1>3. StateNow' = [e \in Events |-> StateOf(row'[e].status)]
  BY DEF StateNow, StateOf
<1>4. AttemptsNow' = [e \in Events |-> row'[e].attempts]
  BY DEF AttemptsNow
<1> HIDE DEF StateOf
<1>5. QED
  BY <1>1, <1>2, <1>3, <1>4 DEF StateNow, AttemptsNow

\* A step that leaves every row's state and attempts alone and notifies nobody
\* is a stutter.
LEMMA Stutters ==
    ASSUME notices' = notices,
           \A e \in Events : StateOf(row'[e].status) = StateOf(row[e].status),
           \A e \in Events : row'[e].attempts = row[e].attempts
    PROVE  UNCHANGED Outcomes!vars
<1>1. [e \in Events |-> StateOf(row'[e].status)] = [e \in Events |-> StateOf(row[e].status)]
  OBVIOUS
<1>2. [e \in Events |-> row'[e].attempts] = [e \in Events |-> row[e].attempts]
  OBVIOUS
<1>3. QED
  BY <1>1, <1>2 DEF Outcomes!vars

LEMMA OutcomesInit == Init => Outcomes!Init
  BY DEF Init, NoRow, StateOf, Outcomes!Init

LEMMA ClaimOutcomes ==
    ASSUME TypeOK, NEW w \in Workers, Claim(w)
    PROVE  [Outcomes!Next]_(Outcomes!vars)
<1>0. PICK d \in Events : d = job[w]
  BY EventsAreKeys DEF Claim, TypeOK, AtEvent
<1>1. row[d] \in ProcessingRow
  BY DEF TypeOK
<1>2. CASE ~ Claimable(d)
  <2>1. row' = row /\ notices' = notices
    BY <1>0, <1>2 DEF Claim
  <2>2. QED
    BY <2>1, Stutters
<1>3. CASE Claimable(d)
  <2>1. /\ \A e \in Events \ {d} : row'[e] = row[e]
        /\ row'[d] = [status |-> "PROCESSING", attempts |-> row[d].attempts + 1,
                      claims |-> row[d].claims + 1, timer |-> "running"]
        /\ notices' = notices
    BY <1>0, <1>3 DEF Claim, TypeOK
  <2>2. StateNow' = [StateNow EXCEPT ![d] = "open"]
    BY <1>1, <2>1, OneRow DEF StateOf
  <2>3. AttemptsNow' = [AttemptsNow EXCEPT ![d] = @ + 1]
    BY <1>1, <2>1, OneRow DEF AttemptsNow
  <2>4. StateNow[d] \in {"new", "open"} /\ AttemptsNow[d] < MaxAttempts
    BY <1>1, <1>3 DEF Claimable, StateNow, AttemptsNow, StateOf
  <2>5. Outcomes!Attempt(d)
    BY <2>1, <2>2, <2>3, <2>4 DEF Outcomes!Attempt, StateNow, AttemptsNow
  <2>6. QED
    BY <2>5 DEF Outcomes!Next
<1>4. QED
  BY <1>2, <1>3

LEMMA SendOutcomes ==
    ASSUME TypeOK, RowsOK, JobsOK, NEW w \in Workers, Send(w)
    PROVE  [Outcomes!Next]_(Outcomes!vars)
<1> DEFINE d == job[w]
<1>1. d \in Events /\ row' = row
  BY EventsAreKeys DEF Send, TypeOK, AtEvent
<1>2. CASE notices' = notices
  BY <1>1, <1>2, Stutters
<1>3. CASE notices' # notices
  <2>1. notices' = [notices EXCEPT ![d] = 1]
    BY <1>3 DEF Send, Notify
  <2>2. notices[d] # 1
    BY <1>3, <2>1 DEF TypeOK
  <2>3. notices[d] = 0
    BY <1>1, <2>2 DEF RowsOK, TypeOK
  <2>4. StateNow[d] # "new"
    <3>1. Claimed(d) /\ row[d].status \in {"PROCESSING", "FAILED"} \cup Finished
      BY <1>1 DEF JobsOK, Send, AtEvent, Claimed, TypeOK, ProcessingRow
    <3>2. StateOf(row[d].status) # "new"
      BY <3>1 DEF StateOf, Finished
    <3>3. QED
      BY <1>1, <3>2 DEF StateNow
  <2>5. StateNow' = StateNow /\ AttemptsNow' = AttemptsNow
    BY <1>1 DEF StateNow, AttemptsNow
  <2>6. Outcomes!Notify(d)
    BY <2>1, <2>3, <2>4, <2>5 DEF Outcomes!Notify, StateNow, AttemptsNow
  <2>7. QED
    BY <1>1, <2>6 DEF Outcomes!Next
<1>4. QED
  BY <1>2, <1>3

\* The two ways in which a claim comes to an outcome.
LEMMA ConcludeOutcomes ==
    ASSUME TypeOK, NEW d \in Events, row[d].status = "PROCESSING",
           NEW outcome \in Outcomes!Outcomes,
           row'[d].status = outcome, row'[d].attempts = row[d].attempts,
           \A e \in Events \ {d} : row'[e] = row[e],
           outcome = "PROCESSED" => notices[d] = 1,
           outcome = "DEAD_LETTER" => row[d].attempts = MaxAttempts,
           notices' = notices
    PROVE  Outcomes!Next
<1>1. StateOf(outcome) = outcome
  BY DEF StateOf, Outcomes!Outcomes
<1>2. StateNow' = [StateNow EXCEPT ![d] = outcome]
  BY <1>1, OneRow
<1>3. AttemptsNow' = AttemptsNow
  BY OneRow DEF AttemptsNow
<1>4. StateNow[d] = "open" /\ AttemptsNow[d] = row[d].attempts
  BY DEF StateNow, AttemptsNow, StateOf
<1>5. Outcomes!Conclude(d, outcome)
  BY <1>2, <1>3, <1>4 DEF Outcomes!Conclude, StateNow, AttemptsNow
<1>6. QED
  BY <1>5 DEF Outcomes!Next

LEMMA SettleOutcomes ==
    ASSUME TypeOK, RowsOK, JobsOK, GivingUpOK, NEW w \in Workers, Settle(w)
    PROVE  [Outcomes!Next]_(Outcomes!vars)
<1> DEFINE d == job[w]
<1>1. d \in Events /\ row[d] \in ProcessingRow /\ notices' = notices
  BY EventsAreKeys DEF Settle, TypeOK, AtEvent
<1>2. CASE row' = row
  BY <1>1, <1>2, Stutters
<1>3. CASE row' # row
  <2>1. PICK r \in {result[w], "error"} :
           row[d].status = "PROCESSING" /\ row' = [row EXCEPT ![d] = Outcome(@, r)]
    BY <1>3 DEF Settle
  <2>2. r \in {"error", "PROCESSED", "SKIPPED", "NO_RECIPIENT"}
    BY DEF TypeOK, GivingUpOK, Finished
  <2>3. row'[d] = Outcome(row[d], r) /\ \A e \in Events \ {d} : row'[e] = row[e]
    BY <1>1, <2>1 DEF TypeOK
  <2>4. row[d].attempts \in 0..MaxAttempts /\ MaxAttempts \in Nat
    BY <1>1, ConstantsOK DEF ProcessingRow, ConstantsOK
  <2>5. row'[d].attempts = row[d].attempts
    BY <1>1, <2>3 DEF Outcome, ProcessingRow
  <2>6. CASE r = "error" /\ row[d].attempts < MaxAttempts
    <3>1. row'[d].status = "FAILED"
      BY <1>1, <2>3, <2>4, <2>6 DEF Outcome, ProcessingRow
    <3>2. StateOf(row'[d].status) = StateOf(row[d].status)
      BY <2>1, <3>1 DEF StateOf
    <3>3. QED
      BY <1>1, <2>3, <2>5, <3>2, Stutters
  <2>7. CASE r = "error" /\ row[d].attempts = MaxAttempts
    <3>1. row'[d].status = "DEAD_LETTER"
      BY <1>1, <2>3, <2>4, <2>7 DEF Outcome, ProcessingRow
    <3>2. "DEAD_LETTER" \in Outcomes!Outcomes
      BY DEF Outcomes!Outcomes
    <3>3. QED
      BY <1>1, <2>1, <2>3, <2>5, <2>7, <3>1, <3>2, ConcludeOutcomes
  <2>8. CASE r # "error"
    <3>1. row'[d].status = r
      BY <1>1, <2>3, <2>8 DEF Outcome, ProcessingRow
    <3>2. r \in Outcomes!Outcomes /\ r # "DEAD_LETTER"
      BY <2>2, <2>8 DEF Outcomes!Outcomes
    <3>3. r = "PROCESSED" => notices[d] > 0
      BY <2>1 DEF Settle, JobsOK
    <3>4. notices[d] > 0 => notices[d] = 1
      BY <1>1 DEF RowsOK, TypeOK
    <3>5. QED
      BY <1>1, <2>1, <2>3, <2>5, <3>1, <3>2, <3>3, <3>4, ConcludeOutcomes
  <2>9. QED
    BY <2>2, <2>4, <2>6, <2>7, <2>8
<1>4. QED
  BY <1>2, <1>3

LEMMA GiveUpOutcomes ==
    ASSUME TypeOK, GivingUpOK, NEW w \in Workers, NEW x \in retries[w], GiveUp(w, x)
    PROVE  [Outcomes!Next]_(Outcomes!vars)
<1> DEFINE d == x.event
<1>1. x \in Retry
  BY DEF TypeOK
<1>2. d \in Events /\ row[d] \in ProcessingRow /\ notices' = notices
  BY <1>1 DEF GiveUp, Retry, TypeOK
<1>3. CASE row' = row
  BY <1>2, <1>3, Stutters
<1>4. CASE row' # row
  <2>1. /\ row[d].status = "PROCESSING" /\ row[d].claims = x.claims /\ x.plan = "give up"
        /\ row' = [row EXCEPT ![d].status = "DEAD_LETTER", ![d].timer = "running"]
    BY <1>4 DEF GiveUp
  <2>2. row[d].attempts = MaxAttempts
    BY <2>1 DEF GivingUpOK
  <2>3. /\ row'[d] = [row[d] EXCEPT !.status = "DEAD_LETTER", !.timer = "running"]
        /\ \A e \in Events \ {d} : row'[e] = row[e]
    BY <1>2, <2>1 DEF TypeOK
  <2>4. row'[d].status = "DEAD_LETTER" /\ row'[d].attempts = row[d].attempts
    BY <1>2, <2>3 DEF ProcessingRow
  <2>5. "DEAD_LETTER" \in Outcomes!Outcomes
    BY DEF Outcomes!Outcomes
  <2>6. QED
    BY <1>2, <2>1, <2>2, <2>3, <2>4, <2>5, ConcludeOutcomes
<1>5. QED
  BY <1>3, <1>4

LEMMA RequeueOutcomes ==
    ASSUME TypeOK, NEW d \in Events, Requeue(d)
    PROVE  Outcomes!Next
<1>1. row[d] \in ProcessingRow /\ notices' = notices
  BY DEF Requeue, TypeOK
<1>2. /\ row'[d] = [row[d] EXCEPT !.status = "FAILED", !.attempts = 0, !.timer = "up"]
      /\ \A e \in Events \ {d} : row'[e] = row[e]
  BY DEF Requeue, TypeOK
<1>3. row'[d].status = "FAILED" /\ row'[d].attempts = 0
  BY <1>1, <1>2 DEF ProcessingRow
<1>4. StateNow' = [StateNow EXCEPT ![d] = "open"] /\ AttemptsNow' = [AttemptsNow EXCEPT ![d] = 0]
  BY <1>2, <1>3, OneRow DEF StateOf
<1>5. StateNow[d] \in {"open", "DEAD_LETTER"}
  BY DEF Requeue, StateNow, StateOf
<1>6. Outcomes!Reopen(d)
  BY <1>1, <1>4, <1>5 DEF Outcomes!Reopen, StateNow, AttemptsNow
<1>7. QED
  BY <1>6 DEF Outcomes!Next

LEMMA RegisterOutcomes ==
    ASSUME TypeOK, NEW w \in Workers, NEW d \in Events, Register(w, d)
    PROVE  UNCHANGED Outcomes!vars
<1>1. row[d] \in ProcessingRow /\ notices' = notices
  BY DEF Register, TypeOK
<1>2. /\ row'[d] = [row[d] EXCEPT !.status = IF @ = "ABSENT" THEN "PENDING" ELSE @]
      /\ \A e \in Events \ {d} : row'[e] = row[e]
  BY DEF Register, TypeOK
<1>3. StateOf(row'[d].status) = StateOf(row[d].status) /\ row'[d].attempts = row[d].attempts
  BY <1>1, <1>2 DEF ProcessingRow, StateOf
<1>4. QED
  BY <1>1, <1>2, <1>3, Stutters

LEMMA OutcomesStep ==
    ASSUME TypeOK, RowsOK, JobsOK, GivingUpOK, [Next]_vars
    PROVE  [Outcomes!Next]_(Outcomes!vars)
<1>1. CASE row' = row /\ notices' = notices
  BY <1>1, Stutters
<1>2. ASSUME NEW d \in Events, TimePasses(d) PROVE UNCHANGED Outcomes!vars
  <2>1. row[d] \in ProcessingRow /\ notices' = notices
    BY <1>2 DEF TimePasses, TypeOK
  <2>2. /\ row'[d] = [row[d] EXCEPT !.timer = "up"]
        /\ \A e \in Events \ {d} : row'[e] = row[e]
    BY <1>2 DEF TimePasses, TypeOK
  <2>3. row'[d].status = row[d].status /\ row'[d].attempts = row[d].attempts
    BY <2>1, <2>2 DEF ProcessingRow
  <2>4. QED
    BY <2>1, <2>2, <2>3, Stutters
<1>3. ASSUME NEW w \in Workers, NEW x \in retries[w], TryAgain(w, x)
      PROVE  UNCHANGED Outcomes!vars
  <2>1. x \in Retry
    BY DEF TypeOK
  <2>2. QED
    BY <1>3, <2>1, RegisterOutcomes DEF TryAgain, Retry
<1>4. ASSUME NEW w \in Workers, NextEvent(w) PROVE UNCHANGED Outcomes!vars
  BY <1>4, RegisterOutcomes DEF NextEvent, TypeOK
<1>5. ASSUME NEW w \in Workers,
             \/ ReadCursor(w) \/ ReadEvents(w) \/ Decide(w) \/ Advance(w)
             \/ ReadRetries(w) \/ EndRound(w) \/ Stop(w)
      PROVE  row' = row /\ notices' = notices
  BY <1>5 DEF ReadCursor, ReadEvents, Decide, Advance, ReadRetries, EndRound, Stop, db
<1>6. ASSUME NEW d \in Events, Commit(d) PROVE row' = row /\ notices' = notices
  BY <1>6 DEF Commit, db
<1>7. CASE UNCHANGED vars
  BY <1>1, <1>7 DEF vars, db
<1>8. QED
  BY <1>1, <1>2, <1>3, <1>4, <1>5, <1>6, <1>7, ClaimOutcomes, SendOutcomes, SettleOutcomes,
     GiveUpOutcomes, RequeueOutcomes
  DEF Next, Round

\* For any number of processes and events, with leases that run out under
\* attempts that answer late, each event is attempted, notified, concluded and
\* reopened only as EventOutcomes promises.
THEOREM KeepsOutcomesCorrect == Spec => KeepsOutcomes
<1> DEFINE IInv == TypeOK /\ RowsOK /\ JobsOK /\ GivingUpOK
<1>1. Init => IInv /\ Outcomes!Init
  <2>1. Init => GivingUpOK
    BY DEF Init, GivingUpOK
  <2>2. QED
    BY <2>1, InitType, RowsInit, OutcomesInit
<1>2. IInv /\ [Next]_vars => IInv'
  BY NextType, RowsStep, JobsStep, GivingUpStep
<1>3. IInv /\ [Next]_vars => [Outcomes!Next]_(Outcomes!vars)
  BY OutcomesStep
<1>4. QED
  BY <1>1, <1>2, <1>3, PTL DEF Spec, KeepsOutcomes, Outcomes!Spec
=============================================================================
