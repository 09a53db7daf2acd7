-------------------------- MODULE PriceBooksProofs --------------------------
(***************************************************************************)
(* Theorems of PriceBooks for any number of books, processes, revisions    *)
(* and deaths of processes.                                                *)
(***************************************************************************)
EXTENDS PriceBooks, TLAPS

-----------------------------------------------------------------------------
(* Types.                                                                  *)

LEMMA Constants ==
    /\ NoProcess \in Processes /\ NoMark \in Marks /\ NoJob \in JobIds
    /\ OldRevision \in Revisions
    /\ OldContents("rows") \in Contents /\ OldContents("sources") \in Contents
    /\ \A p \in Processes : /\ Rule[p] \in Revisions
                            /\ Made(p, "rows") \in Contents /\ Made(p, "sources") \in Contents
<1>1. NoProcess \in Processes /\ (CHOOSE b \in Books : TRUE) \in Books
  BY ConstantsOK DEF ConstantsOK, NoProcess
<1>2. NoMark \in Marks
  BY <1>1 DEF NoMark, Marks, Shown
<1>3. NoJob \in JobIds /\ OldContents("rows") \in Contents /\ OldContents("sources") \in Contents
  BY <1>1, ConstantsOK DEF NoJob, JobIds, OldContents, Contents, ConstantsOK
<1>4. QED
  BY <1>1, <1>2, <1>3, ConstantsOK DEF ConstantsOK, Made, Contents

LEMMA TypeInit == Init => TypeOK
<1> SUFFICES ASSUME Init PROVE TypeOK
  OBVIOUS
<1>1. parts \in [Books -> SUBSET Contents]
  BY Constants DEF Init
<1>2. /\ life \in [Books -> {"none", "live", "replaced", "deleted"}]
      /\ revision \in [Books -> Revisions]
      /\ shown \in [Books -> Shown]
      /\ unlinked \in SUBSET (Books \X Contents)
  BY Constants, ConstantsOK DEF Init, Shown, ConstantsOK
<1>3. QED
  BY <1>1, <1>2, Constants DEF Init, TypeOK, AtStep, Working, InTry, InTx, Scanned

LEMMA TypeImport ==
    ASSUME TypeOK, NEW b \in Books, ImportStep(b)
    PROVE  TypeOK'
<1> USE DEF books, imports, deletes, jobs, reads, worker
<1>1. ASSUME NEW p \in Processes, BeginImport(p, b)
      PROVE  TypeOK'
  BY <1>1 DEF BeginImport, TypeOK
<1>2. ASSUME CreateBook(b)
      PROVE  TypeOK'
  BY <1>2, Constants DEF CreateBook, TypeOK, Shown
<1>3. ASSUME NEW t \in {"rows", "sources"}, NEW n \in {"sources", "retire"}, Write(b, t, n),
             late' \in [Books -> SUBSET Contents]
      PROVE  TypeOK'
  <2>1. Made(importer[b], t) \in Contents
    BY Constants DEF TypeOK
  <2>2. parts' \in [Books -> SUBSET Contents]
    BY <1>3, <2>1 DEF Write, TypeOK
  <2>3. QED
    BY <1>3, <2>2 DEF Write, TypeOK
<1>4. CASE WriteRows(b)
  BY <1>3, <1>4 DEF WriteRows, TypeOK
<1>5. CASE WriteSources(b)
  <2>1. late' \in [Books -> SUBSET Contents]
    BY <1>5, Constants DEF WriteSources, Late, TypeOK
  <2>2. QED
    BY <1>3, <1>5, <2>1 DEF WriteSources
<1>6. CASE RetireReplaced(b)
  BY <1>6 DEF RetireReplaced, TypeOK
<1>7. CASE FinishImport(b)
  BY <1>7 DEF FinishImport, TypeOK
<1>8. CASE FailImport(b)
  BY <1>8 DEF FailImport, TypeOK
<1>9. QED
  BY <1>1, <1>2, <1>4, <1>5, <1>6, <1>7, <1>8 DEF ImportStep

LEMMA TypeDelete ==
    ASSUME TypeOK, NEW b \in Books, ReadForDelete(b) \/ DeleteBook(b)
    PROVE  TypeOK'
<1> USE DEF books, imports, deletes, jobs, reads, worker
<1>1. CASE ReadForDelete(b)
  BY <1>1 DEF ReadForDelete, TypeOK
<1>2. CASE DeleteBook(b)
  <2>1. unlinked' \in SUBSET (Books \X Contents)
    BY <1>2 DEF DeleteBook, Sources, TypeOK
  <2>2. QED
    BY <1>2, <2>1 DEF DeleteBook, TypeOK
<1>3. QED
  BY <1>1, <1>2

\* What a write to a job leaves of the types.
LEMMA TouchType ==
    ASSUME TypeOK, NEW j \in JobIds, NEW s \in {"PENDING", "SUCCESS", "FAILED"} \cup Running,
           Touch(j, s)
    PROVE  /\ refresh' \in [JobIds -> {"none", "PENDING", "SUCCESS", "FAILED"} \cup Running]
           /\ aged' \in SUBSET JobIds
BY DEF Touch, TypeOK

LEMMA TypeScan ==
    ASSUME TypeOK, NEW p \in Processes, Scan(p)
    PROVE  TypeOK'
<1> USE DEF books, imports, deletes, jobs, reads, worker, At, Goto
<1>1. CASE StartTurn(p)
  <2>1. refresh' \in [JobIds -> {"none", "PENDING", "SUCCESS", "FAILED"} \cup Running]
    BY <1>1 DEF StartTurn, TypeOK
  <2>2. todo' \in [Processes -> SUBSET Scanned]
    BY <1>1 DEF StartTurn, TypeOK
  <2>3. pc' \in [Processes -> AtStep]
    BY <1>1 DEF StartTurn, TypeOK, AtStep, Working, InTry, InTx
  <2>4. QED
    BY <1>1, <2>1, <2>2, <2>3 DEF StartTurn, TypeOK
<1>2. CASE Mark(p)
  <2>1. mark[p] \in Marks /\ mark[p].book \in Books /\ mark[p].status \in Shown
    BY DEF TypeOK, Marks
  <2>2. shown' \in [Books -> Shown] /\ mark' \in [Processes -> Marks]
    BY <1>2, <2>1, Constants DEF Mark, Show, TypeOK
  <2>3. QED
    BY <1>2, <2>2 DEF Mark, TypeOK, AtStep, Working, InTry, InTx
<1>3. CASE MarkThrows(p)
  BY <1>3, Constants DEF MarkThrows, EndReads, Die, Rest, TypeOK, AtStep, Working, InTry, InTx
<1>4. CASE FindNothing(p)
  BY <1>4 DEF FindNothing, TypeOK, AtStep, Working, InTry, InTx
<1>5. ASSUME NEW s \in todo[p], NEW st \in {"CURRENT", "UNAVAILABLE", "PENDING"}, Decide(p, s, st),
             refresh' \in [JobIds -> {"none", "PENDING", "SUCCESS", "FAILED"} \cup Running],
             aged' \in SUBSET JobIds
      PROVE  TypeOK'
  <2>1. s.book \in Books
    BY DEF TypeOK, Scanned
  <2>2. [book |-> s.book, status |-> st] \in Marks
    BY <2>1 DEF Marks, Shown
  <2>3. QED
    BY <1>5, <2>2 DEF Decide, TypeOK, AtStep, Working, InTry, InTx
<1>6. ASSUME NEW s \in todo[p], FindCurrent(p, s) \/ FindUnavailable(p, s)
      PROVE  TypeOK'
  BY <1>5, <1>6 DEF FindCurrent, FindUnavailable, Decide, TypeOK
<1>7. ASSUME NEW s \in todo[p], Enqueue(p, s)
      PROVE  TypeOK'
  <2>1. <<s.book, Rule[p]>> \in JobIds
    BY Constants DEF TypeOK, Scanned, JobIds
  <2>2. /\ refresh' \in [JobIds -> {"none", "PENDING", "SUCCESS", "FAILED"} \cup Running]
        /\ aged' \in SUBSET JobIds
    BY <1>7, <2>1 DEF Enqueue, Decide, TypeOK, Running
  <2>3. QED
    BY <1>5, <1>7, <2>2 DEF Enqueue
<1>8. ASSUME NEW s \in todo[p], PassOver(p, s)
      PROVE  TypeOK'
  BY <1>8 DEF PassOver, TypeOK
<1>9. QED
  BY <1>1, <1>2, <1>3, <1>4, <1>6, <1>7, <1>8 DEF Scan

LEMMA TypeWork ==
    ASSUME TypeOK, NEW p \in Processes, Work(p)
    PROVE  TypeOK'
<1> USE DEF books, imports, deletes, jobs, reads, worker, At, Goto
<1>0. job[p] \in JobIds /\ Book(p) \in Books /\ Rule[p] \in Revisions
  BY Constants DEF TypeOK, JobIds, Book
<1>1. ASSUME NEW j \in JobIds, Pick(p, j)
      PROVE  TypeOK'
  BY <1>1 DEF Pick, TypeOK, AtStep, Working, InTry, InTx
<1>2. CASE Claim(p)
  BY <1>0, <1>2, TouchType DEF Claim, TypeOK, AtStep, Working, InTry, InTx, Running
<1>3. CASE LoseClaim(p)
  BY <1>3, Constants DEF LoseClaim, Rest, TypeOK, AtStep, Working, InTry, InTx
<1>4. CASE Start(p)
  <2>1. pc' \in [Processes -> AtStep] /\ shown' \in [Books -> Shown]
    BY <1>0, <1>4 DEF Start, Show, Shown, TypeOK, AtStep, Working, InTry
  <2>2. QED
    BY <1>4, <2>1 DEF Start, TypeOK
<1>5. CASE Parsed(p)
  BY <1>0, <1>5, TouchType DEF Parsed, TypeOK, AtStep, Working, InTry, InTx, Running
<1>6. CASE Replace(p)
  <2>0. PICK b \in Books : b = Book(p)
    BY <1>0
  <2>1. PICK made \in SUBSET Contents :
             Commit(p, made, b) /\ revision' = [revision EXCEPT ![b] = Rule[p]]
    BY <1>6, <2>0, Constants DEF Replace
  <2>2. /\ parts' \in [Books -> SUBSET Contents]
        /\ unlinked' \in SUBSET (Books \X Contents)
        /\ taken' \in [Processes -> SUBSET (Books \X Contents)]
    BY <2>1 DEF Commit, TypeOK
  <2>3. missed' \in [Processes -> SUBSET Contents]
    BY <2>1 DEF Commit, TypeOK
  <2>4. late' \in [Books -> SUBSET Contents]
    BY <2>1, Constants DEF Commit, Late, TypeOK
  <2>5. /\ revision' \in [Books -> Revisions] /\ shown' \in [Books -> Shown]
        /\ pc' \in [Processes -> AtStep]
    BY <1>0, <2>1 DEF Commit, Show, Shown, TypeOK, AtStep, Working, InTry
  <2>6. QED
    BY <2>1, <2>2, <2>3, <2>4, <2>5 DEF Commit, TypeOK
<1>7. CASE Succeed(p)
  BY <1>0, <1>7, TouchType, Constants DEF Succeed, Rest, TypeOK, AtStep, Working, InTry, InTx
<1>8. CASE FailJob(p)
  <2>1. /\ refresh' \in [JobIds -> {"none", "PENDING", "SUCCESS", "FAILED"} \cup Running]
        /\ aged' \in SUBSET JobIds
    BY <1>0, <1>8, TouchType DEF FailJob, TypeOK
  <2>2. QED
    BY <1>8, <2>1 DEF FailJob, Unrecorded, TypeOK, AtStep, Working
<1>9. CASE FailBook(p)
  <2>1. shown' \in [Books -> Shown]
    BY <1>0, <1>9 DEF FailBook, Show, Shown, TypeOK
  <2>2. QED
    BY <1>9, <2>1, Constants DEF FailBook, Unrecorded, Rest, TypeOK, AtStep
<1>10. CASE ReadSources(p)
  BY <1>10 DEF ReadSources, TypeOK, AtStep, Working, InTry, InTx
<1>11. CASE Adopt(p)
  <2>1. taken' \in [Processes -> SUBSET (Books \X Contents)]
    BY <1>11 DEF Adopt, TypeOK
  <2>2. QED
    BY <1>11, <2>1 DEF Adopt, TypeOK, AtStep, Working, InTry, InTx
<1>12. CASE Clear(p)
  BY <1>12 DEF Clear, TypeOK, AtStep, Working, InTry, InTx
<1>13. QED
  BY <1>1, <1>2, <1>3, <1>4, <1>5, <1>6, <1>7, <1>8, <1>9, <1>10, <1>11, <1>12 DEF Work

LEMMA TypeStep ==
    ASSUME TypeOK, [Next]_vars
    PROVE  TypeOK'
<1>1. ASSUME NEW p \in Processes, Throw(p) \/ Crash(p) \/ Restart(p)
      PROVE  TypeOK'
  <2>1. CASE Throw(p)
    BY <2>1 DEF Throw, EndReads, Goto, TypeOK, AtStep, Working, books, imports, deletes, jobs
  <2>2. CASE Crash(p)
    BY <2>2, Constants
       DEF Crash, Die, EndReads, Rest, Goto, TypeOK, AtStep, books, imports, deletes, jobs
  <2>3. CASE Restart(p)
    BY <2>3 DEF Restart, TypeOK, books, imports, deletes, jobs, reads
  <2>4. QED
    BY <1>1, <2>1, <2>2, <2>3
<1>2. ASSUME NEW j \in JobIds, Age(j)
      PROVE  TypeOK'
  BY <1>2 DEF Age, TypeOK, books, imports, deletes, worker, reads
<1>3. CASE UNCHANGED vars
  BY <1>3 DEF vars, TypeOK, books, imports, deletes, jobs, reads, worker
<1>4. QED
  BY <1>1, <1>2, <1>3, TypeImport, TypeDelete, TypeScan, TypeWork DEF Next

\* Every variable keeps its domain.
THEOREM TypeCorrect == Spec => []TypeOK
<1>1. Init => TypeOK
  BY TypeInit
<1>2. TypeOK /\ [Next]_vars => TypeOK'
  BY TypeStep
<1>3. QED
  BY <1>1, <1>2, PTL DEF Spec

-----------------------------------------------------------------------------
(* One attempt for each revision.                                          *)

LEMMA RestingStep ==
    ASSUME TypeOK, [Next]_vars, NEW j \in JobIds,
           refresh[j] \in {"SUCCESS", "FAILED"},
           \A p \in Processes : pc[p] \in Working => job[p] # j
    PROVE  refresh'[j] = refresh[j]
<1> USE DEF Touch
<1>1. refresh[j] \notin Running
  BY DEF Running
<1>2. ASSUME NEW p \in Processes, StartTurn(p)
      PROVE  refresh'[j] = refresh[j]
  BY <1>1, <1>2 DEF StartTurn
<1>3. ASSUME NEW p \in Processes, NEW s \in todo[p], Enqueue(p, s)
      PROVE  refresh'[j] = refresh[j]
  BY <1>3 DEF Enqueue, TypeOK
<1>4. ASSUME NEW p \in Processes, Claim(p)
      PROVE  refresh'[j] = refresh[j]
  BY <1>4 DEF Claim, TypeOK
<1>5. ASSUME NEW p \in Processes, Parsed(p) \/ Succeed(p) \/ FailJob(p)
      PROVE  refresh'[j] = refresh[j]
  <2>1. job[p] # j /\ job[p] \in JobIds
    BY <1>5 DEF Parsed, Succeed, FailJob, At, Working, InTry, TypeOK
  <2>2. \/ refresh' = refresh
        \/ \E st \in {"IMPORTING", "SUCCESS", "FAILED"} : refresh' = [refresh EXCEPT ![job[p]] = st]
    BY <1>5 DEF Parsed, Succeed, FailJob, jobs
  <2>3. QED
    BY <2>1, <2>2 DEF TypeOK
<1>6. ASSUME NEW b \in Books, ImportStep(b) \/ ReadForDelete(b) \/ DeleteBook(b)
      PROVE  refresh' = refresh
  BY <1>6 DEF ImportStep, BeginImport, CreateBook, WriteRows, WriteSources, Write, RetireReplaced,
              FinishImport, FailImport, ReadForDelete, DeleteBook, jobs
<1>7. ASSUME NEW p \in Processes, Scan(p), ~StartTurn(p), ~(\E s \in todo[p] : Enqueue(p, s))
      PROVE  refresh' = refresh
  BY <1>7 DEF Scan, Mark, MarkThrows, Die, FindNothing, FindCurrent, FindUnavailable, PassOver, jobs
<1>8. ASSUME NEW p \in Processes, Work(p), ~Claim(p), ~Parsed(p), ~Succeed(p), ~FailJob(p)
      PROVE  refresh' = refresh
  BY <1>8 DEF Work, Pick, LoseClaim, Start, ReadSources, Adopt, Clear, Replace, Commit, FailBook, jobs
<1>9. ASSUME \/ \E p \in Processes : Throw(p) \/ Crash(p) \/ Restart(p)
             \/ \E i \in JobIds : Age(i)
             \/ UNCHANGED vars
      PROVE  refresh' = refresh
  BY <1>9 DEF Throw, EndReads, Crash, Restart, Die, Age, vars, jobs
<1>10. QED
  BY <1>2, <1>3, <1>4, <1>5, <1>6, <1>7, <1>8, <1>9 DEF Next

\* However many workers overlap, and whatever is recovered from them, a job
\* that came to an end is not taken again.
THEOREM JobsRest == Spec => SettledJobsRest
<1>1. TypeOK /\ [Next]_vars =>
        [\A j \in JobIds :
           /\ refresh[j] \in {"SUCCESS", "FAILED"}
           /\ \A p \in Processes : pc[p] \in Working => job[p] # j
           => refresh'[j] = refresh[j]]_vars
  BY RestingStep
<1>2. QED
  BY <1>1, TypeCorrect, PTL DEF Spec, SettledJobsRest

-----------------------------------------------------------------------------
(* Who writes to a book when: the import before the book has an original    *)
(* that a job could rebuild it from, a worker only afterwards.              *)

OnJob == Working \cup {"claim"}

OneWriter ==
    /\ \A b \in Books : original[b] => import[b] = "done"
    /\ \A j \in JobIds : refresh[j] # "none" => original[j[1]]
    /\ \A p \in Processes : pc[p] \in OnJob => refresh[job[p]] # "none"

WriterInv == TypeOK /\ OneWriter

\* A step that neither makes a job nor puts a worker on one.
LEMMA SameWriters ==
    ASSUME TypeOK, OneWriter, original' = original,
           \A b \in Books : import[b] = "done" => import'[b] = "done",
           \A j \in JobIds : refresh'[j] # "none" <=> refresh[j] # "none",
           \A p \in Processes : pc'[p] \in OnJob => pc[p] \in OnJob /\ job'[p] = job[p]
    PROVE  OneWriter'
<1>1. \A p \in Processes : job[p] \in JobIds
  BY DEF TypeOK
<1>2. \A j \in JobIds : j[1] \in Books
  BY DEF JobIds
<1>3. QED
  BY <1>1, <1>2 DEF OneWriter

LEMMA WriterImport ==
    ASSUME WriterInv, NEW b \in Books, ImportStep(b) \/ ReadForDelete(b) \/ DeleteBook(b)
    PROVE  OneWriter'
<1> USE DEF WriterInv, imports, deletes, jobs, reads, worker, books
<1>1. CASE FinishImport(b)
  BY <1>1 DEF FinishImport, OneWriter, TypeOK, JobIds
<1>2. CASE CreateBook(b)
  BY <1>2, SameWriters DEF CreateBook, TypeOK
<1>3. CASE RetireReplaced(b)
  BY <1>3, SameWriters DEF RetireReplaced, TypeOK
<1>4. CASE FailImport(b)
  BY <1>4, SameWriters DEF FailImport, Importing, TypeOK
<1>5. CASE WriteRows(b) \/ WriteSources(b)
  <2>1. PICK t \in {"rows", "sources"}, n \in {"sources", "retire"} : Write(b, t, n)
    BY <1>5 DEF WriteRows, WriteSources
  <2>2. /\ import[b] = t /\ import' = [import EXCEPT ![b] = n]
        /\ UNCHANGED <<original, jobs, worker>>
    BY <2>1 DEF Write
  <2>3. QED
    BY <2>2, SameWriters DEF TypeOK
<1>6. CASE \E p \in Processes : BeginImport(p, b)
  BY <1>6, SameWriters DEF BeginImport, TypeOK
<1>7. CASE ReadForDelete(b) \/ DeleteBook(b)
  BY <1>7, SameWriters DEF ReadForDelete, DeleteBook
<1>8. QED
  BY <1>1, <1>2, <1>3, <1>4, <1>5, <1>6, <1>7 DEF ImportStep

\* A write to a job that is there leaves the same jobs to be there.
LEMMA TouchKeeps ==
    ASSUME TypeOK, NEW j \in JobIds, NEW s \in {"PENDING", "SUCCESS", "FAILED"} \cup Running,
           Touch(j, s), refresh[j] # "none"
    PROVE  \A i \in JobIds : refresh'[i] # "none" <=> refresh[i] # "none"
BY DEF Touch, TypeOK, Running

LEMMA WriterScan ==
    ASSUME WriterInv, NEW p \in Processes, Scan(p)
    PROVE  OneWriter'
<1> USE DEF WriterInv, imports, deletes, jobs, reads, worker, books, At, Goto
<1>2. \A c \in Books : import[c] = "done" => import'[c] = "done"
  BY DEF Scan, StartTurn, Mark, MarkThrows, EndReads, Die, Importing, FindNothing, FindCurrent,
         FindUnavailable, Enqueue, Decide, PassOver, TypeOK
<1>3. original' = original
  BY DEF Scan, StartTurn, Mark, MarkThrows, EndReads, Die, FindNothing, FindCurrent, FindUnavailable,
         Enqueue, Decide, PassOver
<1>4. \A q \in Processes : pc'[q] \in OnJob => pc[q] \in OnJob /\ job'[q] = job[q]
  <2>1. CASE MarkThrows(p)
    BY <2>1 DEF MarkThrows, EndReads, Die, Rest, TypeOK, OnJob, Working, InTry, InTx
  <2>2. CASE ~MarkThrows(p)
    <3>1. job' = job /\ \E st \in {"idle", "scan", "mark"} : pc' = [pc EXCEPT ![p] = st] \/ pc' = pc
      BY <2>2 DEF Scan, StartTurn, Mark, FindNothing, FindCurrent, FindUnavailable, Enqueue, Decide,
                  PassOver
    <3>2. QED
      BY <3>1 DEF TypeOK, OnJob, Working, InTry, InTx
  <2>3. QED
    BY <2>1, <2>2
<1>5. CASE \E s \in todo[p] : Enqueue(p, s)
  <2>1. PICK s \in todo[p] : Enqueue(p, s)
    BY <1>5
  <2>2. <<s.book, Rule[p]>> \in JobIds /\ s.book \in Books
    BY Constants DEF TypeOK, Scanned, JobIds
  <2>3. original[s.book] /\ refresh' = [refresh EXCEPT ![<<s.book, Rule[p]>>] = "PENDING"]
    BY <2>1 DEF Enqueue
  <2>4. \A j \in JobIds : refresh'[j] # "none" => original[j[1]]
    BY <2>2, <2>3 DEF OneWriter, TypeOK
  <2>5. \A j \in JobIds : refresh[j] # "none" => refresh'[j] # "none"
    BY <2>2, <2>3 DEF TypeOK
  <2>6. \A q \in Processes : job[q] \in JobIds
    BY DEF TypeOK
  <2>7. QED
    BY <1>2, <1>3, <1>4, <2>4, <2>5, <2>6 DEF OneWriter
<1>6. CASE ~\E s \in todo[p] : Enqueue(p, s)
  <2>1. CASE StartTurn(p)
    <3>1. \A j \in JobIds : refresh'[j] # refresh[j] => refresh[j] \in Running /\ refresh'[j] = "PENDING"
      BY <2>1 DEF StartTurn
    <3>2. \A j \in JobIds : refresh'[j] # "none" <=> refresh[j] # "none"
      BY <3>1 DEF Running
    <3>3. QED
      BY <1>2, <1>3, <1>4, <3>2, SameWriters
  <2>2. CASE ~StartTurn(p)
    <3>1. refresh' = refresh
      BY <1>6, <2>2 DEF Scan, Mark, MarkThrows, EndReads, Die, FindNothing, FindCurrent, FindUnavailable,
                        Decide, PassOver
    <3>2. QED
      BY <1>2, <1>3, <1>4, <3>1, SameWriters
  <2>3. QED
    BY <2>1, <2>2
<1>7. QED
  BY <1>5, <1>6

LEMMA WriterWork ==
    ASSUME WriterInv, NEW p \in Processes, Work(p)
    PROVE  OneWriter'
<1> USE DEF WriterInv, imports, deletes, jobs, reads, worker, books, At, Goto
<1>0. job[p] \in JobIds
  BY DEF TypeOK
<1>1. UNCHANGED <<original, imports>>
  BY DEF Work, Pick, Claim, LoseClaim, Start, Parsed, ReadSources, Adopt, Clear, Replace, Commit,
         Succeed, FailJob, FailBook
<1>2. CASE \E j \in JobIds : Pick(p, j)
  BY <1>2 DEF Pick, OneWriter, TypeOK, OnJob, Working, InTry, InTx
<1>3. CASE ~\E j \in JobIds : Pick(p, j)
  <2>1. \A q \in Processes : pc'[q] \in OnJob => pc[q] \in OnJob /\ job'[q] = job[q]
    <3>1. CASE ReadSources(p) \/ Adopt(p) \/ Clear(p)
      BY <3>1 DEF ReadSources, Adopt, Clear, TypeOK, OnJob, Working, InTry, InTx
    <3>2. CASE Replace(p)
      BY <3>2 DEF Replace, Commit, TypeOK, OnJob, Working, InTry, InTx
    <3>3. CASE Claim(p) \/ LoseClaim(p) \/ Start(p) \/ Parsed(p)
      BY <3>3 DEF Claim, LoseClaim, Start, Parsed, Rest, TypeOK, OnJob, Working, InTry, InTx
    <3>4. CASE Succeed(p) \/ FailJob(p) \/ FailBook(p)
      BY <3>4 DEF Succeed, FailJob, FailBook, Rest, TypeOK, OnJob, Working, InTry, InTx
    <3>5. QED
      BY <1>3, <3>1, <3>2, <3>3, <3>4 DEF Work
  <2>2. \A j \in JobIds : refresh'[j] # "none" <=> refresh[j] # "none"
    <3>1. CASE refresh' = refresh
      BY <3>1
    <3>2. CASE refresh' # refresh
      <4>1. /\ pc[p] \in OnJob
            /\ \E st \in {"PENDING", "SUCCESS", "FAILED"} \cup Running : Touch(job[p], st)
        BY <1>3, <3>2
           DEF Work, Claim, LoseClaim, Start, Parsed, ReadSources, Adopt, Clear, Replace, Commit,
               Succeed, FailJob, FailBook, OnJob, Working, InTry, InTx, Running
      <4>2. QED
        BY <1>0, <4>1, TouchKeeps DEF OneWriter
    <3>3. QED
      BY <3>1, <3>2
  <2>3. QED
    BY <1>1, <2>1, <2>2, SameWriters
<1>4. QED
  BY <1>2, <1>3

LEMMA WriterStep ==
    ASSUME WriterInv, [Next]_vars
    PROVE  WriterInv'
<1> USE DEF WriterInv, imports, deletes, jobs, reads, worker, books
<1>1. ASSUME \/ \E p \in Processes : Throw(p) \/ Crash(p) \/ Restart(p)
             \/ \E j \in JobIds : Age(j)
             \/ UNCHANGED vars
      PROVE  OneWriter'
  <2>1. UNCHANGED <<original, refresh>>
    BY <1>1 DEF Throw, Crash, Restart, Die, Age, vars
  <2>2. \A c \in Books : import[c] = "done" => import'[c] = "done"
    BY <1>1 DEF Throw, Crash, Restart, Die, Importing, Age, vars, TypeOK
  <2>3. \A q \in Processes : pc'[q] \in OnJob => pc[q] \in OnJob /\ job'[q] = job[q]
    BY <1>1 DEF Throw, Crash, Restart, Die, Rest, Goto, Age, vars, TypeOK, OnJob, Working, InTry, InTx
  <2>4. QED
    BY <2>1, <2>2, <2>3, SameWriters
<1>2. OneWriter'
  BY <1>1, WriterImport, WriterScan, WriterWork DEF Next
<1>3. QED
  BY <1>2, TypeStep

LEMMA WriterInvariant == Spec => []WriterInv
<1>1. Init => WriterInv
  BY TypeInit DEF Init, WriterInv, OneWriter, OnJob, Working, InTry, InTx
<1>2. WriterInv /\ [Next]_vars => WriterInv'
  BY WriterStep
<1>3. QED
  BY <1>1, <1>2, PTL DEF Spec

-----------------------------------------------------------------------------
(* While no two replacements of a book overlap, a book holds rows of one    *)
(* revision.                                                                *)

\* What one process has made of a book; of a book being imported, its importer.
MadeBy(b, w) ==
    /\ import[b] \in {"rows", "sources", "retire", "link"} => w = importer[b]
    /\ parts[b] \subseteq {"rows", "sources"} \X {revision[b]} \X {w}
    /\ Exists(b) /\ import[b] \in {"sources", "retire", "link", "done"} =>
           <<"rows", revision[b], w>> \in parts[b]

ContentsOf(b) ==
    /\ import[b] \in {"none", "create"} => life[b] = "none" /\ parts[b] = {}
    /\ import[b] \in {"rows", "sources", "retire", "link"} => revision[b] = Rule[importer[b]]
    /\ \E w \in Processes : MadeBy(b, w)

\* A book is replaced by one transaction at a time, which then misses nothing.
Alone ==
    /\ \A p, q \in Processes : Replacing(p) /\ Replacing(q) /\ Book(p) = Book(q) => p = q
    /\ \A p \in Processes : missed[p] = {}

ContentsInv == Alone /\ \A b \in Books : ContentsOf(b)

\* A step that begins no replacement and commits none.
LEMMA SameAlone ==
    ASSUME Alone,
           \A q \in Processes : missed'[q] \subseteq missed[q],
           \A q \in Processes : pc'[q] \in InTx => pc[q] \in InTx /\ job'[q] = job[q]
    PROVE  Alone'
BY DEF Alone, Replacing, Book

LEMMA AloneWork ==
    ASSUME ~OverlappingReplacements, TypeOK, Alone, NEW p \in Processes, Work(p)
    PROVE  Alone'
<1> USE DEF reads, worker, At, Goto
<1>1. CASE ReadSources(p)
  <2>1. /\ \A q \in Processes : Replacing(q) => Book(q) # Book(p)
        /\ missed' = missed /\ job' = job /\ \E st \in InTx : pc' = [pc EXCEPT ![p] = st]
    BY <1>1 DEF ReadSources, InTx
  <2>2. \A q \in Processes : /\ q # p /\ pc'[q] \in InTx => pc[q] \in InTx
                             /\ Book(q)' = Book(q)
    BY <2>1 DEF TypeOK, Book
  <2>3. QED
    BY <2>1, <2>2 DEF Alone, Replacing
<1>2. CASE Replace(p)
  <2>1. /\ pc' = [pc EXCEPT ![p] = "succeed"] /\ job' = job /\ pc[p] \in InTx
        /\ \E made :
              missed' = [q \in Processes |->
                  IF q = p THEN {}
                  ELSE missed[q] \cup {s \in made : /\ Replacing(q) /\ Book(q) = Book(p)
                                                    /\ s[1] = "rows" => pc[q] = "commit"}]
    BY <1>2 DEF Replace, Commit, InTx
  <2>2. \A q \in Processes : missed'[q] \subseteq missed[q]
    BY <2>1 DEF Alone, Replacing
  <2>3. \A q \in Processes : pc'[q] \in InTx => pc[q] \in InTx /\ job'[q] = job[q]
    BY <2>1 DEF TypeOK, InTx
  <2>4. QED
    BY <2>2, <2>3, SameAlone
<1>3. CASE Adopt(p) \/ Clear(p)
  BY <1>3, SameAlone DEF Adopt, Clear, TypeOK, InTx
<1>4. CASE Claim(p) \/ LoseClaim(p) \/ Start(p) \/ Parsed(p) \/ \E j \in JobIds : Pick(p, j)
  BY <1>4, SameAlone DEF Claim, LoseClaim, Start, Parsed, Pick, Rest, TypeOK, InTx
<1>5. CASE Succeed(p) \/ FailJob(p) \/ FailBook(p)
  BY <1>5, SameAlone DEF Succeed, FailJob, FailBook, Rest, TypeOK, InTx
<1>6. QED
  BY <1>1, <1>2, <1>3, <1>4, <1>5 DEF Work

LEMMA AloneStep ==
    ASSUME ~OverlappingReplacements, TypeOK, Alone, [Next]_vars
    PROVE  Alone'
<1> USE DEF reads, worker, Goto, At
<1>1. ASSUME NEW b \in Books, ImportStep(b) \/ ReadForDelete(b) \/ DeleteBook(b)
      PROVE  Alone'
  <2>1. UNCHANGED worker
    BY <1>1 DEF ImportStep, BeginImport, CreateBook, WriteRows, WriteSources, Write, RetireReplaced,
                FinishImport, FailImport, ReadForDelete, DeleteBook
  <2>2. QED
    BY <2>1, SameAlone
<1>2. ASSUME NEW p \in Processes, Scan(p)
      PROVE  Alone'
  <2>1. CASE MarkThrows(p)
    BY <2>1, SameAlone DEF MarkThrows, Die, EndReads, Rest, TypeOK, InTx
  <2>2. CASE ~MarkThrows(p)
    <3>1. /\ job' = job /\ missed' = missed
          /\ \E st \in {"idle", "scan", "mark"} : pc' = [pc EXCEPT ![p] = st] \/ pc' = pc
      BY <1>2, <2>2 DEF Scan, StartTurn, Mark, FindNothing, FindCurrent, FindUnavailable, Enqueue,
                        Decide, PassOver
    <3>2. QED
      BY <3>1, SameAlone DEF TypeOK, InTx
  <2>3. QED
    BY <2>1, <2>2
<1>3. ASSUME NEW p \in Processes, Throw(p) \/ Crash(p) \/ Restart(p)
      PROVE  Alone'
  BY <1>3, SameAlone DEF Throw, Crash, Die, Restart, EndReads, Rest, TypeOK, InTx
<1>4. CASE UNCHANGED vars \/ \E j \in JobIds : Age(j)
  BY <1>4, SameAlone DEF vars, Age
<1>5. QED
  BY <1>1, <1>2, <1>3, <1>4, AloneWork DEF Next

\* A step that leaves a book alone, or ends its import.
LEMMA SameContents ==
    ASSUME NEW b \in Books, ContentsOf(b),
           life'[b] = life[b], parts'[b] = parts[b], revision'[b] = revision[b],
           importer'[b] = importer[b], import'[b] = import[b] \/ import'[b] = "failed"
    PROVE  ContentsOf(b)'
<1>1. PICK w \in Processes : MadeBy(b, w)
  BY DEF ContentsOf
<1>2. MadeBy(b, w)'
  BY <1>1 DEF MadeBy, Exists
<1>3. QED
  BY <1>2 DEF ContentsOf

LEMMA ContentsInit == Init => ContentsInv
<1> SUFFICES ASSUME Init PROVE ContentsInv
  OBVIOUS
<1>1. Alone
  BY DEF Init, Alone, Replacing, InTx
<1>2. ASSUME NEW b \in Books
      PROVE  ContentsOf(b)
  <2>1. MadeBy(b, NoProcess)
    <3>1. CASE b \in OldBooks
      <4>1. /\ import[b] = "done" /\ revision[b] = OldRevision
            /\ OldContents("rows") \in parts[b]
            /\ parts[b] \subseteq {OldContents("rows"), OldContents("sources")}
        BY <3>1 DEF Init
      <4>2. QED
        BY <4>1 DEF MadeBy, OldContents
    <3>2. CASE b \notin OldBooks
      BY <3>2 DEF Init, MadeBy, Exists
    <3>3. QED
      BY <3>1, <3>2
  <2>2. QED
    BY <2>1, Constants DEF Init, ContentsOf
<1>3. QED
  BY <1>1, <1>2 DEF ContentsInv

LEMMA ContentsImport ==
    ASSUME TypeOK, \A c \in Books : ContentsOf(c), NEW b \in Books, ImportStep(b)
    PROVE  \A c \in Books : ContentsOf(c)'
<1> USE DEF imports, books
<1>1. PICK w \in Processes : MadeBy(b, w)
  BY DEF ContentsOf
<1>2. ASSUME NEW p \in Processes, BeginImport(p, b)
      PROVE  \A c \in Books : ContentsOf(c)'
  <2>1. MadeBy(b, w)'
    BY <1>1, <1>2 DEF BeginImport, MadeBy, Exists, TypeOK
  <2>2. ContentsOf(b)'
    BY <1>2, <2>1 DEF BeginImport, ContentsOf, TypeOK
  <2>3. QED
    BY <1>2, <2>2, SameContents DEF BeginImport, TypeOK
<1>3. CASE CreateBook(b)
  <2>1. MadeBy(b, importer[b])'
    BY <1>3 DEF CreateBook, ContentsOf, MadeBy, Exists, TypeOK
  <2>2. ContentsOf(b)'
    BY <1>3, <2>1 DEF CreateBook, ContentsOf, TypeOK
  <2>3. QED
    BY <1>3, <2>2, SameContents DEF CreateBook, TypeOK
<1>4. CASE WriteRows(b) \/ WriteSources(b)
  <2>1. PICK t \in {"rows", "sources"} :
            /\ import[b] = t
            /\ import' = [import EXCEPT ![b] = IF t = "rows" THEN "sources" ELSE "retire"]
            /\ parts' = [parts EXCEPT ![b] = @ \cup {<<t, Rule[importer[b]], importer[b]>>}]
            /\ Exists(b)
            /\ UNCHANGED <<life, revision, importer>>
    BY <1>4 DEF WriteRows, WriteSources, Write, Made
  <2>2. /\ w = importer[b] /\ revision'[b] = Rule[importer[b]] /\ importer'[b] = importer[b]
        /\ parts'[b] = parts[b] \cup {<<t, revision[b], w>>}
        /\ import'[b] = IF t = "rows" THEN "sources" ELSE "retire"
        /\ revision'[b] = revision[b]
    BY <1>1, <2>1 DEF ContentsOf, MadeBy, TypeOK
  <2>3. t = "sources" => <<"rows", revision[b], w>> \in parts[b]
    BY <1>1, <2>1 DEF MadeBy
  <2>4. MadeBy(b, w)'
    BY <1>1, <2>2, <2>3 DEF MadeBy
  <2>5. ContentsOf(b)'
    BY <2>2, <2>4 DEF ContentsOf
  <2>6. QED
    BY <2>1, <2>5, SameContents DEF TypeOK
<1>5. CASE RetireReplaced(b)
  <2>1. ASSUME NEW c \in Books
        PROVE  ContentsOf(c)'
    <3>1. PICK v \in Processes : MadeBy(c, v)
      BY DEF ContentsOf
    <3>2. /\ parts'[c] \subseteq parts[c]
          /\ \A s \in parts[c] : s[1] = "rows" => s \in parts'[c]
          /\ Exists(c)' => Exists(c)
          /\ life[c] = "none" => life'[c] = "none"
      BY <1>5 DEF RetireReplaced, Sources, Exists, Live, TypeOK
    <3>3. import'[c] = import[c] \/ (import[c] = "retire" /\ import'[c] = "link")
      BY <1>5 DEF RetireReplaced, TypeOK
    <3>4. revision' = revision /\ importer' = importer
      BY <1>5 DEF RetireReplaced
    <3>5. <<"rows", revision[c], v>>[1] = "rows"
      OBVIOUS
    <3>6. MadeBy(c, v)'
      BY <3>1, <3>2, <3>3, <3>4, <3>5 DEF MadeBy
    <3>7. QED
      BY <3>2, <3>3, <3>4, <3>6 DEF ContentsOf
  <2>2. QED
    BY <2>1
<1>6. CASE FinishImport(b)
  <2>1. MadeBy(b, w)'
    BY <1>1, <1>6 DEF FinishImport, MadeBy, Exists, TypeOK
  <2>2. ContentsOf(b)'
    BY <1>6, <2>1 DEF FinishImport, ContentsOf, TypeOK
  <2>3. QED
    BY <1>6, <2>2, SameContents DEF FinishImport, TypeOK
<1>7. CASE FailImport(b)
  BY <1>7, SameContents DEF FailImport, TypeOK
<1>8. QED
  BY <1>2, <1>3, <1>4, <1>5, <1>6, <1>7 DEF ImportStep

LEMMA ContentsDelete ==
    ASSUME TypeOK, \A c \in Books : ContentsOf(c), NEW b \in Books, ReadForDelete(b) \/ DeleteBook(b)
    PROVE  \A c \in Books : ContentsOf(c)'
<1> USE DEF imports, books
<1>1. CASE ReadForDelete(b)
  BY <1>1, SameContents DEF ReadForDelete
<1>2. CASE DeleteBook(b)
  <2>1. PICK w \in Processes : MadeBy(b, w)
    BY DEF ContentsOf
  <2>2. /\ life'[b] = "deleted" /\ parts'[b] = {} /\ life[b] # "none"
        /\ UNCHANGED <<import, importer, revision>>
    BY <1>2 DEF DeleteBook, Exists, TypeOK
  <2>3. MadeBy(b, w)'
    BY <2>1, <2>2 DEF MadeBy, Exists
  <2>4. ContentsOf(b)'
    BY <2>2, <2>3 DEF ContentsOf
  <2>5. QED
    BY <1>2, <2>4, SameContents DEF DeleteBook, TypeOK
<1>3. QED
  BY <1>1, <1>2

LEMMA ContentsReplace ==
    ASSUME WriterInv, Alone, \A c \in Books : ContentsOf(c), NEW p \in Processes, Replace(p)
    PROVE  \A c \in Books : ContentsOf(c)'
<1> USE DEF WriterInv, imports
<1>0. job[p] \in JobIds /\ Book(p) \in Books
  BY DEF TypeOK, JobIds, Book
<1>1. PICK b \in Books : b = Book(p)
  BY <1>0
<1>2. /\ parts' = [parts EXCEPT ![b] = (@ \cap missed[p]) \cup {Made(p, "rows"), Made(p, "sources")}]
      /\ revision' = [revision EXCEPT ![b] = Rule[p]]
      /\ UNCHANGED <<life, import, importer>>
  BY <1>1 DEF Replace, Commit
<1>3. import[b] = "done"
  BY <1>0, <1>1 DEF Replace, Commit, At, OneWriter, Book, OnJob, Working, InTry, InTx
<1>4. parts'[b] = {<<"rows", Rule[p], p>>, <<"sources", Rule[p], p>>} /\ revision'[b] = Rule[p]
  BY <1>2 DEF Alone, Made, TypeOK
<1>5. MadeBy(b, p)'
  BY <1>2, <1>3, <1>4 DEF MadeBy
<1>6. ContentsOf(b)'
  BY <1>2, <1>3, <1>5 DEF ContentsOf
<1>7. QED
  BY <1>2, <1>6, SameContents DEF TypeOK

LEMMA ContentsStep ==
    ASSUME ~OverlappingReplacements, WriterInv, ContentsInv, [Next]_vars
    PROVE  ContentsInv'
<1> USE DEF WriterInv, ContentsInv, imports, books
<1>1. ASSUME NEW p \in Processes, Scan(p) \/ Throw(p) \/ Crash(p) \/ Restart(p)
      PROVE  \A c \in Books : ContentsOf(c)'
  <2>1. /\ UNCHANGED <<life, parts, revision, importer>>
        /\ \A c \in Books : import'[c] = import[c] \/ import'[c] = "failed"
    BY <1>1 DEF Scan, StartTurn, Mark, MarkThrows, Die, FindNothing, FindCurrent, FindUnavailable,
                Enqueue, Decide, PassOver, Throw, Crash, Restart
  <2>2. QED
    BY <2>1, SameContents
<1>2. ASSUME NEW p \in Processes, Work(p), ~Replace(p)
      PROVE  \A c \in Books : ContentsOf(c)'
  <2>1. UNCHANGED <<life, parts, revision, importer, import>>
    BY <1>2 DEF Work, Pick, Claim, LoseClaim, Start, Parsed, ReadSources, Adopt, Clear, Succeed,
                FailJob, FailBook
  <2>2. QED
    BY <2>1, SameContents
<1>3. ASSUME UNCHANGED vars \/ \E j \in JobIds : Age(j)
      PROVE  \A c \in Books : ContentsOf(c)'
  <2>1. UNCHANGED <<life, parts, revision, importer, import>>
    BY <1>3 DEF vars, Age
  <2>2. QED
    BY <2>1, SameContents
<1>4. \A c \in Books : ContentsOf(c)'
  BY <1>1, <1>2, <1>3, ContentsImport, ContentsDelete, ContentsReplace DEF Next
<1>5. QED
  BY <1>4, AloneStep

\* Imports, deletions and workers of whatever releases interleave.  As long as
\* no two replacements of one book overlap, which nothing in the code sees to,
\* a book that is quoted holds the rows of one revision, the one it carries.
THEOREM ContentsCorrect == ASSUME ~OverlappingReplacements PROVE Spec => []RowsOfOneRevision
<1>1. Init => ContentsInv
  BY ContentsInit
<1>2. WriterInv /\ ContentsInv /\ [Next]_vars => ContentsInv'
  BY ~OverlappingReplacements, ContentsStep
<1>3. ContentsInv => RowsOfOneRevision
  <2>1. ASSUME NEW b \in Books, ContentsOf(b), Live(b), import[b] = "done"
        PROVE  /\ \E q \in Processes : <<"rows", revision[b], q>> \in parts[b]
               /\ \A s, t \in parts[b] : s[2] = revision[b] /\ (s[1] = t[1] => s = t)
    <3>1. PICK w \in Processes : MadeBy(b, w)
      BY <2>1 DEF ContentsOf
    <3>2. <<"rows", revision[b], w>> \in parts[b]
      BY <2>1, <3>1 DEF MadeBy, Live, Exists
    <3>3. \A s \in parts[b] : s = <<s[1], revision[b], w>>
      BY <3>1 DEF MadeBy
    <3>4. QED
      BY <3>2, <3>3
  <2>2. QED
    BY <2>1 DEF ContentsInv, RowsOfOneRevision
<1>4. QED
  BY <1>1, <1>2, <1>3, WriterInvariant, PTL DEF Spec

-----------------------------------------------------------------------------
(* A spent job has brought its book to its revision.                       *)

OneRule == \A p, q \in Processes : Rule[p] = Rule[q]

\* Jobs are for the revision that runs; what is about to succeed has written
\* it to its book.
SpentInv ==
    /\ \A j \in JobIds : refresh[j] # "none" => \E p \in Processes : j[2] = Rule[p]
    /\ \A j \in JobIds : refresh[j] = "SUCCESS" => revision[j[1]] >= j[2]
    /\ \A p \in Processes : pc[p] = "succeed" => revision[Book(p)] = Rule[p]

\* A step that makes no job, ends none well and writes no revision.
LEMMA SameSpent ==
    ASSUME TypeOK, SpentInv, revision' = revision,
           \A j \in JobIds : refresh'[j] # refresh[j] =>
               refresh[j] # "none" /\ refresh'[j] # "SUCCESS",
           \A p \in Processes : pc'[p] = "succeed" => pc[p] = "succeed" /\ job'[p] = job[p]
    PROVE  SpentInv'
<1>1. \A j \in JobIds : refresh'[j] # "none" => \E p \in Processes : j[2] = Rule[p]
  BY DEF SpentInv
<1>2. \A j \in JobIds : refresh'[j] = "SUCCESS" => revision'[j[1]] >= j[2]
  BY DEF SpentInv
<1>3. \A p \in Processes : pc'[p] = "succeed" => revision'[job'[p][1]] = Rule[p]
  BY DEF SpentInv, Book
<1>4. QED
  BY <1>1, <1>2, <1>3 DEF SpentInv, Book

LEMMA SpentImport ==
    ASSUME WriterInv, SpentInv, NEW b \in Books, ImportStep(b)
    PROVE  SpentInv'
<1> USE DEF WriterInv, imports, deletes, jobs, reads, worker, books
<1>1. CASE CreateBook(b)
  <2>1. ~original[b]
    BY <1>1 DEF CreateBook, OneWriter
  <2>2. \A j \in JobIds : refresh[j] # "none" => j[1] # b /\ revision'[j[1]] = revision[j[1]]
    BY <1>1, <2>1 DEF CreateBook, OneWriter, TypeOK, JobIds
  <2>3. \A p \in Processes : job[p] \in JobIds /\ (pc[p] = "succeed" => refresh[job[p]] # "none")
    BY DEF OneWriter, OnJob, Working, InTry, InTx, TypeOK
  <2>4. refresh' = refresh /\ pc' = pc /\ job' = job
    BY <1>1 DEF CreateBook
  <2>5. QED
    BY <2>2, <2>3, <2>4 DEF SpentInv, Book
<1>2. CASE ~CreateBook(b)
  <2>1. UNCHANGED <<revision, refresh, pc, job>>
    BY <1>2 DEF ImportStep, BeginImport, WriteRows, WriteSources, Write, RetireReplaced,
                FinishImport, FailImport
  <2>2. QED
    BY <2>1, SameSpent
<1>3. QED
  BY <1>1, <1>2

LEMMA SpentScan ==
    ASSUME WriterInv, SpentInv, NEW p \in Processes, Scan(p)
    PROVE  SpentInv'
<1> USE DEF WriterInv, imports, deletes, jobs, reads, worker, books, At, Goto
<1>1. revision' = revision
  BY DEF Scan, StartTurn, Mark, MarkThrows, Die, FindNothing, FindCurrent, FindUnavailable,
         Enqueue, Decide, PassOver
<1>2. \A q \in Processes : pc'[q] = "succeed" => pc[q] = "succeed" /\ job'[q] = job[q]
  <2>1. CASE MarkThrows(p)
    BY <2>1 DEF MarkThrows, EndReads, Die, Rest, TypeOK
  <2>2. CASE ~MarkThrows(p)
    <3>1. job' = job /\ \E st \in {"idle", "scan", "mark"} : pc' = [pc EXCEPT ![p] = st] \/ pc' = pc
      BY <2>2 DEF Scan, StartTurn, Mark, FindNothing, FindCurrent, FindUnavailable, Enqueue, Decide,
                  PassOver
    <3>2. QED
      BY <3>1 DEF TypeOK
  <2>3. QED
    BY <2>1, <2>2
<1>3. CASE \E s \in todo[p] : Enqueue(p, s)
  <2>1. PICK s \in todo[p] : Enqueue(p, s)
    BY <1>3
  <2>2. refresh' = [refresh EXCEPT ![<<s.book, Rule[p]>>] = "PENDING"]
    BY <2>1 DEF Enqueue
  <2>3. \A j \in JobIds : refresh'[j] # "none" => \E q \in Processes : j[2] = Rule[q]
    BY <2>2 DEF SpentInv, TypeOK
  <2>4. \A j \in JobIds : refresh'[j] = "SUCCESS" => refresh[j] = "SUCCESS"
    BY <2>2 DEF TypeOK
  <2>5. QED
    BY <1>1, <1>2, <2>3, <2>4 DEF SpentInv, Book
<1>4. CASE StartTurn(p)
  <2>1. \A j \in JobIds : refresh'[j] # refresh[j] => refresh[j] \in Running /\ refresh'[j] = "PENDING"
    BY <1>4 DEF StartTurn, TypeOK
  <2>2. QED
    BY <1>1, <1>2, <2>1, SameSpent DEF Running
<1>5. CASE ~StartTurn(p) /\ ~\E s \in todo[p] : Enqueue(p, s)
  <2>1. refresh' = refresh
    BY <1>5 DEF Scan, Mark, MarkThrows, Die, FindNothing, FindCurrent, FindUnavailable,
                Decide, PassOver
  <2>2. QED
    BY <1>1, <1>2, <2>1, SameSpent
<1>6. QED
  BY <1>3, <1>4, <1>5

LEMMA SpentWork ==
    ASSUME OneRule, WriterInv, SpentInv, NEW p \in Processes, Work(p)
    PROVE  SpentInv'
<1> USE DEF WriterInv, imports, deletes, jobs, reads, worker, books, At, Goto
<1>0. /\ job[p] \in JobIds /\ Book(p) \in Books /\ Book(p) = job[p][1]
      /\ \A q \in Processes : job[q] \in JobIds /\ Rule[q] \in Nat /\ Rule[q] = Rule[p]
  BY Constants, ConstantsOK DEF TypeOK, JobIds, Book, ConstantsOK, OneRule
<1>1. CASE Replace(p)
  <2>0. PICK b \in Books : b = Book(p)
    BY <1>0
  <2>1. /\ revision' = [revision EXCEPT ![b] = Rule[p]]
        /\ refresh' = refresh /\ job' = job /\ pc' = [pc EXCEPT ![p] = "succeed"]
    BY <1>1, <2>0 DEF Replace, Commit
  <2>2. ASSUME NEW j \in JobIds, refresh[j] = "SUCCESS"
        PROVE  revision'[j[1]] >= j[2]
    <3>1. j[1] \in Books /\ revision[j[1]] >= j[2]
      BY <2>2 DEF SpentInv, JobIds
    <3>2. PICK q \in Processes : j[2] = Rule[q]
      BY <2>2 DEF SpentInv
    <3>3. j[2] = Rule[p] /\ j[2] \in Nat
      BY <1>0, <3>2
    <3>4. CASE j[1] = b
      <4>1. revision'[j[1]] = Rule[p]
        BY <2>1, <3>4 DEF TypeOK
      <4>2. QED
        BY <3>3, <4>1
    <3>5. CASE j[1] # b
      <4>1. revision'[j[1]] = revision[j[1]]
        BY <2>1, <3>1, <3>5 DEF TypeOK
      <4>2. QED
        BY <3>1, <4>1
    <3>6. QED
      BY <3>4, <3>5
  <2>3. \A q \in Processes : pc'[q] = "succeed" => revision'[job[q][1]] = Rule[q]
    BY <1>0, <2>0, <2>1 DEF SpentInv, Book, TypeOK, JobIds
  <2>4. QED
    BY <2>1, <2>2, <2>3 DEF SpentInv, Book
<1>2. CASE Succeed(p)
  <2>1. /\ revision' = revision
        /\ refresh' = [refresh EXCEPT ![job[p]] = "SUCCESS"]
        /\ pc[p] = "succeed"
    BY <1>2 DEF Succeed, Touch
  <2>2. \A q \in Processes : pc'[q] = "succeed" => pc[q] = "succeed" /\ job'[q] = job[q]
    BY <1>2 DEF Succeed, Rest, TypeOK
  <2>3. refresh[job[p]] # "none"
    BY <2>1 DEF OneWriter, OnJob, Working, InTry, InTx
  <2>4. revision[job[p][1]] >= job[p][2]
    BY <1>0, <2>1, <2>3 DEF SpentInv
  <2>5. \A j \in JobIds : refresh'[j] # "none" => \E q \in Processes : j[2] = Rule[q]
    BY <2>1, <2>3 DEF SpentInv, TypeOK
  <2>6. \A j \in JobIds : refresh'[j] = "SUCCESS" => revision[j[1]] >= j[2]
    BY <1>0, <2>1, <2>4 DEF SpentInv, TypeOK
  <2>7. QED
    BY <2>1, <2>2, <2>5, <2>6 DEF SpentInv, Book
<1>3. CASE ~Replace(p) /\ ~Succeed(p)
  <2>1. revision' = revision
    BY <1>3 DEF Work, Pick, Claim, LoseClaim, Start, Parsed, ReadSources, Adopt, Clear, FailJob, FailBook
  <2>2. \A q \in Processes : pc'[q] = "succeed" => pc[q] = "succeed" /\ job'[q] = job[q]
    <3>1. CASE Claim(p) \/ Start(p) \/ Parsed(p) \/ FailJob(p)
      BY <3>1 DEF Claim, Start, Parsed, FailJob, TypeOK
    <3>4. CASE ReadSources(p) \/ Adopt(p) \/ Clear(p)
      BY <3>4 DEF ReadSources, Adopt, Clear, TypeOK
    <3>2. CASE LoseClaim(p) \/ FailBook(p) \/ \E j \in JobIds : Pick(p, j)
      BY <3>2 DEF LoseClaim, FailBook, Pick, Rest, TypeOK
    <3>3. QED
      BY <1>3, <3>1, <3>2, <3>4 DEF Work
  <2>3. \A j \in JobIds : refresh'[j] # refresh[j] => refresh[j] # "none" /\ refresh'[j] # "SUCCESS"
    <3>1. CASE Claim(p) \/ Parsed(p) \/ FailJob(p)
      <4>1. refresh[job[p]] # "none"
        BY <3>1 DEF Claim, Parsed, FailJob, OneWriter, OnJob, Working, InTry, InTx
      <4>2. \/ refresh' = refresh
            \/ \E st \in {"PARSING", "IMPORTING", "FAILED"} :
                   refresh' = [refresh EXCEPT ![job[p]] = st]
        BY <3>1 DEF Claim, Parsed, FailJob, Touch
      <4>3. QED
        BY <1>0, <4>1, <4>2 DEF TypeOK
    <3>2. CASE ~(Claim(p) \/ Parsed(p) \/ FailJob(p))
      <4>1. refresh' = refresh
        BY <1>3, <3>2 DEF Work, Pick, LoseClaim, Start, ReadSources, Adopt, Clear, FailBook
      <4>2. QED
        BY <4>1
    <3>3. QED
      BY <3>1, <3>2
  <2>4. QED
    BY <2>1, <2>2, <2>3, SameSpent
<1>4. QED
  BY <1>1, <1>2, <1>3

LEMMA SpentStep ==
    ASSUME OneRule, WriterInv, SpentInv, [Next]_vars
    PROVE  SpentInv'
<1> USE DEF WriterInv, imports, deletes, jobs, reads, worker, books
<1>1. ASSUME \/ \E p \in Processes : Throw(p) \/ Crash(p) \/ Restart(p)
             \/ \E j \in JobIds : Age(j)
             \/ \E b \in Books : ReadForDelete(b) \/ DeleteBook(b)
             \/ UNCHANGED vars
      PROVE  SpentInv'
  <2>1. revision' = revision /\ refresh' = refresh
    BY <1>1 DEF Throw, EndReads, Crash, Restart, Die, Age, ReadForDelete, DeleteBook, vars
  <2>2. \A q \in Processes : pc'[q] = "succeed" => pc[q] = "succeed" /\ job'[q] = job[q]
    BY <1>1 DEF Throw, EndReads, Crash, Restart, Die, Rest, Goto, Age, ReadForDelete, DeleteBook, vars, TypeOK
  <2>3. QED
    BY <2>1, <2>2, SameSpent
<1>2. QED
  BY <1>1, SpentImport, SpentScan, SpentWork DEF Next

\* While every process runs the same release, a refresh job that is spent has
\* brought its book to its revision, so that no book is left behind for good.
THEOREM SpentJobsOfOneRelease == ASSUME OneRule PROVE Spec => []SpentJobsRebuilt
<1>1. Init => SpentInv
  BY DEF Init, SpentInv
<1>2. WriterInv /\ SpentInv /\ [Next]_vars => SpentInv'
  BY OneRule, SpentStep
<1>3. SpentInv => SpentJobsRebuilt
  BY DEF SpentInv, SpentJobsRebuilt
<1>4. QED
  BY <1>1, <1>2, <1>3, WriterInvariant, PTL DEF Spec

=============================================================================
