------------------------------ MODULE PriceBooks ------------------------------
(***************************************************************************)
(* Price books, the imports that make them and the worker that rebuilds    *)
(* them when a release raises the parser revision of their module          *)
(* (PrismaRepository).  Every API process runs one worker; imports run in  *)
(* the process that took the upload.  A step is one statement or one       *)
(* transaction; processes interleave between them.                         *)
(*                                                                         *)
(* All books here carry one file name, agent and module (not Dubai, which  *)
(* the worker passes over).  A book's contents are its PriceBookRows and   *)
(* its LegacyPricingSource with its rows, each tagged with the revision of *)
(* the parser that made it and the process it ran in.                      *)
(***************************************************************************)
EXTENDS Naturals

CONSTANTS
    Books,         \* price books that may come to exist
    OldBooks,      \* those there are at the start
    Processes,     \* API processes
    Revisions,     \* parser revisions of the module
    OldRevision,   \* the one the old books were parsed with
    Rule,          \* pricingParserRuleVersion in the code each process runs
    OverlappingReplacements,
                   \* whether two workers may be replacing one book at once
    Deleted,       \* bound on deletions: the books a user may delete
    MaxCrashes     \* bound on processes dying and failures that stay unrecorded

ASSUME ConstantsOK ==
    /\ OldBooks \subseteq Books /\ Deleted \subseteq Books
    /\ Revisions \subseteq Nat
    /\ OldRevision \in Revisions
    /\ Rule \in [Processes -> Revisions]
    /\ OverlappingReplacements \in BOOLEAN
    /\ MaxCrashes \in Nat
    /\ Books # {} /\ Processes # {}

VARIABLES
    life,      \* of a book: deletedAt set is "replaced", no row is "deleted"
    revision,  \* parserRuleVersion
    shown,     \* refreshStatus
    parts,     \* the contents, as <<table, revision, process>>
    original,  \* an IMPORT job with a filePath names the book
    unlinked,  \* sources of this file name without a book, as <<book made for, source>>
    import,    \* how far the import that makes the book has come
    importer,  \* and the process it runs in
    seen,      \* the live books it read before it began, to be replaced
    deleting,  \* books a deletion under way has read the sources of
    late,      \* and the sources written to the book since
    refresh,   \* status of the RULE_REFRESH job, by book and revision
    aged,      \* the running ones untouched for ten minutes
    up,        \* processes that run
    pc,        \* where each worker is
    todo,      \* books its scan has still to consider, as it read them
    mark,      \* the refreshStatus it is about to write
    job,       \* the job it is about to claim or works on
    taken,     \* the unlinked source its transaction takes over
    missed,    \* contents of its book committed since its transaction read them
    crashes

books   == <<life, revision, shown, parts, original, unlinked>>
imports == <<import, importer, seen>>
deletes == <<deleting, late>>
jobs    == <<refresh, aged>>
reads   == <<taken, missed>>
worker  == <<up, pc, todo, mark, job, reads, crashes>>
vars    == <<books, imports, deletes, jobs, worker>>

\* The unique dedupeKey, rule-refresh:<book>:<revision>.
JobIds == Books \X Revisions

Running == {"PARSING", "IMPORTING"}
Shown   == {"CURRENT", "PENDING", "RUNNING", "FAILED", "UNAVAILABLE"}
Marks   == [book : Books, status : Shown]
Scanned == [book : Books, stale : BOOLEAN]
Contents == {"rows", "sources"} \X Revisions \X Processes

Live(b) == life[b] = "live"
\* PriceBook rows stay when a book is replaced; updates by id reach them.
Exists(b) == life[b] \in {"live", "replaced"}
Sources(b) == {s \in parts[b] : s[1] = "sources"}

\* What a variable of an import or a worker holds while it means nothing.
NoProcess == CHOOSE p \in Processes : TRUE
NoMark    == [book |-> CHOOSE b \in Books : TRUE, status |-> "CURRENT"]
NoJob     == <<CHOOSE b \in Books : TRUE, OldRevision>>

\* Inside the transaction of replacePriceBookRowsFromRuleRefresh.
InTx    == {"adopt", "clear", "commit"}
\* Inside the try of processPriceBookRuleRefreshJob.
InTry   == {"start", "parse", "replace", "succeed"} \cup InTx
Working == InTry \cup {"failjob", "failbook"}
AtStep  == {"idle", "scan", "mark", "claim"} \cup Working

OldContents(table) == <<table, OldRevision, NoProcess>>

Init ==
    /\ life = [b \in Books |-> IF b \in OldBooks THEN "live" ELSE "none"]
    /\ revision = [b \in Books |-> OldRevision]
    /\ shown = [b \in Books |-> "CURRENT"]
    \* The earliest imports left their source without the book's id.
    /\ unlinked \in SUBSET (OldBooks \X {OldContents("sources")})
    /\ parts = [b \in Books |->
           IF b \notin OldBooks THEN {}
           ELSE {OldContents("rows")} \cup
                {s \in {OldContents("sources")} : <<b, s>> \notin unlinked}]
    /\ original \in [Books -> BOOLEAN]
    /\ \A b \in Books \ OldBooks : ~original[b]
    /\ import = [b \in Books |-> IF b \in OldBooks THEN "done" ELSE "none"]
    /\ importer = [b \in Books |-> NoProcess]
    /\ seen = [b \in Books |-> {}]
    /\ deleting = {}
    /\ late = [b \in Books |-> {}]
    /\ refresh = [j \in JobIds |-> "none"]
    /\ aged = {}
    /\ up = Processes
    /\ pc = [p \in Processes |-> "idle"]
    /\ todo = [p \in Processes |-> {}]
    /\ mark = [p \in Processes |-> NoMark]
    /\ job = [p \in Processes |-> NoJob]
    /\ taken = [p \in Processes |-> {}]
    /\ missed = [p \in Processes |-> {}]
    /\ crashes = 0

-----------------------------------------------------------------------------
(* An import: persistPriceBookRows, alone or in processPriceBookImportJob. *)

\* The live books of this file, agent and module are read first.
BeginImport(p, b) ==
    /\ p \in up /\ import[b] = "none"
    /\ import' = [import EXCEPT ![b] = "create"]
    /\ importer' = [importer EXCEPT ![b] = p]
    /\ seen' = [seen EXCEPT ![b] = {c \in Books : Live(c)}]
    /\ UNCHANGED <<books, deletes, jobs, worker>>

\* Mutant: the job names the book from the start, as the import for Dubai does.
CreateBookLinked(b) ==
    /\ import[b] = "create"
    /\ import' = [import EXCEPT ![b] = "rows"]
    /\ life' = [life EXCEPT ![b] = "live"]
    /\ revision' = [revision EXCEPT ![b] = Rule[importer[b]]]
    /\ shown' = [shown EXCEPT ![b] = "CURRENT"]
    /\ original' = [original EXCEPT ![b] = TRUE]
    /\ UNCHANGED <<parts, unlinked, importer, seen, deletes, jobs, worker>>

CreateBook(b) ==
    /\ import[b] = "create"
    /\ import' = [import EXCEPT ![b] = "rows"]
    /\ life' = [life EXCEPT ![b] = "live"]
    /\ revision' = [revision EXCEPT ![b] = Rule[importer[b]]]
    /\ shown' = [shown EXCEPT ![b] = "CURRENT"]
    /\ UNCHANGED <<parts, original, unlinked, importer, seen, deletes, jobs, worker>>

\* A table is written in batches, which fail once the book they name is gone.
\* The sources go with the rows that lookups by module read.
Made(p, table) == <<table, Rule[p], p>>

Write(b, table, next) ==
    /\ import[b] = table /\ Exists(b)
    /\ import' = [import EXCEPT ![b] = next]
    /\ parts' = [parts EXCEPT ![b] = @ \cup {Made(importer[b], table)}]
    /\ UNCHANGED <<life, revision, shown, original, unlinked, importer, seen, deleting, jobs, worker>>

WriteRows(b) == Write(b, "rows", "sources") /\ UNCHANGED late

\* A deletion that has read the sources of the book does not know these.
Late(b, s) == late' = IF b \in deleting THEN [late EXCEPT ![b] = @ \cup {s}] ELSE late

WriteSources(b) ==
    /\ Write(b, "sources", "retire")
    /\ Late(b, Made(importer[b], "sources"))

\* One transaction ends the books that were live when the import began, and
\* their sources.
RetireReplaced(b) ==
    /\ import[b] = "retire"
    /\ import' = [import EXCEPT ![b] = "link"]
    /\ life' = [c \in Books |-> IF c \in seen[b] /\ Live(c) THEN "replaced" ELSE life[c]]
    /\ parts' = [c \in Books |-> IF c \in seen[b] THEN parts[c] \ Sources(c) ELSE parts[c]]
    /\ UNCHANGED <<revision, shown, original, unlinked, importer, seen, deletes, jobs, worker>>

\* Only now does the IMPORT job name the book.  An import without an upload
\* (importPriceBook) has no job.
FinishImport(b) ==
    /\ import[b] = "link"
    /\ import' = [import EXCEPT ![b] = "done"]
    /\ \E kept \in BOOLEAN : original' = [original EXCEPT ![b] = kept]
    /\ UNCHANGED <<life, revision, shown, parts, unlinked, importer, seen, deletes, jobs, worker>>

Importing(b) == import[b] \in {"create", "rows", "sources", "retire", "link"}

\* A statement fails.  What was written stays; a retry is another import.
FailImport(b) ==
    /\ Importing(b)
    /\ import' = [import EXCEPT ![b] = "failed"]
    /\ UNCHANGED <<books, importer, seen, deletes, jobs, worker>>

-----------------------------------------------------------------------------
(* deletePriceBook reads the sources before its transaction.               *)

ReadForDelete(b) ==
    /\ b \in Deleted /\ Live(b) /\ b \notin deleting
    /\ deleting' = deleting \cup {b}
    /\ UNCHANGED <<late, books, imports, jobs, worker>>

\* Sources written in between are not among those it deletes; the foreign
\* key then sets their book to null.
DeleteBook(b) ==
    /\ b \in deleting /\ Exists(b)
    /\ deleting' = deleting \ {b}
    /\ late' = [late EXCEPT ![b] = {}]
    /\ life' = [life EXCEPT ![b] = "deleted"]
    /\ parts' = [parts EXCEPT ![b] = {}]
    /\ unlinked' = unlinked \cup {<<b, s>> : s \in Sources(b) \cap late[b]}
    /\ UNCHANGED <<revision, shown, original, imports, jobs, worker>>

-----------------------------------------------------------------------------
(* A turn of the worker, runPriceBookRuleRefreshWorker.                    *)

At(p, step) == p \in up /\ pc[p] = step
Goto(p, step) == pc' = [pc EXCEPT ![p] = step]
Show(b, status) == shown' = [shown EXCEPT ![b] = status]

\* Any write to a job renews its updatedAt.
Touch(j, status) ==
    /\ refresh' = [refresh EXCEPT ![j] = status]
    /\ aged' = aged \ {j}

\* Mutant: the turn begins without the recovery.
StartTurnOnly(p) ==
    /\ At(p, "idle") /\ Goto(p, "scan")
    /\ todo' = [todo EXCEPT ![p] =
           {s \in Scanned : /\ Live(s.book)
                            /\ s.stale = (revision[s.book] < Rule[p])
                            /\ s.stale \/ shown[s.book] # "CURRENT"}]
    /\ UNCHANGED <<books, imports, deletes, jobs, up, mark, job, reads, crashes>>

\* At the start of a process, when a price book page is read, or again while
\* jobs are pending.  recoverStalledPriceBookRefreshJobs writes jobs only, so
\* the read of all books that enqueueStalePriceBookRefreshJobs begins with is
\* made one step with it.  Books shown CURRENT at the revision need nothing.
StartTurn(p) ==
    /\ At(p, "idle") /\ Goto(p, "scan")
    /\ refresh' = [j \in JobIds |->
           IF j \in aged /\ refresh[j] \in Running THEN "PENDING" ELSE refresh[j]]
    /\ aged' = {j \in aged : refresh[j] \notin Running}
    /\ todo' = [todo EXCEPT ![p] =
           {s \in Scanned : /\ Live(s.book)
                            /\ s.stale = (revision[s.book] < Rule[p])
                            /\ s.stale \/ shown[s.book] # "CURRENT"}]
    /\ UNCHANGED <<books, imports, deletes, up, mark, job, reads, crashes>>

\* One book is looked at: what is to be written to its refreshStatus?
Decide(p, s, status) ==
    /\ At(p, "scan") /\ s \in todo[p] /\ Goto(p, "mark")
    /\ todo' = [todo EXCEPT ![p] = @ \ {s}]
    /\ mark' = [mark EXCEPT ![p] = [book |-> s.book, status |-> status]]
    /\ UNCHANGED <<books, imports, deletes, aged, up, job, reads, crashes>>

FindCurrent(p, s) ==
    /\ ~s.stale
    /\ Decide(p, s, "CURRENT")
    /\ UNCHANGED refresh

FindUnavailable(p, s) ==
    /\ s.stale /\ ~original[s.book]
    /\ refresh[<<s.book, Rule[p]>>] \in {"none", "SUCCESS"}
    /\ Decide(p, s, "UNAVAILABLE")
    /\ UNCHANGED refresh

Enqueue(p, s) ==
    /\ s.stale /\ original[s.book]
    /\ refresh[<<s.book, Rule[p]>>] = "none"
    /\ Decide(p, s, "PENDING")
    /\ refresh' = [refresh EXCEPT ![<<s.book, Rule[p]>>] = "PENDING"]

\* A job under way or failed stands; over one that succeeded the create meets
\* the unique key.
PassOver(p, s) ==
    /\ At(p, "scan") /\ s \in todo[p]
    /\ s.stale /\ refresh[<<s.book, Rule[p]>>] # "none"
    /\ refresh[<<s.book, Rule[p]>>] = "SUCCESS" => original[s.book]
    /\ todo' = [todo EXCEPT ![p] = @ \ {s}]
    /\ UNCHANGED <<books, imports, deletes, jobs, up, pc, mark, job, reads, crashes>>

Mark(p) ==
    /\ At(p, "mark") /\ Exists(mark[p].book) /\ Goto(p, "scan")
    /\ Show(mark[p].book, mark[p].status)
    /\ mark' = [mark EXCEPT ![p] = NoMark]
    /\ UNCHANGED <<life, revision, parts, original, unlinked, imports, deletes, jobs,
                   up, todo, job, reads, crashes>>

\* findFirst
Pick(p, j) ==
    /\ At(p, "scan") /\ todo[p] = {} /\ Goto(p, "claim")
    /\ refresh[j] = "PENDING"
    /\ job' = [job EXCEPT ![p] = j]
    /\ UNCHANGED <<books, imports, deletes, jobs, up, todo, mark, reads, crashes>>

FindNothing(p) ==
    /\ At(p, "scan") /\ todo[p] = {} /\ Goto(p, "idle")
    /\ \A j \in JobIds : refresh[j] # "PENDING"
    /\ UNCHANGED <<books, imports, deletes, jobs, up, todo, mark, job, reads, crashes>>

\* Mutant: the claim does not look at the status again.
ClaimBlindly(p) ==
    /\ At(p, "claim") /\ Goto(p, "start")
    /\ Touch(job[p], "PARSING")
    /\ UNCHANGED <<books, imports, deletes, up, todo, mark, job, reads, crashes>>

\* updateMany where the job is still PENDING
Claim(p) ==
    /\ At(p, "claim") /\ refresh[job[p]] = "PENDING" /\ Goto(p, "start")
    /\ Touch(job[p], "PARSING")
    /\ UNCHANGED <<books, imports, deletes, up, todo, mark, job, reads, crashes>>

\* The turn is over.
Rest(p) == Goto(p, "idle") /\ job' = [job EXCEPT ![p] = NoJob]

LoseClaim(p) ==
    /\ At(p, "claim") /\ refresh[job[p]] # "PENDING" /\ Rest(p)
    /\ UNCHANGED <<books, imports, deletes, jobs, up, todo, mark, reads, crashes>>

-----------------------------------------------------------------------------
(* processPriceBookRuleRefreshJob                                          *)

Book(p) == job[p][1]

\* Mutant: the book is shown the status of its job.
StartAsJob(p) ==
    /\ At(p, "start") /\ Exists(Book(p)) /\ Goto(p, "parse")
    /\ Show(Book(p), "PARSING")
    /\ UNCHANGED <<life, revision, parts, original, unlinked, imports, deletes, jobs,
                   up, todo, mark, job, reads, crashes>>

\* Only the step and one or two tables change.
Start(p) ==
    /\ At(p, "start")
    /\ \/ /\ Exists(Book(p)) /\ Goto(p, "parse")
          /\ Show(Book(p), "RUNNING")
       \/ /\ ~Exists(Book(p)) /\ Goto(p, "failjob")
          /\ UNCHANGED shown
    /\ UNCHANGED <<life, revision, parts, original, unlinked, imports, deletes, jobs,
                   up, todo, mark, job, reads, crashes>>

\* The workbook is parsed; then the book is looked up, outside the transaction.
Parsed(p) ==
    /\ At(p, "parse")
    /\ Touch(job[p], "IMPORTING")
    /\ IF Live(Book(p)) THEN Goto(p, "replace") ELSE Goto(p, "failjob")
    /\ UNCHANGED <<books, imports, deletes, up, todo, mark, job, reads, crashes>>

(* The transaction of replacePriceBookRowsFromRuleRefresh is READ COMMITTED *)
(* and locks no book: other steps run between its statements, and what they *)
(* commit after it has read a table is missed by its deletions.             *)

Replacing(p) == pc[p] \in InTx

\* What the transaction is about to delete or has deleted, as <<book, source>>.
OldSources(p) ==
    taken[p] \cup {<<Book(p), s>> : s \in Sources(Book(p)) \ missed[p]}

ReadSources(p) ==
    /\ At(p, "replace")
    /\ OverlappingReplacements \/ \A q \in Processes : Replacing(q) => Book(q) # Book(p)
    /\ Goto(p, IF Sources(Book(p)) = {} THEN "adopt" ELSE "clear")
    /\ UNCHANGED <<books, imports, deletes, jobs, up, todo, mark, job, reads, crashes>>

\* A book without a source takes over the only unlinked one; with several the
\* rebuild is refused.
Adopt(p) ==
    /\ At(p, "adopt") /\ Goto(p, "clear")
    /\ \/ unlinked = {} /\ UNCHANGED taken
       \/ /\ Exists(Book(p))
          /\ \E u \in unlinked : unlinked = {u} /\ taken' = [taken EXCEPT ![p] = {u}]
    /\ UNCHANGED <<books, imports, deletes, jobs, up, todo, mark, job, missed, crashes>>

\* The deletions.  They wait for a transaction that is deleting one of the same
\* sources; a source to be taken over may be gone by then, and the update of it
\* throws.  The deletion of the rows sees those committed so far.
Clear(p) ==
    /\ At(p, "clear") /\ Goto(p, "commit")
    /\ taken[p] \subseteq unlinked
    /\ \A q \in Processes : pc[q] = "commit" => OldSources(q) \cap OldSources(p) = {}
    /\ UNCHANGED <<books, imports, deletes, jobs, up, todo, mark, job, reads, crashes>>

\* The new contents join what the deletions missed.
Commit(p, made, b) ==
    /\ At(p, "commit") /\ Exists(b) /\ Goto(p, "succeed")
    /\ parts' = [parts EXCEPT ![b] = (@ \cap missed[p]) \cup made]
    /\ unlinked' = unlinked \ taken[p]
    /\ Show(b, "CURRENT")
    /\ taken' = [taken EXCEPT ![p] = {}]
    /\ missed' = [q \in Processes |->
           IF q = p THEN {}
           ELSE missed[q] \cup {s \in made : /\ Replacing(q) /\ Book(q) = b
                                             /\ s[1] = "rows" => pc[q] = "commit"}]
    /\ Late(b, Made(p, "sources"))
    /\ UNCHANGED <<life, original, deleting, imports, jobs, up, todo, mark, job, crashes>>

\* Mutant: the revision stays as it was.
ReplaceRows(p) ==
    /\ Commit(p, {Made(p, "rows"), Made(p, "sources")}, Book(p))
    /\ UNCHANGED revision

\* The revision is that of the code that runs, not the job's.
Replace(p) ==
    /\ Commit(p, {Made(p, "rows"), Made(p, "sources")}, Book(p))
    /\ revision' = [revision EXCEPT ![Book(p)] = Rule[p]]

\* The audit row that follows is written inside the try as well.
Succeed(p) ==
    /\ At(p, "succeed")
    /\ Touch(job[p], "SUCCESS")
    /\ \/ Rest(p)
       \/ Goto(p, "failjob") /\ UNCHANGED job
    /\ UNCHANGED <<books, imports, deletes, up, todo, mark, reads, crashes>>

\* What a transaction holds goes with it.
EndReads(p) ==
    /\ taken' = [taken EXCEPT ![p] = {}]
    /\ missed' = [missed EXCEPT ![p] = {}]

\* Anything in the try throws: no file, no rows, a transaction past its time.
Throw(p) ==
    /\ p \in up /\ pc[p] \in InTry /\ Goto(p, "failjob")
    /\ EndReads(p)
    /\ UNCHANGED <<books, imports, deletes, jobs, up, todo, mark, job, crashes>>

\* Neither of the two writes that record a failure is sure to happen: an error
\* in them is swallowed.
Unrecorded == crashes < MaxCrashes /\ crashes' = crashes + 1

FailJob(p) ==
    /\ At(p, "failjob") /\ Goto(p, "failbook")
    /\ \/ Touch(job[p], "FAILED") /\ UNCHANGED crashes
       \/ Unrecorded /\ UNCHANGED jobs
    /\ UNCHANGED <<books, imports, deletes, up, todo, mark, job, reads>>

FailBook(p) ==
    /\ At(p, "failbook") /\ Rest(p)
    /\ \/ Exists(Book(p)) /\ Show(Book(p), "FAILED") /\ UNCHANGED crashes
       \/ ~Exists(Book(p)) /\ UNCHANGED <<shown, crashes>>
       \/ Unrecorded /\ UNCHANGED shown
    /\ UNCHANGED <<life, revision, parts, original, unlinked, imports, deletes, jobs,
                   up, todo, mark, reads>>

-----------------------------------------------------------------------------
(* Processes and time.                                                     *)

\* A process ends: its worker and its imports are nowhere.
Die(p) ==
    /\ up' = up \ {p}
    /\ Rest(p)
    /\ todo' = [todo EXCEPT ![p] = {}]
    /\ mark' = [mark EXCEPT ![p] = NoMark]
    /\ EndReads(p)
    /\ import' = [b \in Books |->
           IF Importing(b) /\ importer[b] = p THEN "failed" ELSE import[b]]
    /\ UNCHANGED <<books, importer, seen, deletes, jobs>>

Crash(p) ==
    /\ p \in up /\ crashes < MaxCrashes
    /\ crashes' = crashes + 1
    /\ Die(p)

\* The book was deleted since the scan read it: the update throws where nobody
\* catches it, and the unhandled rejection ends the process.
MarkThrows(p) ==
    /\ At(p, "mark") /\ ~Exists(mark[p].book)
    /\ Die(p)
    /\ UNCHANGED crashes

\* restart: unless-stopped
Restart(p) ==
    /\ p \notin up
    /\ up' = up \cup {p}
    /\ UNCHANGED <<books, imports, deletes, jobs, pc, todo, mark, job, reads, crashes>>

\* Ten minutes pass without a write to the job, whether its worker died,
\* waits for the processor or parses still.
Age(j) ==
    /\ refresh[j] \in Running /\ j \notin aged
    /\ aged' = aged \cup {j}
    /\ UNCHANGED <<books, imports, deletes, refresh, worker>>

-----------------------------------------------------------------------------
ImportStep(b) ==
    \/ \E p \in Processes : BeginImport(p, b)
    \/ CreateBook(b) \/ WriteRows(b) \/ WriteSources(b)
    \/ RetireReplaced(b) \/ FinishImport(b) \/ FailImport(b)

Scan(p) ==
    \/ StartTurn(p) \/ Mark(p) \/ MarkThrows(p) \/ FindNothing(p)
    \/ \E s \in todo[p] :
           FindCurrent(p, s) \/ FindUnavailable(p, s) \/ Enqueue(p, s) \/ PassOver(p, s)

Work(p) ==
    \/ \E j \in JobIds : Pick(p, j)
    \/ Claim(p) \/ LoseClaim(p) \/ Start(p) \/ Parsed(p)
    \/ ReadSources(p) \/ Adopt(p) \/ Clear(p) \/ Replace(p)
    \/ Succeed(p) \/ FailJob(p) \/ FailBook(p)

Next ==
    \/ \E b \in Books : ImportStep(b) \/ ReadForDelete(b) \/ DeleteBook(b)
    \/ \E p \in Processes : Scan(p) \/ Work(p) \/ Throw(p) \/ Crash(p) \/ Restart(p)
    \/ \E j \in JobIds : Age(j)

Spec == Init /\ [][Next]_vars

\* A worker goes on once it may run, a page that asks for price books starts
\* turns again and again (it polls while a book is pending or running), dead
\* processes are restarted, and time passes.
LiveSpec ==
    /\ Spec
    /\ \A p \in Processes : /\ WF_vars(Scan(p))
                            /\ WF_vars(Work(p) \/ Throw(p))
                            /\ WF_vars(Restart(p))
    /\ \A j \in JobIds : WF_vars(Age(j))

-----------------------------------------------------------------------------
TypeOK ==
    /\ life \in [Books -> {"none", "live", "replaced", "deleted"}]
    /\ revision \in [Books -> Revisions]
    /\ shown \in [Books -> Shown]
    /\ parts \in [Books -> SUBSET Contents]
    /\ original \in [Books -> BOOLEAN]
    /\ unlinked \in SUBSET (Books \X Contents)
    /\ import \in [Books -> {"none", "create", "rows", "sources", "retire", "link",
                             "done", "failed"}]
    /\ importer \in [Books -> Processes]
    /\ seen \in [Books -> SUBSET Books]
    /\ deleting \in SUBSET Books
    /\ late \in [Books -> SUBSET Contents]
    /\ refresh \in [JobIds -> {"none", "PENDING", "SUCCESS", "FAILED"} \cup Running]
    /\ aged \in SUBSET JobIds
    /\ up \in SUBSET Processes
    /\ pc \in [Processes -> AtStep]
    /\ todo \in [Processes -> SUBSET Scanned]
    /\ mark \in [Processes -> Marks]
    /\ job \in [Processes -> JobIds]
    /\ taken \in [Processes -> SUBSET (Books \X Contents)]
    /\ missed \in [Processes -> SUBSET Contents]
    /\ crashes \in Nat

\* A book that is quoted holds one set of rows and sources, made by the parser
\* of the revision it carries: the worker never rebuilds a book whose import is
\* still writing it, because the job with the original file names the book only
\* at the end, and a replacement leaves nothing of what it replaces.
RowsOfOneRevision ==
    \A b \in Books : Live(b) /\ import[b] = "done" =>
        /\ \E p \in Processes : <<"rows", revision[b], p>> \in parts[b]
        /\ \A s, t \in parts[b] : s[2] = revision[b] /\ (s[1] = t[1] => s = t)

\* A refresh job that succeeded has brought its book to its revision.  Its
\* dedupeKey is spent: if the book were still behind, nothing would ever
\* rebuild it for this revision.
SpentJobsRebuilt ==
    \A j \in JobIds : refresh[j] = "SUCCESS" /\ Live(j[1]) => revision[j[1]] >= j[2]

\* A job that came to an end is left alone, unless a worker that took it
\* earlier is still on it: there is one attempt for each revision.
SettledJobsRest ==
    [][\A j \in JobIds :
          /\ refresh[j] \in {"SUCCESS", "FAILED"}
          /\ \A p \in Processes : pc[p] \in Working => job[p] # j
          => refresh'[j] = refresh[j]]_vars

\* A book behind the revision of the release, or shown as anything but
\* CURRENT, comes to be rebuilt and shown so, or to a failure or a missing
\* original that the page shows, or ceases to be.
Settled(b) ==
    \/ ~Live(b)
    \/ shown[b] = "CURRENT" /\ \A p \in Processes : revision[b] >= Rule[p]
    \/ \E p \in Processes : refresh[<<b, Rule[p]>>] = "FAILED"
    \/ shown[b] = "UNAVAILABLE" /\ ~original[b]

BooksSettle == \A b \in Books : ~Settled(b) ~> Settled(b)

=============================================================================
