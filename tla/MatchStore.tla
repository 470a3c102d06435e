------------------------------ MODULE MatchStore ------------------------------
(* The matches of one resume (table resume_job_matches) and the workers of    *)
(* src/services/job-matcher that recompute them: matchResume in matching.go,  *)
(* reached from the two event consumers in events.go, which take the mutex    *)
(* app.mu, and from the HTTP handlers in handlers.go, which do not.           *)
(*                                                                            *)
(* The database is PostgreSQL at READ COMMITTED: a DELETE finds the rows that *)
(* were committed when it began and waits for the row locks of others; INSERT *)
(* ... ON CONFLICT waits for an uncommitted row of the same key, then inserts *)
(* or updates.                                                                *)
EXTENDS Workflow, FiniteSets

CONSTANTS
    Jobs,           \* job ids, ordered as their text is
    LastVersion,    \* bound: what a run reads changes this often
    Score,          \* Score[v]: the hybrid score of each job that exists when
                    \* the jobs, keywords and signals have version v
    TopLimit,       \* TOP_MATCH_LIMIT; 0 or less: no limit
    EventWorkers,   \* consumer goroutines: the Kafka loop and the RabbitMQ loop
    HttpWorkers,    \* goroutines serving /internal/match/...
    MaxRuns,        \* bound: runs started
    MaxFaults       \* bound: database errors, cancelled requests, crashes

Workers  == EventWorkers \union HttpWorkers
Versions == 0..LastVersion
NoOne    == "no_one"

ASSUME MatchAssumption ==
    /\ Jobs \subseteq Nat
    /\ LastVersion \in Nat
    /\ \A v \in Versions : /\ DOMAIN Score[v] \subseteq Jobs
                           /\ \A j \in DOMAIN Score[v] : Score[v][j] \in Nat
    /\ TopLimit \in Int
    /\ EventWorkers \intersect HttpWorkers = {}
    /\ NoOne \notin Workers
    /\ MaxRuns \in Nat /\ MaxFaults \in Nat

VARIABLES
    version,    \* the current version of what a run reads
    rows,       \* rows[j]: the committed score of job j, 0 when there is no row
    pipeline,   \* the resume's pipeline_states row
    announced,  \* versions with a job_matches_generated event in the outbox
    mu,         \* the worker holding app.mu, or NoOne
    phase,      \* where in its handler worker w is
    kind,       \* what worker w serves, or served last: "resume" or
                \* "jobs" event, "http"; "none" before
    seen,       \* seen[w]: the version worker w has read
    snapshot,   \* snapshot[w]: rows its DELETE still has to delete
    deleted,    \* deleted[w]: rows it has deleted, uncommitted
    written,    \* written[w]: rows it has inserted or updated, uncommitted
    last,       \* history: the version of the last committed run
    stored,     \* history: the versions whose run has committed
    runs, faults

tables   == <<rows, pipeline, announced>>
txs      == <<snapshot, deleted, written>>
workers  == <<phase, kind, seen, txs>>
history  == <<last, stored>>
counters == <<runs, faults>>
vars     == <<version, tables, mu, workers, history, counters>>

-----------------------------------------------------------------------------
(* The ranking of a version: score descending, ties by job id.                *)
Ranked(v) == {j \in DOMAIN Score[v] : Score[v][j] > 0}

Better(v, i, j) == \/ Score[v][i] > Score[v][j]
                   \/ Score[v][i] = Score[v][j] /\ i < j

\* ranked[:topLimit], for every version
Top == [v \in Versions |->
          IF TopLimit =< 0 THEN Ranked(v)
          ELSE {j \in Ranked(v) :
                   Cardinality({i \in Ranked(v) : Better(v, i, j)}) < TopLimit}]

\* The insert loop goes through the ranking in order.
Pending(w) == Top[seen[w]] \ written[w]
NextJob(w) == {j \in Pending(w) : \A i \in Pending(w) \ {j} : Better(seen[w], j, i)}

\* The other transactions that hold the lock of row j.
Holders(w, j) == {q \in Workers \ {w} : j \in deleted[q] \union written[q]}

\* The row whose lock worker w asks for now.
Wants(w) == CASE phase[w] = "delete" -> snapshot[w]
              [] phase[w] = "insert" -> NextJob(w)
              [] OTHER               -> {}

WaitsFor(w, q) == \E j \in Wants(w) : q \in Holders(w, j)

Blocked == {w \in Workers : phase[w] \in {"delete", "insert"} /\ Wants(w) /= {}}

\* Each waits for another of them: PostgreSQL aborts one.
Deadlocked(w) == \E D \in SUBSET Blocked :
    w \in D /\ \A x \in D : \E y \in D : WaitsFor(x, y)

Goto(w, p) == phase' = [phase EXCEPT ![w] = p]

Fault == faults < MaxFaults /\ faults' = faults + 1

\* The transaction of w is over.
EndTx(w) == /\ deleted' = [deleted EXCEPT ![w] = {}]
            /\ written' = [written EXCEPT ![w] = {}]

-----------------------------------------------------------------------------
Init ==
    /\ version = 0
    /\ rows = [j \in Jobs |-> 0]
    /\ pipeline = UpsertState(NoPipelineRow, "parsed")
    /\ announced = {}
    /\ mu = NoOne
    /\ phase = [w \in Workers |-> "idle"]
    /\ kind = [w \in Workers |-> "none"]
    /\ seen = [w \in Workers |-> 0]
    /\ snapshot = [w \in Workers |-> {}]
    /\ deleted = [w \in Workers |-> {}]
    /\ written = [w \in Workers |-> {}]
    /\ last = 0
    /\ stored = {}
    /\ runs = 0
    /\ faults = 0

\* Scraping, processing, parsing or interactions change what a run reads.
ChangeInputs ==
    /\ version + 1 \in Versions
    /\ version' = version + 1
    /\ UNCHANGED <<tables, mu, workers, history, counters>>

\* handleKafkaEvent, handleRabbitEvent: a resume_parsed or job_indexed event.
StartEvent(w) ==
    /\ phase[w] = "idle"
    /\ runs < MaxRuns
    /\ runs' = runs + 1
    /\ \E k \in {"resume", "jobs"} : kind' = [kind EXCEPT ![w] = k]
    /\ Goto(w, "lock")
    /\ UNCHANGED <<version, tables, mu, seen, txs, history, faults>>

\* handleMatchAll, handleMatchResume: no lock.
StartHttp(w) ==
    /\ phase[w] = "idle"
    /\ runs < MaxRuns
    /\ runs' = runs + 1
    /\ kind' = [kind EXCEPT ![w] = "http"]
    /\ Goto(w, "read")
    /\ UNCHANGED <<version, tables, mu, seen, txs, history, faults>>

\* Mutant of Lock: the consumers take no lock either.
LockFree(w) ==
    /\ phase[w] = "lock"
    /\ mu' = w
    /\ Goto(w, IF kind[w] = "resume" THEN "mark" ELSE "read")
    /\ UNCHANGED <<version, tables, kind, seen, txs, history, counters>>

\* a.mu.Lock()
Lock(w) ==
    /\ phase[w] = "lock"
    /\ mu = NoOne
    /\ mu' = w
    /\ Goto(w, IF kind[w] = "resume" THEN "mark" ELSE "read")
    /\ UNCHANGED <<version, tables, kind, seen, txs, history, counters>>

\* A resume event sets the state to processed; an error is ignored.
MarkProcessed(w) ==
    /\ phase[w] = "mark"
    /\ pipeline' \in {pipeline, UpsertState(pipeline, "processed")}
    /\ Goto(w, "read")
    /\ UNCHANGED <<version, rows, announced, mu, kind, seen, txs, history, counters>>

\* Mutant of Return: the Unlock is missing.
ReturnLocked(w) ==
    /\ Goto(w, "idle")
    /\ UNCHANGED mu

\* The handler returns: the deferred Unlock runs.
Return(w) ==
    /\ Goto(w, "idle")
    /\ mu' = IF mu = w THEN NoOne ELSE mu

\* The three reads and the ranking.  Without any job the old rows stay.  Reads
\* that straddle a change see a mix of two versions, which is a version too.
Read(w) ==
    /\ phase[w] = "read"
    /\ seen' = [seen EXCEPT ![w] = version]
    /\ IF DOMAIN Score[version] = {} THEN Return(w)
       ELSE Goto(w, "begin") /\ UNCHANGED mu
    /\ UNCHANGED <<version, tables, kind, txs, history, counters>>

\* Begin, and the DELETE's snapshot.
BeginDelete(w) ==
    /\ phase[w] = "begin"
    /\ snapshot' = [snapshot EXCEPT ![w] = {j \in Jobs : rows[j] /= 0}]
    /\ Goto(w, "delete")
    /\ UNCHANGED <<version, tables, mu, kind, seen, deleted, written, history, counters>>

\* Mutant of DeleteRow: the DELETE is not part of the transaction.
DeleteRowAtOnce(w) ==
    /\ phase[w] = "delete"
    /\ \E j \in snapshot[w] :
          /\ Holders(w, j) = {}
          /\ rows' = [rows EXCEPT ![j] = 0]
          /\ snapshot' = [snapshot EXCEPT ![w] = @ \ {j}]
    /\ UNCHANGED <<version, pipeline, announced, mu, phase, kind, seen, deleted, written,
                   history, counters>>

\* The DELETE takes one of its rows once nobody else holds it.
DeleteRow(w) ==
    /\ phase[w] = "delete"
    /\ \E j \in snapshot[w] :
          /\ Holders(w, j) = {}
          /\ snapshot' = [snapshot EXCEPT ![w] = @ \ {j}]
          /\ deleted' = [deleted EXCEPT ![w] = @ \union {j}]
    /\ UNCHANGED <<version, tables, mu, phase, kind, seen, written, history, counters>>

DeleteDone(w) ==
    /\ phase[w] = "delete"
    /\ snapshot[w] = {}
    /\ Goto(w, "insert")
    /\ UNCHANGED <<version, tables, mu, kind, seen, txs, history, counters>>

\* INSERT ... ON CONFLICT (resume_id, job_id) DO UPDATE, in ranking order.
InsertRow(w) ==
    /\ phase[w] = "insert"
    /\ \E j \in NextJob(w) :
          /\ Holders(w, j) = {}
          /\ written' = [written EXCEPT ![w] = @ \union {j}]
    /\ UNCHANGED <<version, tables, mu, phase, kind, seen, snapshot, deleted, history,
                   counters>>

\* The rows after the transaction of w.  Rows another worker deleted and
\* inserted anew are not the rows a waiting DELETE found.
Apply(w) ==
    /\ rows' = [j \in Jobs |-> CASE j \in written[w] -> Score[seen[w]][j]
                                 [] j \in deleted[w] \ written[w] -> 0
                                 [] OTHER -> rows[j]]
    /\ snapshot' = [q \in Workers |-> snapshot[q] \ deleted[w]]

\* tx.Commit
Commit(w) ==
    /\ phase[w] = "insert"
    /\ Pending(w) = {}
    /\ Apply(w)
    /\ EndTx(w)
    /\ last' = seen[w]
    /\ stored' = stored \union {seen[w]}
    /\ Goto(w, "enqueue")
    /\ UNCHANGED <<version, pipeline, announced, mu, kind, seen, counters>>

\* The database commits, the answer is lost: matchResume returns the error.
CommitUnanswered(w) ==
    /\ phase[w] = "insert"
    /\ Pending(w) = {}
    /\ Fault
    /\ Apply(w)
    /\ EndTx(w)
    /\ last' = seen[w]
    /\ stored' = stored \union {seen[w]}
    /\ Goto(w, "failed")
    /\ UNCHANGED <<version, pipeline, announced, mu, kind, seen, runs>>

\* outbox.Insert(job_matches_generated), outside the transaction.
Enqueue(w) ==
    /\ phase[w] = "enqueue"
    /\ announced' = announced \union {seen[w]}
    /\ Goto(w, "matched")
    /\ UNCHANGED <<version, rows, pipeline, mu, kind, seen, txs, history, counters>>

\* It fails (database, or the request's context is cancelled), maybe after the
\* row was inserted: MarkFailure is called, and matchResume still returns nil.
EnqueueFails(w) ==
    /\ phase[w] = "enqueue"
    /\ Fault
    /\ announced' \in {announced, announced \union {seen[w]}}
    /\ pipeline' \in {pipeline, MarkFailure(pipeline)}
    /\ Return(w)
    /\ UNCHANGED <<version, rows, kind, seen, txs, history, runs>>

\* UpsertState(matched); its error is only logged.
MarkMatched(w) ==
    /\ phase[w] = "matched"
    /\ pipeline' \in {pipeline, UpsertState(pipeline, "matched")}
    /\ Return(w)
    /\ UNCHANGED <<version, rows, announced, kind, seen, txs, history, counters>>

\* Mutant of RollBack: the statements run outside a transaction.
RollBackNothing(w) ==
    /\ rows' = [j \in Jobs |-> CASE j \in written[w] -> Score[seen[w]][j]
                                 [] j \in deleted[w] \ written[w] -> 0
                                 [] OTHER -> rows[j]]
    /\ snapshot' = [q \in Workers |-> IF q = w THEN {} ELSE snapshot[q] \ deleted[w]]
    /\ EndTx(w)
    /\ Goto(w, "failed")
    /\ UNCHANGED <<version, pipeline, announced, mu, kind, seen, history, runs>>

\* The transaction is rolled back and matchResume returns the error.
RollBack(w) ==
    /\ EndTx(w)
    /\ snapshot' = [snapshot EXCEPT ![w] = {}]
    /\ Goto(w, "failed")
    /\ UNCHANGED <<version, tables, mu, kind, seen, history, runs>>

\* PostgreSQL ends a cycle of lock waits by failing one of the statements.
DeadlockVictim(w) ==
    /\ phase[w] \in {"delete", "insert"}
    /\ Deadlocked(w)
    /\ RollBack(w)
    /\ UNCHANGED faults

\* A read, a statement or the commit fails, or the client of an HTTP run leaves.
Fail(w) ==
    /\ phase[w] \in {"read", "begin", "delete", "insert"}
    /\ Fault
    /\ RollBack(w)

\* Only the resume event's handler records the failure.
ReturnError(w) ==
    /\ phase[w] = "failed"
    /\ IF kind[w] = "resume"
       THEN pipeline' \in {pipeline, MarkFailure(pipeline)}
       ELSE UNCHANGED pipeline
    /\ Return(w)
    /\ UNCHANGED <<version, rows, announced, kind, seen, txs, history, counters>>

\* The process dies with all its workers, and restarts.
Crash ==
    /\ Fault
    /\ mu' = NoOne
    /\ phase' = [w \in Workers |-> "idle"]
    /\ snapshot' = [w \in Workers |-> {}]
    /\ deleted' = [w \in Workers |-> {}]
    /\ written' = [w \in Workers |-> {}]
    /\ UNCHANGED <<version, tables, kind, seen, history, runs>>

-----------------------------------------------------------------------------
Step(w) ==
    \/ Lock(w) \/ MarkProcessed(w) \/ Read(w) \/ BeginDelete(w) \/ DeleteRow(w)
    \/ DeleteDone(w) \/ InsertRow(w) \/ Commit(w) \/ Enqueue(w) \/ MarkMatched(w)
    \/ ReturnError(w) \/ DeadlockVictim(w)

\* No run is going on and the bound allows no new one.
Exhausted == runs = MaxRuns /\ (\A w \in Workers : phase[w] = "idle") /\ UNCHANGED vars

Next ==
    \/ ChangeInputs \/ Crash \/ Exhausted
    \/ \E w \in EventWorkers : StartEvent(w)
    \/ \E w \in HttpWorkers : StartHttp(w)
    \/ \E w \in Workers : Step(w) \/ Fail(w) \/ EnqueueFails(w) \/ CommitUnanswered(w)

\* Go schedules every goroutine, PostgreSQL grants a free lock and breaks
\* deadlocks.
Fairness == \A w \in Workers : WF_vars(Step(w))

Spec == Init /\ [][Next]_vars /\ Fairness

-----------------------------------------------------------------------------
(* Properties.                                                                *)
Phases == {"idle", "lock", "mark", "read", "begin", "delete", "insert", "enqueue",
           "matched", "failed"}

\* Every variable has its type; a mutex is held by a consumer only.
TypeOK ==
    /\ version \in Versions
    /\ rows \in [Jobs -> Nat]
    /\ pipeline \in [state : States, retries : Nat]
    /\ announced \subseteq Versions /\ stored \subseteq Versions /\ last \in Versions
    /\ mu \in EventWorkers \union {NoOne}
    /\ phase \in [Workers -> Phases]
    /\ kind \in [Workers -> {"none", "resume", "jobs", "http"}]
    /\ seen \in [Workers -> Versions]
    /\ snapshot \in [Workers -> SUBSET Jobs]
    /\ deleted \in [Workers -> SUBSET Jobs]
    /\ written \in [Workers -> SUBSET Jobs]
    /\ runs \in 0..MaxRuns /\ faults \in 0..MaxFaults

\* The whole ranking of the run that committed last is in the table, with its
\* scores, although unlocked runs delete and insert the same rows meanwhile.
LastRunIsStored ==
    stored /= {} => \A j \in Top[last] : rows[j] = Score[last][j]

\* A row with a score of 0 or of no run that committed cannot be left behind by
\* rolled back or deadlocked runs.
RowsComeFromRuns ==
    \A j \in Jobs : rows[j] /= 0 =>
        \E v \in stored : j \in Top[v] /\ rows[j] = Score[v][j]

\* An event is announced only for matches that were committed before it.
AnnouncedWasStored == announced \subseteq stored

\* What holds of the table and the announcements whichever runs overlap.
StoreInv == TypeOK /\ LastRunIsStored /\ RowsComeFromRuns /\ AnnouncedWasStored

\* As long as no HTTP handler has started a run, every run has held app.mu.
MutexOnly == \A w \in HttpWorkers : kind[w] = "none"

\* With the mutex around every run the table is exactly the last ranking, and no more
\* than TOP_MATCH_LIMIT rows.  (An HTTP run beside another one can leave the union of
\* two rankings.)
ExactlyLastRanking ==
    MutexOnly /\ stored /= {} =>
        /\ \A j \in Top[last] : rows[j] = Score[last][j]
        /\ \A j \in Jobs \ Top[last] : rows[j] = 0

\* With the mutex around every run a ranking is never replaced by one computed
\* from older data.
NeverOlder == [][MutexOnly => last' >= last]_vars

\* The table that readers see is replaced as a whole: the deletes and inserts of runs
\* that overlap, fail and die in between are one step of MatchContract or none.
Contract == INSTANCE MatchContract WITH
    Scores    <- [v \in Versions |-> [j \in Jobs |-> IF j \in Top[v] THEN Score[v][j] ELSE 0]],
    table     <- rows,
    latest    <- last,
    published <- stored,
    turns     <- MutexOnly

RunsReplaceTable == Contract!Spec

\* Every run comes to its end: no deadlock of mutex and row locks lasts.
RunsEnd == \A w \in Workers : phase[w] /= "idle" ~> phase[w] = "idle"
===============================================================================
