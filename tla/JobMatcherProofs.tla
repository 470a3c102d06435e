---------------------------- MODULE JobMatcherProofs ----------------------------
(* Proofs about the job matcher: about its table (MatchStore), for any jobs,      *)
(* rankings and workers, about its sweeps (MatchSweeps), for any pool and runs,   *)
(* and about its functions (Ranking), for any words, texts, scores and pages.     *)
(* The three share no state.                                                      *)
EXTENDS MatchStore, MatchSweeps, Ranking,
        FiniteSetTheorems, SequenceTheorems, WellFoundedInduction, TLAPS

-----------------------------------------------------------------------------
(* The inductive invariant of the store.                                      *)

\* A worker's phase agrees with what it holds: only a run in its insert loop has
\* written, and nothing outside the ranking of the version it read; what it
\* announces is stored; a consumer past its lock has the mutex.
Placed(w) ==
    /\ phase[w] = "lock" => w \in EventWorkers
    /\ written[w] \subseteq Top[seen[w]]
    /\ phase[w] /= "insert" => written[w] = {}
    /\ phase[w] = "enqueue" => seen[w] \in stored
    /\ seen[w] =< version
    /\ w \in HttpWorkers /\ phase[w] /= "idle" => kind[w] = "http"
    /\ w \in EventWorkers /\ phase[w] \notin {"idle", "lock"} => mu = w

\* The transaction of w, when every run holds the mutex: it has found all the rows
\* there are, and it started from data no older than the last ranking.
Alone(w) ==
    /\ phase[w] = "delete" => \A j \in Jobs : rows[j] /= 0 => j \in snapshot[w] \union deleted[w]
    /\ phase[w] = "insert" => \A j \in Jobs : rows[j] /= 0 => j \in deleted[w]
    /\ phase[w] \in {"begin", "delete", "insert"} => seen[w] >= last

LastIsExact ==
    stored /= {} =>
        /\ \A j \in Top[last] : rows[j] = Score[last][j]
        /\ \A j \in Jobs \ Top[last] : rows[j] = 0

IInv ==
    /\ StoreInv
    /\ last =< version
    /\ \A w \in Workers : Placed(w)
    /\ MutexOnly => LastIsExact /\ \A w \in Workers : Alone(w)

-----------------------------------------------------------------------------
(* Lemmas about the operators.                                                *)

\* A ranking holds jobs of its version with a positive score.
LEMMA TopType ==
    ASSUME NEW v \in Versions, NEW j \in Top[v]
    PROVE  j \in Jobs /\ j \in DOMAIN Score[v] /\ Score[v][j] \in Nat /\ Score[v][j] > 0
<1>1. Top[v] \subseteq Ranked(v)
  BY DEF Top
<1> QED
  BY <1>1, MatchAssumption DEF Ranked

LEMMA PipelineType ==
    ASSUME NEW row \in [state : States, retries : Nat], NEW s \in States
    PROVE  /\ UpsertState(row, s) \in [state : States, retries : Nat]
           /\ MarkFailure(row) \in [state : States, retries : Nat]
<1>1. UpsertState(row, s) \in [state : States, retries : Nat]
  BY DEF UpsertState
<1>2. MarkFailure(row) \in [state : States, retries : Nat]
  BY DEF MarkFailure, States
<1> QED
  BY <1>1, <1>2

\* The next row of the insert loop belongs to the ranking.
LEMMA NextJobType == ASSUME NEW w \in Workers PROVE NextJob(w) \subseteq Top[seen[w]]
BY DEF NextJob, Pending

LEMMA VersionType == Versions \subseteq Nat /\ 0 \in Versions
BY MatchAssumption DEF Versions

-----------------------------------------------------------------------------
LEMMA InitInv == Init => IInv
<1> SUFFICES ASSUME Init PROVE IInv
  OBVIOUS
<1> USE MatchAssumption, VersionType DEF Init
<1>1. NoPipelineRow \in [state : States, retries : Nat] /\ "parsed" \in States
  BY DEF NoPipelineRow, States
<1>2. TypeOK
  BY <1>1, PipelineType DEF TypeOK, Phases
<1>3. StoreInv
  BY <1>2 DEF StoreInv, LastRunIsStored, RowsComeFromRuns, AnnouncedWasStored
<1>4. \A w \in Workers : Placed(w) /\ Alone(w)
  BY DEF Placed, Alone
<1> QED
  BY <1>3, <1>4 DEF IInv, LastIsExact

-----------------------------------------------------------------------------
(* Type correctness.                                                          *)
LEMMA ApplyType ==
    ASSUME TypeOK, NEW w \in Workers, Placed(w), Apply(w)
    PROVE  rows' \in [Jobs -> Nat] /\ snapshot' \in [Workers -> SUBSET Jobs]
<1>1. \A j \in written[w] : Score[seen[w]][j] \in Nat
  BY TopType DEF TypeOK, Placed
<1> QED
  BY <1>1 DEF Apply, TypeOK

LEMMA StepType == IInv /\ [Next]_vars => TypeOK'
<1> SUFFICES ASSUME IInv, [Next]_vars PROVE TypeOK'
  OBVIOUS
<1>0. TypeOK /\ \A w \in Workers : Placed(w)
  BY DEF IInv, StoreInv
<1>p. /\ pipeline \in [state : States, retries : Nat]
      /\ MarkFailure(pipeline) \in [state : States, retries : Nat]
      /\ \A s \in States : UpsertState(pipeline, s) \in [state : States, retries : Nat]
      /\ "processed" \in States /\ "matched" \in States
  BY <1>0, PipelineType DEF TypeOK, States
<1> USE <1>0, MatchAssumption DEF TypeOK, Workers, Phases, tables, txs, workers, history, counters
<1>1. CASE ChangeInputs
  BY <1>1 DEF ChangeInputs
<1>2. CASE Crash
  BY <1>2 DEF Crash, Fault
<1>3. ASSUME NEW w \in Workers, StartEvent(w) \/ StartHttp(w) PROVE TypeOK'
  BY <1>3 DEF StartEvent, StartHttp, Goto
<1>4. ASSUME NEW w \in Workers, Lock(w) PROVE TypeOK'
  BY <1>4 DEF Lock, Goto, Placed
<1>5. ASSUME NEW w \in Workers, MarkProcessed(w) PROVE TypeOK'
  BY <1>5, <1>p DEF MarkProcessed, Goto
<1>6. ASSUME NEW w \in Workers, Read(w) PROVE TypeOK'
  BY <1>6 DEF Read, Return, Goto
<1>7. ASSUME NEW w \in Workers, BeginDelete(w) PROVE TypeOK'
  BY <1>7 DEF BeginDelete, Goto
<1>8. ASSUME NEW w \in Workers, DeleteRow(w) \/ DeleteDone(w) PROVE TypeOK'
  BY <1>8 DEF DeleteRow, DeleteDone, Goto
<1>9. ASSUME NEW w \in Workers, InsertRow(w) PROVE TypeOK'
  <2>1. PICK j \in NextJob(w) : written' = [written EXCEPT ![w] = @ \union {j}]
    BY <1>9 DEF InsertRow
  <2>2. j \in Jobs
    BY <2>1, NextJobType, TopType
  <2> QED
    BY <1>9, <2>1, <2>2 DEF InsertRow
<1>10. ASSUME NEW w \in Workers, Commit(w) \/ CommitUnanswered(w) PROVE TypeOK'
  <2>1. rows' \in [Jobs -> Nat] /\ snapshot' \in [Workers -> SUBSET Jobs]
    BY <1>10, ApplyType DEF Commit, CommitUnanswered
  <2> QED
    BY <1>10, <2>1 DEF Commit, CommitUnanswered, EndTx, Goto, Fault
<1>11. ASSUME NEW w \in Workers, Enqueue(w) PROVE TypeOK'
  BY <1>11 DEF Enqueue, Goto
<1>12. ASSUME NEW w \in Workers, EnqueueFails(w) PROVE TypeOK'
  BY <1>12, <1>p DEF EnqueueFails, Return, Goto, Fault
<1>13. ASSUME NEW w \in Workers, MarkMatched(w) PROVE TypeOK'
  BY <1>13, <1>p DEF MarkMatched, Return, Goto
<1>14. ASSUME NEW w \in Workers, DeadlockVictim(w) \/ Fail(w) PROVE TypeOK'
  BY <1>14 DEF DeadlockVictim, Fail, RollBack, EndTx, Goto, Fault
<1>15. ASSUME NEW w \in Workers, ReturnError(w) PROVE TypeOK'
  BY <1>15, <1>p DEF ReturnError, Return, Goto
<1>16. CASE UNCHANGED vars
  BY <1>16 DEF vars
<1> QED
  BY <1>1, <1>2, <1>3, <1>4, <1>5, <1>6, <1>7, <1>8, <1>9, <1>10, <1>11, <1>12, <1>13,
     <1>14, <1>15, <1>16
  DEF Next, Step, Exhausted

-----------------------------------------------------------------------------
(* What a step of one worker leaves alone.                                    *)

Act(w) == Step(w) \/ Fail(w) \/ EnqueueFails(w) \/ CommitUnanswered(w)
                  \/ StartEvent(w) \/ StartHttp(w)

LEMMA Others ==
    ASSUME TypeOK, NEW w \in Workers, NEW q \in Workers, q /= w, Act(w)
    PROVE  /\ phase'[q] = phase[q] /\ seen'[q] = seen[q] /\ kind'[q] = kind[q]
           /\ deleted'[q] = deleted[q] /\ written'[q] = written[q]
           /\ mu = q => mu' = q
<1> USE DEF TypeOK, txs, workers
<1>0. NoOne \notin Workers
  BY MatchAssumption
<1>1. CASE StartEvent(w) \/ StartHttp(w) \/ MarkProcessed(w) \/ Enqueue(w)
  BY <1>1 DEF StartEvent, StartHttp, MarkProcessed, Enqueue, Goto
<1>2. CASE Lock(w)
  BY <1>0, <1>2 DEF Lock, Goto
<1>3. CASE Read(w) \/ EnqueueFails(w) \/ MarkMatched(w) \/ ReturnError(w)
  BY <1>3 DEF Read, EnqueueFails, MarkMatched, ReturnError, Return, Goto
<1>4. CASE BeginDelete(w) \/ DeleteRow(w) \/ DeleteDone(w) \/ InsertRow(w)
  BY <1>4 DEF BeginDelete, DeleteRow, DeleteDone, InsertRow, Goto
<1>5. CASE Commit(w) \/ CommitUnanswered(w)
  BY <1>5 DEF Commit, CommitUnanswered, EndTx, Goto
<1>6. CASE DeadlockVictim(w) \/ Fail(w)
  BY <1>6 DEF DeadlockVictim, Fail, RollBack, EndTx, Goto
<1> QED
  BY <1>1, <1>2, <1>3, <1>4, <1>5, <1>6 DEF Act, Step

\* Versions and runs only get newer; what an HTTP worker has served stays known.
LEMMA Grows ==
    ASSUME IInv, [Next]_vars
    PROVE  version' >= version /\ stored \subseteq stored' /\ version' \in Nat /\ version \in Nat
<1>1. version \in Nat
  BY VersionType DEF IInv, StoreInv, TypeOK
<1>2. CASE ChangeInputs
  BY <1>1, <1>2 DEF ChangeInputs, history
<1>3. ASSUME NEW w \in Workers, Act(w) PROVE version' = version /\ stored \subseteq stored'
  BY <1>3
  DEF Act, Step, StartEvent, StartHttp, Lock, MarkProcessed, Read, BeginDelete, DeleteRow,
      DeleteDone, InsertRow, Commit, Enqueue, MarkMatched, ReturnError, DeadlockVictim,
      Fail, RollBack, EnqueueFails, CommitUnanswered, history
<1>4. CASE Crash \/ UNCHANGED vars
  BY <1>1, <1>4 DEF Crash, vars, history
<1> QED
  BY <1>1, <1>2, <1>3, <1>4 DEF Next, Exhausted, Act, Workers

\* A worker's own step keeps its place.
LEMMA OwnPlaced ==
    ASSUME IInv, NEW w \in Workers, Act(w),
           StartEvent(w) => w \in EventWorkers, StartHttp(w) => w \in HttpWorkers
    PROVE  Placed(w)'
<1>0. TypeOK /\ Placed(w) /\ w \in EventWorkers \union HttpWorkers
  BY DEF IInv, StoreInv, Workers
<1>v. version \in Nat /\ seen[w] \in Nat /\ NoOne \notin Workers
  BY <1>0, VersionType, MatchAssumption DEF TypeOK
<1> USE <1>0, <1>v, MatchAssumption DEF TypeOK, Placed, txs, workers, history
<1>1. CASE StartEvent(w) \/ StartHttp(w)
  BY <1>1 DEF StartEvent, StartHttp, Goto, Workers
<1>2. CASE Lock(w)
  BY <1>2 DEF Lock, Goto
<1>3. CASE MarkProcessed(w) \/ Enqueue(w)
  BY <1>3 DEF MarkProcessed, Enqueue, Goto
<1>4. CASE Read(w)
  BY <1>4 DEF Read, Return, Goto
<1>5. CASE EnqueueFails(w) \/ MarkMatched(w) \/ ReturnError(w)
  BY <1>5 DEF EnqueueFails, MarkMatched, ReturnError, Return, Goto
<1>6. CASE BeginDelete(w) \/ DeleteRow(w) \/ DeleteDone(w)
  BY <1>6 DEF BeginDelete, DeleteRow, DeleteDone, Goto
<1>7. CASE InsertRow(w)
  <2>1. PICK j \in NextJob(w) : written' = [written EXCEPT ![w] = @ \union {j}]
    BY <1>7 DEF InsertRow
  <2>2. j \in Top[seen[w]]
    BY <2>1, NextJobType
  <2>3. written'[w] \subseteq Top[seen[w]]
    BY <2>1, <2>2
  <2> QED
    BY <1>7, <2>3 DEF InsertRow
<1>8. CASE Commit(w) \/ CommitUnanswered(w)
  BY <1>8 DEF Commit, CommitUnanswered, EndTx, Goto
<1>9. CASE DeadlockVictim(w) \/ Fail(w)
  BY <1>9 DEF DeadlockVictim, Fail, RollBack, EndTx, Goto
<1> QED
  BY <1>1, <1>2, <1>3, <1>4, <1>5, <1>6, <1>7, <1>8, <1>9 DEF Act, Step

LEMMA StepPlaced == IInv /\ [Next]_vars => \A q \in Workers : Placed(q)'
<1> SUFFICES ASSUME IInv, [Next]_vars, NEW q \in Workers PROVE Placed(q)'
  OBVIOUS
<1>0. TypeOK /\ Placed(q)
  BY DEF IInv, StoreInv
<1>1. version' >= version /\ stored \subseteq stored' /\ version' \in Nat /\ version \in Nat
      /\ seen[q] \in Nat
  BY <1>0, Grows, VersionType DEF TypeOK
<1>2. ASSUME NEW w \in Workers, w /= q, Act(w) PROVE Placed(q)'
  BY <1>0, <1>1, <1>2, Others DEF Placed
<1>3. CASE ChangeInputs \/ UNCHANGED vars
  BY <1>0, <1>1, <1>3 DEF ChangeInputs, vars, workers, txs, history, Placed
<1>4. CASE Crash
  BY <1>0, <1>1, <1>4 DEF Crash, history, Placed
<1>6. ASSUME NEW w \in EventWorkers, StartEvent(w) PROVE Placed(q)'
  <2>1. w \in Workers /\ Act(w) /\ ~StartHttp(w)
    BY <1>0, <1>6 DEF Workers, Act, StartEvent, StartHttp, Goto, TypeOK
  <2> QED
    BY <1>2, <1>6, <2>1, OwnPlaced
<1>7. ASSUME NEW w \in HttpWorkers, StartHttp(w) PROVE Placed(q)'
  <2>1. w \in Workers /\ Act(w) /\ ~StartEvent(w)
    BY <1>0, <1>7 DEF Workers, Act, StartEvent, StartHttp, Goto, TypeOK
  <2> QED
    BY <1>2, <1>7, <2>1, OwnPlaced
<1>8. ASSUME NEW w \in Workers, Step(w) \/ Fail(w) \/ EnqueueFails(w) \/ CommitUnanswered(w)
      PROVE  Placed(q)'
  <2>1. Act(w) /\ phase[w] /= "idle"
    BY <1>8
    DEF Act, Step, Lock, MarkProcessed, Read, BeginDelete, DeleteRow, DeleteDone, InsertRow,
        Commit, Enqueue, MarkMatched, ReturnError, DeadlockVictim, Fail, EnqueueFails,
        CommitUnanswered
  <2>2. ~StartEvent(w) /\ ~StartHttp(w)
    BY <2>1 DEF StartEvent, StartHttp
  <2> QED
    BY <1>2, <2>1, <2>2, OwnPlaced
<1> QED
  BY <1>3, <1>4, <1>6, <1>7, <1>8 DEF Next, Exhausted

-----------------------------------------------------------------------------
(* The table.  Only the end of a transaction changes the rows, the last version *)
(* and what is stored.                                                          *)

Ends(w) == Commit(w) \/ CommitUnanswered(w)

LEMMA Written ==
    ASSUME IInv, NEW w \in Workers, Ends(w)
    PROVE  /\ phase[w] = "insert"
           /\ written[w] = Top[seen[w]] /\ seen[w] \in Versions
           /\ last' = seen[w] /\ stored' = stored \union {seen[w]}
           /\ version' = version /\ announced' = announced /\ kind' = kind /\ seen' = seen
           /\ rows' = [j \in Jobs |-> CASE j \in written[w] -> Score[seen[w]][j]
                                        [] j \in deleted[w] \ written[w] -> 0
                                        [] OTHER -> rows[j]]
           /\ phase'[w] \in {"enqueue", "failed"}
<1>1. TypeOK /\ Placed(w)
  BY DEF IInv, StoreInv
<1>2. /\ phase[w] = "insert" /\ Pending(w) = {} /\ Apply(w)
      /\ last' = seen[w] /\ stored' = stored \union {seen[w]}
      /\ version' = version /\ announced' = announced /\ kind' = kind /\ seen' = seen
      /\ Goto(w, "enqueue") \/ Goto(w, "failed")
  BY DEF Ends, Commit, CommitUnanswered
<1>3. written[w] = Top[seen[w]]
  BY <1>1, <1>2 DEF Pending, Placed
<1>4. phase'[w] \in {"enqueue", "failed"} /\ seen[w] \in Versions
  BY <1>1, <1>2 DEF Goto, TypeOK
<1> QED
  BY <1>2, <1>3, <1>4 DEF Apply

\* Every other step.
LEMMA NotEnds ==
    ASSUME [Next]_vars, \A w \in Workers : ~Ends(w)
    PROVE  UNCHANGED <<rows, last, stored>>
<1>1. CASE ChangeInputs \/ Crash \/ UNCHANGED vars
  BY <1>1 DEF ChangeInputs, Crash, vars, tables, history
<1>2. ASSUME NEW w \in Workers, Act(w), ~Ends(w) PROVE UNCHANGED <<rows, last, stored>>
  BY <1>2
  DEF Act, Step, StartEvent, StartHttp, Lock, MarkProcessed, Read, BeginDelete, DeleteRow,
      DeleteDone, InsertRow, Enqueue, MarkMatched, ReturnError, DeadlockVictim, Ends,
      Fail, RollBack, EnqueueFails, tables, history
<1> QED
  BY <1>1, <1>2 DEF Next, Exhausted, Act, Workers

LEMMA StepStore == IInv /\ [Next]_vars => StoreInv' /\ (last =< version)'
<1> SUFFICES ASSUME IInv, [Next]_vars PROVE StoreInv' /\ (last =< version)'
  OBVIOUS
<1>0. /\ TypeOK /\ LastRunIsStored /\ RowsComeFromRuns /\ AnnouncedWasStored
      /\ \A w \in Workers : Placed(w)
      /\ TypeOK' /\ version' >= version /\ version \in Nat /\ version' \in Nat /\ last \in Nat
      /\ last =< version
  BY StepType, Grows, VersionType DEF IInv, StoreInv, TypeOK
<1>1. LastRunIsStored' /\ RowsComeFromRuns' /\ (last =< version)'
  <2>1. ASSUME NEW w \in Workers, Ends(w)
        PROVE  LastRunIsStored' /\ RowsComeFromRuns' /\ (last =< version)'
    <3>1. LastRunIsStored'
      <4>1. \A j \in Top[seen[w]] : rows'[j] = Score[seen[w]][j]
        BY <2>1, Written, TopType
      <4> QED
        BY <2>1, <4>1, Written DEF LastRunIsStored
    <3>2. RowsComeFromRuns'
      <4> SUFFICES ASSUME NEW j \in Jobs, rows'[j] /= 0
                   PROVE  \E v \in stored' : j \in Top[v] /\ rows'[j] = Score[v][j]
        BY DEF RowsComeFromRuns
      <4>1. CASE j \in written[w]
        BY <2>1, <4>1, Written
      <4>2. CASE j \notin written[w]
        <5>1. rows'[j] = rows[j] /\ stored \subseteq stored'
          BY <2>1, <4>2, Written
        <5> QED
          BY <1>0, <5>1 DEF RowsComeFromRuns
      <4> QED
        BY <4>1, <4>2
    <3>3. (last =< version)'
      BY <1>0, <2>1, Written DEF Placed
    <3> QED
      BY <3>1, <3>2, <3>3
  <2>2. CASE \A w \in Workers : ~Ends(w)
    <3>1. rows' = rows /\ last' = last /\ stored' = stored
      BY <2>2, NotEnds
    <3> QED
      BY <1>0, <3>1 DEF LastRunIsStored, RowsComeFromRuns
  <2> QED
    BY <2>1, <2>2
<1>2. AnnouncedWasStored'
  <2>1. stored \subseteq stored'
    BY Grows
  <2>2. ASSUME NEW w \in Workers, Enqueue(w) \/ EnqueueFails(w) PROVE announced' \subseteq stored
    BY <1>0, <2>2 DEF Enqueue, EnqueueFails, AnnouncedWasStored, Placed
  <2>3. ASSUME NEW w \in Workers, Act(w), ~Enqueue(w), ~EnqueueFails(w)
        PROVE  announced' = announced
    BY <2>3
    DEF Act, Step, StartEvent, StartHttp, Lock, MarkProcessed, Read, BeginDelete, DeleteRow,
        DeleteDone, InsertRow, MarkMatched, ReturnError, DeadlockVictim, Commit,
        CommitUnanswered, Fail, RollBack, tables
  <2>4. CASE ChangeInputs \/ Crash \/ UNCHANGED vars
    BY <1>0, <2>1, <2>4 DEF ChangeInputs, Crash, vars, tables, AnnouncedWasStored
  <2>5. ASSUME NEW w \in Workers, Act(w) PROVE AnnouncedWasStored'
    BY <1>0, <2>1, <2>2, <2>3, <2>5 DEF AnnouncedWasStored
  <2> QED
    BY <2>4, <2>5 DEF Next, Exhausted, Act, Workers
<1> QED
  BY <1>0, <1>1, <1>2 DEF StoreInv

-----------------------------------------------------------------------------
(* With the mutex around every run.                                           *)

\* No run is started without the mutex: the HTTP workers rest, and at most one
\* consumer is past its lock.
LEMMA OneRun ==
    ASSUME IInv, MutexOnly, NEW w \in Workers, phase[w] \notin {"idle", "lock"}
    PROVE  w \in EventWorkers /\ mu = w
BY DEF IInv, Placed, MutexOnly, Workers

LEMMA MutexOnlyBefore ==
    ASSUME IInv, [Next]_vars, MutexOnly' PROVE MutexOnly
<1>0. TypeOK
  BY DEF IInv, StoreInv
<1> SUFFICES ASSUME NEW q \in HttpWorkers PROVE kind[q] = "none"
  BY DEF MutexOnly
<1>1. q \in Workers /\ q \notin EventWorkers /\ kind'[q] = "none"
  BY MatchAssumption DEF MutexOnly, Workers
<1>2. ASSUME NEW w \in EventWorkers, StartEvent(w) PROVE kind'[q] = kind[q]
  BY <1>0, <1>1, <1>2 DEF StartEvent, TypeOK
<1>3. ASSUME NEW w \in HttpWorkers, StartHttp(w) PROVE kind[q] = "none"
  BY <1>0, <1>1, <1>3 DEF StartHttp, TypeOK, Workers
<1>4. CASE UNCHANGED kind
  BY <1>1, <1>4
<1> QED
  BY <1>1, <1>2, <1>3, <1>4
  DEF Next, Exhausted, ChangeInputs, Crash, Step, Lock, MarkProcessed, Read, BeginDelete,
      DeleteRow, DeleteDone, InsertRow, Commit, Enqueue, MarkMatched, ReturnError,
      DeadlockVictim, Fail, RollBack, EnqueueFails, CommitUnanswered, workers, vars

\* The run that commits replaces every row.
LEMMA StepExact ==
    ASSUME IInv, [Next]_vars, MutexOnly PROVE LastIsExact'
<1>0. TypeOK /\ LastIsExact /\ \A w \in Workers : Alone(w)
  BY DEF IInv, StoreInv
<1>1. ASSUME NEW w \in Workers, Ends(w) PROVE LastIsExact'
  <2>1. \A j \in Top[seen[w]] : rows'[j] = Score[seen[w]][j]
    BY <1>1, Written, TopType
  <2>2. ASSUME NEW j \in Jobs, j \notin Top[seen[w]] PROVE rows'[j] = 0
    <3>1. rows[j] /= 0 => j \in deleted[w]
      BY <1>0, <1>1, Written DEF Alone
    <3> QED
      BY <1>1, <2>2, <3>1, Written
  <2> QED
    BY <1>1, <2>1, <2>2, Written DEF LastIsExact
<1>2. CASE \A w \in Workers : ~Ends(w)
  <2>1. rows' = rows /\ last' = last /\ stored' = stored
    BY <1>2, NotEnds
  <2> QED
    BY <1>0, <2>1 DEF LastIsExact
<1> QED
  BY <1>1, <1>2

LEMMA StepAlone ==
    ASSUME IInv, [Next]_vars, MutexOnly, MutexOnly', NEW q \in Workers
    PROVE  Alone(q)'
<1>0. TypeOK /\ Alone(q) /\ Placed(q) /\ \A w \in Workers : Placed(w)
  BY DEF IInv, StoreInv
<1>1. last \in Nat /\ version \in Nat /\ seen[q] \in Nat /\ last =< version
  BY <1>0, VersionType DEF IInv, TypeOK
<1>2. CASE phase'[q] \notin {"begin", "delete", "insert"}
  BY <1>2 DEF Alone
<1>3. ASSUME phase'[q] \in {"begin", "delete", "insert"} PROVE Alone(q)'
  \* The mutex is with q: nobody else is in a transaction.
  <2>1. ASSUME NEW w \in Workers, w /= q, Act(w) PROVE Alone(q)'
    <3>1. phase'[q] = phase[q] /\ seen'[q] = seen[q] /\ deleted'[q] = deleted[q]
      BY <1>0, <2>1, Others
    <3>2. mu = q /\ phase[w] \in {"idle", "lock"}
      BY <1>3, <2>1, <3>1, OneRun
    <3>3. rows' = rows /\ last' = last /\ snapshot' = snapshot
      BY <3>2, <2>1
      DEF Act, Step, StartEvent, StartHttp, Lock, MarkProcessed, Read, BeginDelete,
          DeleteRow, DeleteDone, InsertRow, Commit, Enqueue, MarkMatched, ReturnError,
          DeadlockVictim, Fail, EnqueueFails, CommitUnanswered, tables, txs, history
    <3> QED
      BY <1>0, <3>1, <3>3 DEF Alone
  <2>2. CASE Read(q)
    BY <1>0, <1>1, <1>3, <2>2 DEF Read, Return, Goto, TypeOK, history, Alone
  <2>3. CASE BeginDelete(q)
    BY <1>0, <1>1, <2>3 DEF BeginDelete, Goto, TypeOK, tables, history, Alone
  <2>4. CASE DeleteRow(q)
    BY <1>0, <1>1, <2>4 DEF DeleteRow, TypeOK, tables, history, Alone
  <2>5. CASE DeleteDone(q)
    BY <1>0, <1>1, <2>5 DEF DeleteDone, Goto, TypeOK, tables, history, txs, Alone
  <2>6. CASE InsertRow(q)
    BY <1>0, <1>1, <2>6 DEF InsertRow, TypeOK, tables, history, Alone
  <2>7. CASE ChangeInputs \/ UNCHANGED vars
    BY <1>0, <2>7 DEF ChangeInputs, vars, tables, workers, txs, history, Alone
  <2>8. CASE Crash
    BY <1>3, <2>8 DEF Crash
  <2>9. ASSUME \/ StartEvent(q) \/ StartHttp(q) \/ Lock(q) \/ MarkProcessed(q)
               \/ Commit(q) \/ CommitUnanswered(q) \/ Enqueue(q) \/ EnqueueFails(q)
               \/ MarkMatched(q) \/ DeadlockVictim(q) \/ Fail(q) \/ ReturnError(q)
        PROVE  FALSE
    BY <1>0, <1>3, <2>9
    DEF StartEvent, StartHttp, Lock, MarkProcessed, Commit, CommitUnanswered, Enqueue,
        EnqueueFails, MarkMatched, DeadlockVictim, Fail, ReturnError, RollBack, Return,
        Goto, TypeOK
  <2> QED
    BY <2>1, <2>2, <2>3, <2>4, <2>5, <2>6, <2>7, <2>8, <2>9
    DEF Next, Exhausted, Act, Step, Workers
<1> QED
  BY <1>2, <1>3

LEMMA StepInv == IInv /\ [Next]_vars => IInv'
<1> SUFFICES ASSUME IInv, [Next]_vars PROVE IInv'
  OBVIOUS
<1>1. MutexOnly' => LastIsExact' /\ \A w \in Workers : Alone(w)'
  BY MutexOnlyBefore, StepExact, StepAlone
<1> QED
  BY <1>1, StepStore, StepPlaced DEF IInv

-----------------------------------------------------------------------------
(* The theorems about the store.                                              *)

\* The inductive invariant holds in every state the workers can reach.
THEOREM Invariance == Spec => []IInv
BY InitInv, StepInv, PTL DEF Spec

\* Whatever runs overlap, fail, deadlock or die, the table holds the whole ranking
\* of the last run that committed, rows of committed runs only, and an announcement
\* comes after its matches.
THEOREM StoreIsRight == Spec => []StoreInv
<1>1. IInv => StoreInv
  BY DEF IInv
<1> QED
  BY <1>1, Invariance, PTL

\* With the mutex around every run, the table is the last ranking.
THEOREM TableIsLastRanking == Spec => []ExactlyLastRanking
<1>1. IInv => ExactlyLastRanking
  BY DEF IInv, LastIsExact, ExactlyLastRanking
<1> QED
  BY <1>1, Invariance, PTL

\* With the mutex around every run, a ranking never gives way to an older one.
THEOREM RankingsOnlyGetNewer == Spec => NeverOlder
<1>1. IInv /\ [Next]_vars => [MutexOnly => last' >= last]_vars
  <2> SUFFICES ASSUME IInv, [Next]_vars, MutexOnly PROVE last' >= last
    OBVIOUS
  <2>1. last \in Nat
    BY VersionType DEF IInv, StoreInv, TypeOK
  <2>2. ASSUME NEW w \in Workers, Ends(w) PROVE last' >= last
    BY <2>2, Written DEF IInv, Alone
  <2>3. CASE \A w \in Workers : ~Ends(w)
    BY <2>1, <2>3, NotEnds
  <2> QED
    BY <2>2, <2>3
<1> QED
  BY <1>1, Invariance, PTL DEF Spec, NeverOlder

-----------------------------------------------------------------------------
(* The refinement of MatchContract.                                           *)

\* What MatchContract is told about scores.
LEMMA RankingScores ==
    ASSUME NEW v \in Versions, NEW j \in Jobs
    PROVE  LET score == IF j \in Top[v] THEN Score[v][j] ELSE 0
           IN  (score > 0 <=> j \in Top[v]) /\ (j \in Top[v] => score = Score[v][j])
BY TopType

\* The end of a transaction publishes the whole ranking of its version.
LEMMA EndIsReplace ==
    ASSUME IInv, NEW w \in Workers, Ends(w)
    PROVE  \E v \in Versions : Contract!Replace(v)
<1> DEFINE v    == seen[w]
           kept == IF MutexOnly THEN {} ELSE Jobs \ deleted[w]
           scores == [u \in Versions |-> [j \in Jobs |-> IF j \in Top[u] THEN Score[u][j] ELSE 0]]
<1>1. /\ v \in Versions /\ phase[w] = "insert" /\ written[w] = Top[v]
      /\ last' = v /\ stored' = stored \union {v} /\ announced' = announced /\ kind' = kind
      /\ rows' = [j \in Jobs |-> CASE j \in written[w] -> Score[v][j]
                                   [] j \in deleted[w] \ written[w] -> 0
                                   [] OTHER -> rows[j]]
  BY Written
<1>2. MutexOnly' = MutexOnly
  BY <1>1 DEF MutexOnly
<1>3. MutexOnly => v >= last
  BY <1>1 DEF IInv, Alone
<1>4. ASSUME NEW j \in Jobs
      PROVE  rows'[j] = IF scores[v][j] > 0 THEN scores[v][j]
                        ELSE IF j \in kept THEN rows[j] ELSE 0
  <2>1. scores[v][j] = IF j \in Top[v] THEN Score[v][j] ELSE 0
    BY <1>1
  <2> HIDE DEF scores
  <2>2. CASE j \in Top[v]
    BY <1>1, <2>1, <2>2, RankingScores
  <2>3. CASE j \notin Top[v]
    <3>1. MutexOnly => rows[j] = 0 \/ j \in deleted[w]
      BY <1>1 DEF IInv, Alone
    <3>2. rows'[j] = IF j \in deleted[w] THEN 0 ELSE rows[j]
      BY <1>1, <2>3
    <3>3. scores[v][j] = 0 /\ ~(0 > 0)
      BY <2>1, <2>3
    <3> QED
      BY <3>1, <3>2, <3>3
  <2> QED
    BY <2>2, <2>3
<1>5. rows' = [j \in Jobs |-> IF scores[v][j] > 0 THEN scores[v][j]
                              ELSE IF j \in kept THEN rows[j] ELSE 0]
  <2> DEFINE new == [j \in Jobs |-> IF scores[v][j] > 0 THEN scores[v][j]
                                    ELSE IF j \in kept THEN rows[j] ELSE 0]
  <2>1. rows' = [j \in Jobs |-> rows'[j]]
    BY <1>1
  <2>2. new = [j \in Jobs |-> new[j]] /\ \A j \in Jobs : rows'[j] = new[j]
    BY <1>4
  <2> HIDE DEF new
  <2>3. rows' = new
    BY <2>1, <2>2
  <2> QED
    BY <2>3 DEF new
<1>6. kept \in SUBSET Jobs /\ (MutexOnly => kept = {})
  OBVIOUS
<1> HIDE DEF kept
<1> QED
  BY <1>1, <1>2, <1>3, <1>5, <1>6 DEF Contract!Replace

\* An announcement is one of a ranking that was published.
LEMMA EnqueueIsAnnounce ==
    ASSUME IInv, NEW w \in Workers, Enqueue(w) \/ EnqueueFails(w), announced' /= announced
    PROVE  \E v \in Versions : Contract!Announce(v)
<1>1. /\ seen[w] \in Versions /\ seen[w] \in stored
      /\ announced' = announced \union {seen[w]} /\ kind' = kind
      /\ UNCHANGED <<rows, last, stored>>
  BY DEF IInv, StoreInv, TypeOK, Placed, Enqueue, EnqueueFails, history
<1>2. MutexOnly' = MutexOnly
  BY <1>1 DEF MutexOnly
<1> QED
  BY <1>1, <1>2 DEF Contract!Announce

\* Only Enqueue announces.
LEMMA OnlyEnqueueAnnounces ==
    ASSUME [Next]_vars, \A w \in Workers : ~Enqueue(w) /\ ~EnqueueFails(w)
    PROVE  announced' = announced
<1>1. CASE ChangeInputs \/ Crash \/ UNCHANGED vars
  BY <1>1 DEF ChangeInputs, Crash, vars, tables
<1>2. ASSUME NEW w \in Workers, Act(w) PROVE announced' = announced
  BY <1>2
  DEF Act, Step, StartEvent, StartHttp, Lock, MarkProcessed, Read, BeginDelete, DeleteRow,
      DeleteDone, InsertRow, MarkMatched, ReturnError, DeadlockVictim, Commit,
      CommitUnanswered, Fail, RollBack, tables
<1> QED
  BY <1>1, <1>2 DEF Next, Exhausted, Act, Workers

\* Overlapping, failing, deadlocked and dying runs replace the table as a whole: every
\* step of the workers is a step of MatchContract or changes nothing it speaks of.
THEOREM TableIsReplacedWhole == Spec => RunsReplaceTable
<1>1. Init => Contract!Init
  BY DEF Init, MutexOnly, Workers, Contract!Init
<1>2. IInv /\ [Next]_vars
      => [Contract!Next]_<<rows, last, stored, announced, MutexOnly>>
  <2> SUFFICES ASSUME IInv, [Next]_vars
               PROVE  Contract!Next \/ UNCHANGED <<rows, last, stored, announced, MutexOnly>>
    OBVIOUS
  <2>1. ASSUME NEW w \in Workers, Ends(w) PROVE Contract!Next
    BY <2>1, EndIsReplace DEF Contract!Next
  <2>2. ASSUME NEW w \in Workers, Enqueue(w) \/ EnqueueFails(w), announced' /= announced
        PROVE  Contract!Next
    BY <2>2, EnqueueIsAnnounce DEF Contract!Next
  <2>3. CASE (\A w \in Workers : ~Ends(w)) /\ announced' = announced
    <3>1. UNCHANGED <<rows, last, stored, announced>>
      BY <2>3, NotEnds
    <3>2. CASE ~MutexOnly'
      BY <3>1, <3>2 DEF Contract!Next, Contract!Overlap
    <3>3. CASE MutexOnly'
      <4>1. MutexOnly
        BY <3>3, MutexOnlyBefore
      <4>2. MutexOnly' = MutexOnly
        BY <3>3, <4>1
      <4> QED
        BY <3>1, <4>2
    <3> QED
      BY <3>2, <3>3
  <2> QED
    BY <2>1, <2>2, <2>3, OnlyEnqueueAnnounces
<1> QED
  BY <1>1, <1>2, Invariance, PTL DEF Spec, RunsReplaceTable, Contract!Spec

-----------------------------------------------------------------------------
(* The sweeps over all resumes and the connections they keep.                   *)

\* A run has the connections its place calls for, an event run past its lock has the
\* mutex and is the only one, and a sweep has tried every resume that is not still
\* to come.
RunPlaced(r) ==
    /\ pc[r] \in {"idle", "lock", "list"} => held[r] = 0
    /\ pc[r] = "next" => held[r] = 1
    /\ pc[r] = "statement" => held[r] \in {0, 1}
    /\ pc[r] = "execute" => held[r] \in {1, 2}
    /\ r \in Listeners => (pc[r] \notin {"idle", "lock"} <=> holder = r)
    /\ \/ pc[r] = "next"
       \/ pc[r] = "statement" /\ held[r] = 1
       \/ pc[r] = "execute" /\ held[r] = 2
       => tried[r] \union todo[r] = Resumes

PoolInv ==
    /\ SweepTypeOK
    /\ ~missed
    /\ \A r \in Runners : RunPlaced(r)

\* The pool has finitely many connections out, whichever run has how many.
LEMMA OutFinite ==
    ASSUME NEW h
    PROVE  IsFiniteSet({c \in Runners \X (1..MaxConns) : c[2] =< h[c[1]]})
<1>1. IsFiniteSet(Triggers) /\ IsFiniteSet(Listeners) /\ MaxConns \in Int
  BY SweepAssumption
<1>2. IsFiniteSet(Runners)
  BY <1>1, FS_Union DEF Runners
<1>3. IsFiniteSet(1..MaxConns)
  BY <1>1, FS_Interval
<1>4. IsFiniteSet(Runners \X (1..MaxConns))
  BY <1>2, <1>3, FS_Product
<1> QED
  BY <1>4, FS_Subset

\* A run takes its next connection only out of a pool that is not empty.
LEMMA TakeOne ==
    ASSUME PoolInv, NEW r \in Runners, Free > 0, held[r] + 1 =< 2,
           held' = [held EXCEPT ![r] = held[r] + 1]
    PROVE  InUse' =< MaxConns
<1>0. /\ held \in [Runners -> 0..2] /\ MaxConns \in Nat
      /\ MaxConns >= 2
  BY SweepAssumption DEF PoolInv, SweepTypeOK
<1>1. IsFiniteSet(Out)
  BY <1>0, OutFinite DEF Out
<1>2. Out' = Out \union {<<r, held[r] + 1>>}
  <2>1. \A c \in Runners \X (1..MaxConns) :
           c \in Out' <=> c \in Out \/ c = <<r, held[r] + 1>>
    <3> SUFFICES ASSUME NEW q \in Runners, NEW n \in 1..MaxConns
                 PROVE  n =< held'[q] <=> n =< held[q] \/ (q = r /\ n = held[r] + 1)
      BY DEF Out
    <3>1. CASE q = r
      BY <1>0, <3>1
    <3>2. CASE q /= r
      BY <1>0, <3>2
    <3> QED
      BY <3>1, <3>2
  <2>2. <<r, held[r] + 1>> \in Runners \X (1..MaxConns)
    BY <1>0
  <2>3. Out' \subseteq Runners \X (1..MaxConns)
        /\ Out \subseteq Runners \X (1..MaxConns)
    BY DEF Out
  <2> QED
    BY <2>1, <2>2, <2>3
<1>3. /\ Cardinality(Out') =< Cardinality(Out) + 1
      /\ Cardinality(Out) \in Nat /\ Cardinality(Out') \in Nat
  <2>1. /\ IsFiniteSet(Out')
        /\ Cardinality(Out') = IF <<r, held[r] + 1>> \in Out
                                    THEN Cardinality(Out)
                                    ELSE Cardinality(Out) + 1
    BY <1>1, <1>2, FS_AddElement
  <2>2. Cardinality(Out) \in Nat /\ Cardinality(Out') \in Nat
    BY <1>1, <2>1, FS_CardinalityType
  <2> QED
    BY <2>1, <2>2
<1>4. InUse' = Cardinality(Out') /\ InUse = Cardinality(Out)
  BY DEF InUse
<1> QED
  BY <1>0, <1>3, <1>4 DEF Free

\* Giving connections back never overdraws the pool.
LEMMA GiveBack ==
    ASSUME PoolInv, NEW r \in Runners, NEW n \in 0..2, n =< held[r],
           held' = [held EXCEPT ![r] = n]
    PROVE  InUse' =< MaxConns
<1>0. /\ held \in [Runners -> 0..2] /\ MaxConns \in Nat
      /\ InUse =< MaxConns
  BY SweepAssumption DEF PoolInv, SweepTypeOK
<1>1. IsFiniteSet(Out)
  BY <1>0, OutFinite DEF Out
<1>2. Out' \subseteq Out
  <2> SUFFICES ASSUME NEW c \in Runners \X (1..MaxConns), c[2] =< held'[c[1]]
               PROVE  c[2] =< held[c[1]]
    BY DEF Out
  <2>1. c[1] \in Runners /\ c[2] \in Nat
    OBVIOUS
  <2>2. CASE c[1] = r
    BY <1>0, <2>1, <2>2
  <2>3. CASE c[1] /= r
    BY <1>0, <2>1, <2>3
  <2> QED
    BY <2>2, <2>3
<1>3. /\ Cardinality(Out') =< Cardinality(Out)
      /\ Cardinality(Out) \in Nat /\ Cardinality(Out') \in Nat
  BY <1>1, <1>2, FS_Subset, FS_CardinalityType
<1>4. InUse' = Cardinality(Out') /\ InUse = Cardinality(Out)
  BY DEF InUse
<1> QED
  BY <1>0, <1>3, <1>4

LEMMA PoolUnmoved ==
    ASSUME PoolInv, held' = held
    PROVE  InUse' =< MaxConns
BY DEF PoolInv, SweepTypeOK, InUse, Out

LEMMA PoolInit == SweepInit => PoolInv
<1> SUFFICES ASSUME SweepInit PROVE PoolInv
  OBVIOUS
<1>1. InUse = 0
  <2>1. Out = {}
    BY DEF SweepInit, Out
  <2> QED
    BY <2>1, FS_EmptySet DEF InUse
<1>4. MaxConns \in Nat /\ MaxSweeps \in Nat
  BY SweepAssumption
<1>2. SweepTypeOK
  <2>1. InUse =< MaxConns
    BY <1>1, <1>4
  <2>2. held \in [Runners -> 0..2] /\ sweeps \in [Runners -> 0..MaxSweeps]
    BY <1>4 DEF SweepInit
  <2>3. /\ pc \in [Runners -> {"idle", "lock", "list", "next", "statement", "execute", "end"}]
        /\ todo \in [Runners -> SUBSET Resumes]
        /\ tried \in [Runners -> SUBSET Resumes]
        /\ holder \in Listeners \union {None} /\ missed \in BOOLEAN
    BY DEF SweepInit
  <2> QED
    BY <2>1, <2>2, <2>3 DEF SweepTypeOK
<1>3. \A r \in Runners : RunPlaced(r)
  BY SweepAssumption DEF SweepInit, Runners, RunPlaced
<1> QED
  BY <1>2, <1>3 DEF PoolInv, SweepInit

LEMMA PoolStepInUse == PoolInv /\ [SweepNext]_sweepVars => InUse' =< MaxConns
<1> SUFFICES ASSUME PoolInv, [SweepNext]_sweepVars PROVE InUse' =< MaxConns
  OBVIOUS
<1>0. SweepTypeOK /\ \A r \in Runners : RunPlaced(r)
  BY DEF PoolInv
<1>1. ASSUME NEW r \in Runners, List(r) \/ Acquire(r)
      PROVE  InUse' =< MaxConns
  <2>1. /\ Free > 0 /\ held[r] + 1 =< 2
        /\ held' = [held EXCEPT ![r] = held[r] + 1]
    BY <1>0, <1>1 DEF List, Acquire, RunPlaced, SweepTypeOK
  <2> QED
    BY <2>1, TakeOne
<1>2. ASSUME NEW r \in Runners, Release(r) \/ EndSweep(r)
      PROVE  InUse' =< MaxConns
  <2>1. PICK n \in 0..2 : n =< held[r] /\ held' = [held EXCEPT ![r] = n]
    <3>1. CASE Release(r)
      <4>1. held[r] - 1 \in 0..2 /\ held[r] - 1 =< held[r]
        BY <1>0, <3>1 DEF Release, RunPlaced, SweepTypeOK
      <4> QED
        BY <3>1, <4>1 DEF Release
    <3>2. CASE EndSweep(r)
      BY <1>0, <3>2 DEF EndSweep, SweepTypeOK
    <3> QED
      BY <1>2, <3>1, <3>2
  <2> QED
    BY <2>1, GiveBack
<1>3. CASE UNCHANGED held
  BY <1>3, PoolUnmoved
<1> QED
  BY <1>1, <1>2, <1>3
  DEF SweepNext, Work, Trigger, Cancel, Deliver, TakeMutex,
      NextRow, EndOfRows, Resting, sweepVars

\* Every step of a run keeps the types, and its own place.
LEMMA PoolStepRun ==
    ASSUME PoolInv, NEW r \in Runners,
           \/ r \in Triggers /\ (Trigger(r) \/ Cancel(r))
           \/ r \in Listeners /\ (Deliver(r) \/ TakeMutex(r))
           \/ Work(r),
           InUse' =< MaxConns
    PROVE  /\ SweepTypeOK' /\ ~missed' /\ RunPlaced(r)'
           /\ \A q \in Runners \ {r} :
                 /\ pc'[q] = pc[q] /\ held'[q] = held[q]
                 /\ tried'[q] = tried[q] /\ todo'[q] = todo[q]
           /\ holder = r \/ holder' = r \/ holder' = holder
           /\ holder' \in {holder, r, None}
<1>0. SweepTypeOK /\ RunPlaced(r) /\ ~missed
  BY DEF PoolInv
<1> USE <1>0, SweepAssumption
    DEF SweepTypeOK, RunPlaced, Runners, GoTo, Start
<1>1. CASE r \in Triggers /\ Trigger(r)
  BY <1>1 DEF Trigger
<1>2. CASE r \in Triggers /\ Cancel(r)
  BY <1>2 DEF Cancel
<1>3. CASE r \in Listeners /\ Deliver(r)
  BY <1>3 DEF Deliver
<1>4. CASE r \in Listeners /\ TakeMutex(r)
  BY <1>4 DEF TakeMutex
<1>5. CASE List(r)
  BY <1>5 DEF List
<1>6. CASE NextRow(r)
  BY <1>6 DEF NextRow
<1>7. CASE Acquire(r)
  BY <1>7 DEF Acquire
<1>8. CASE Release(r)
  BY <1>8 DEF Release
<1>9. CASE EndOfRows(r)
  BY <1>9 DEF EndOfRows
<1>10. CASE EndSweep(r)
  BY <1>10 DEF EndSweep
<1> QED
  BY <1>1, <1>2, <1>3, <1>4, <1>5, <1>6, <1>7, <1>8, <1>9, <1>10 DEF Work

LEMMA PoolStep == PoolInv /\ [SweepNext]_sweepVars => PoolInv'
<1> SUFFICES ASSUME PoolInv, [SweepNext]_sweepVars PROVE PoolInv'
  OBVIOUS
<1>0. SweepTypeOK /\ ~missed /\ \A r \in Runners : RunPlaced(r)
  BY DEF PoolInv
<1>2. ASSUME NEW r \in Runners,
             \/ r \in Triggers /\ (Trigger(r) \/ Cancel(r))
             \/ r \in Listeners /\ (Deliver(r) \/ TakeMutex(r))
             \/ Work(r)
      PROVE  PoolInv'
  <2>1. InUse' =< MaxConns
    BY PoolStepInUse
  <2>2. /\ SweepTypeOK' /\ ~missed' /\ RunPlaced(r)'
        /\ \A q \in Runners \ {r} :
              /\ pc'[q] = pc[q] /\ held'[q] = held[q]
              /\ tried'[q] = tried[q] /\ todo'[q] = todo[q]
        /\ holder = r \/ holder' = r \/ holder' = holder
        /\ holder' \in {holder, r, None}
    BY <1>2, <2>1, PoolStepRun
  <2>3. ASSUME NEW q \in Listeners, q /= r PROVE holder' = q <=> holder = q
    BY <1>0, <1>2, <2>2, <2>3, SweepAssumption DEF TakeMutex, Trigger, Cancel,
       Deliver, Work, List, NextRow, Acquire, Release,
       EndOfRows, EndSweep
  <2>4. \A q \in Runners : RunPlaced(q)'
    BY <1>0, <2>2, <2>3 DEF RunPlaced
  <2> QED
    BY <2>2, <2>4 DEF PoolInv
<1>3. CASE UNCHANGED sweepVars
  <2>1. InUse' =< MaxConns
    BY <1>3, PoolUnmoved DEF sweepVars
  <2> QED
    BY <1>0, <1>3, <2>1 DEF PoolInv, sweepVars, SweepTypeOK, RunPlaced
<1> QED
  BY <1>2, <1>3 DEF SweepNext, Runners, Resting

-----------------------------------------------------------------------------
(* The theorems about the sweeps.                                             *)

\* For any pool of at least two connections and any finite number of runs.
THEOREM PoolInvariance == SweepSpec => []PoolInv
BY PoolInit, PoolStep, PTL DEF SweepSpec

\* No run, however it ends, leaks a connection or the mutex, the pool is never
\* overdrawn, and a sweep that reports success has tried every resume.
THEOREM SweepsAreClean == SweepSpec => []SweepInv
<1>1. PoolInv => SweepInv
  <2> SUFFICES ASSUME PoolInv PROVE SweepInv
    OBVIOUS
  <2>1. NothingLeaks
    <3>1. ASSUME holder /= None PROVE pc[holder] \notin {"idle", "lock"}
      <4>1. holder \in Listeners /\ holder \in Runners
        BY <3>1 DEF PoolInv, SweepTypeOK, Runners
      <4> QED
        BY <4>1 DEF PoolInv, RunPlaced
    <3> QED
      BY <3>1 DEF NothingLeaks, PoolInv, RunPlaced
  <2> QED
    BY <2>1 DEF SweepInv, SuccessTriedAll, PoolInv
<1> QED
  BY <1>1, PoolInvariance, PTL

\* Event runs alone cannot fill the pool: only one of them is past the mutex, and it
\* waits with one connection.
THEOREM StandstillNeedsTrigger == SweepSpec => []StandstillIsTransient
<1>1. PoolInv => StandstillIsTransient
  <2> SUFFICES ASSUME PoolInv, Free = 0,
                      \A r \in Runners : held[r] > 0 => Starved(r),
                      \A r \in Triggers : ~Starved(r)
               PROVE  FALSE
    BY DEF StandstillIsTransient
  <2>0. /\ SweepTypeOK /\ \A r \in Runners : RunPlaced(r)
        /\ MaxConns \in Nat /\ MaxConns >= 2
    BY SweepAssumption DEF PoolInv
  <2>1. ASSUME NEW c \in Out PROVE c = <<holder, 1>>
    <3>1. /\ c[1] \in Runners /\ c[2] \in 1..MaxConns /\ c = <<c[1], c[2]>>
          /\ c[2] =< held[c[1]]
      BY DEF Out
    <3>2. held[c[1]] \in 0..2 /\ held[c[1]] > 0 /\ pc[c[1]] = "statement"
      BY <2>0, <3>1 DEF SweepTypeOK, Starved
    <3>3. c[1] \in Listeners
      BY <3>1, <3>2 DEF Runners, Starved
    <3>4. holder = c[1] /\ held[c[1]] = 1
      BY <2>0, <3>1, <3>2, <3>3 DEF RunPlaced
    <3>5. c[2] = 1
      BY <2>0, <3>1, <3>4
    <3> QED
      BY <3>1, <3>4, <3>5
  <2>2. Out \subseteq {<<holder, 1>>}
    BY <2>1
  <2>3. /\ IsFiniteSet({<<holder, 1>>}) /\ Cardinality({<<holder, 1>>}) = 1
    BY FS_Singleton
  <2>4. IsFiniteSet(Out) /\ Cardinality(Out) =< 1 /\ Cardinality(Out) \in Nat
    BY <2>2, <2>3, FS_Subset, FS_CardinalityType
  <2>5. InUse = Cardinality(Out)
    BY DEF InUse
  <2> QED
    BY <2>0, <2>4, <2>5 DEF Free
<1> QED
  BY <1>1, PoolInvariance, PTL

-----------------------------------------------------------------------------
(* The functions on texts, scores and pages.  The loops are folds, followed round  *)
(* by round by induction on the length, stated of a set of natural numbers.         *)

\* A set that has 0, and n + 1 with every n, has every natural number: of a least
\* initial segment 0..k with k left out, k - 1 is left out too.
LEMMA NaturalsByInduction ==
    ASSUME NEW S \in SUBSET Nat, 0 \in S, \A n \in S : n + 1 \in S
    PROVE  S = Nat
<1> SUFFICES ASSUME NEW m \in Nat, m \notin S PROVE FALSE
  OBVIOUS
<1> DEFINE T == {U \in SUBSET (0..m) : \E k \in 0..m : k \notin S /\ U = 0..k}
<1>1. T \subseteq FiniteSubsetsOf(0..m)
  BY FS_Interval, FS_FiniteSubsetsOfFinite
<1>2. 0..m \in T
  OBVIOUS
<1>3. PICK U \in T : \A V \in T : <<V, U>> \notin StrictSubsetOrdering(0..m)
  <2>1. IsWellFoundedOn(StrictSubsetOrdering(0..m), FiniteSubsetsOf(0..m))
    BY FS_StrictSubsetOrderingWellFounded
  <2>2. T /= {}
    BY <1>2
  <2> HIDE DEF T
  <2> QED
    BY <1>1, <2>1, <2>2, WFMin
<1>4. PICK k \in 0..m : k \notin S /\ U = 0..k
  BY <1>3
<1>5. k > 0 /\ k - 1 \in 0..m /\ k - 1 \notin S
  <2>1. k /= 0
    BY <1>4
  <2>2. k - 1 \in S => k \in S
    BY <2>1
  <2> QED
    BY <1>4, <2>1, <2>2
<1>6. 0..(k - 1) \in T
  BY <1>5
<1>7. <<0..(k - 1), U>> \in StrictSubsetOrdering(0..m)
  <2>1. k \in U /\ k \notin 0..(k - 1) /\ 0..(k - 1) \subseteq U
    BY <1>4, <1>5
  <2>2. U \in SUBSET (0..m) /\ 0..(k - 1) \in SUBSET (0..m)
    BY <1>3, <1>6
  <2> QED
    BY <2>1, <2>2 DEF StrictSubsetOrdering
<1> QED
  BY <1>3, <1>6, <1>7

-----------------------------------------------------------------------------
-----------------------------------------------------------------------------
\* Fractions of one denominator compare as their numerators do.
LEMMA TimesIsMonotone ==
    ASSUME NEW a \in Nat, NEW b \in Nat, NEW c \in Nat, c > 0
    PROVE  a =< b <=> a * c =< b * c
<1>1. ASSUME a =< b PROVE a * c =< b * c
  <2>1. PICK m \in Nat : b = a + m
    BY <1>1
  <2>2. b * c = a * c + m * c /\ m * c >= 0 /\ a * c \in Nat /\ m * c \in Nat
    BY <2>1
  <2> QED
    BY <2>2
<1>2. ASSUME b < a PROVE b * c < a * c
  <2>1. PICK m \in Nat : a = b + m /\ m > 0
    <3>1. a - b \in Nat /\ a = b + (a - b) /\ a - b > 0
      BY <1>2
    <3> QED
      BY <3>1
  <2>2. a * c = b * c + m * c /\ m * c > 0 /\ b * c \in Nat /\ m * c \in Nat
    BY <2>1
  <2> QED
    BY <2>2
<1> QED
  BY <1>1, <1>2

-----------------------------------------------------------------------------
(* The pages.                                                                      *)
\* ParsePagination: a page is never empty.
LEMMA LimitIsPositive ==
    ASSUME NEW wanted \in Int
    PROVE  Limit(wanted) \in 1..Most
BY RankingAssumption DEF Limit

\* These are the rows of an order from an offset on, no more than the size.
Slices(page, n, order, size, offset) ==
    /\ Len(page) \in Nat /\ Len(page) =< size /\ DOMAIN page = 1..Len(page)
    /\ \A i \in 1..Len(page) : offset + i \in 1..n /\ page[i] = order[offset + i]
    /\ \A j \in (offset + 1)..(offset + size) : j \in 1..n => j - offset \in 1..Len(page)

\* Place i is on page p.
OnPage(p, size, i) == (p - 1) * size < i /\ i =< (p - 1) * size + size

\* LIMIT and OFFSET give a slice of the rows.
LEMMA PageRows ==
    ASSUME NEW n \in Nat, NEW size \in Nat, size > 0, NEW order \in [1..n -> 1..n],
           NEW offset \in Nat
    PROVE  Slices(Page(order, size, offset), n, order, size, offset)
<1> DEFINE final == IF offset + size =< n THEN offset + size ELSE n
           page == SubSeq(order, offset + 1, final)
<1>1. order \in Seq(1..n) /\ Len(order) = n /\ final \in Nat /\ final =< n
  OBVIOUS
<1>2. page = Page(order, size, offset)
  BY <1>1 DEF Page
<1>3. CASE offset + 1 =< final
  <2>1. Len(page) = final - offset /\ DOMAIN page = 1..(final - offset)
    BY <1>1, <1>3
  <2>2. \A i \in 1..(final - offset) : page[i] = order[offset + i]
    BY <1>1, <1>3
  <2>3. /\ final - offset \in Nat /\ final - offset =< size
        /\ \A i \in 1..(final - offset) : offset + i \in 1..n
        /\ \A j \in (offset + 1)..(offset + size) : j \in 1..n => j - offset \in 1..(final - offset)
    BY <1>3
  <2> HIDE DEF page, final
  <2>4. Slices(page, n, order, size, offset)
    BY <2>1, <2>2, <2>3 DEF Slices
  <2> QED
    BY <1>2, <2>4
<1>4. CASE ~(offset + 1 =< final)
  <2>1. page = <<>>
    BY <1>1, <1>4
  <2>2. Len(page) = 0 /\ DOMAIN page = 1..0
    BY <2>1
  <2>3. \A j \in (offset + 1)..(offset + size) : j \in 1..n => j - offset \in 1..0
    BY <1>4
  <2> HIDE DEF page, final
  <2>4. Slices(page, n, order, size, offset)
    BY <2>2, <2>3 DEF Slices
  <2> QED
    BY <1>2, <2>4
<1> QED
  BY <1>3, <1>4

\* Pages do not overlap.
LEMMA PagesApart ==
    ASSUME NEW size \in Nat, size > 0, NEW p \in Nat \ {0}, NEW k \in Nat \ {0}, NEW x \in Int,
           OnPage(p, size, x), OnPage(k, size, x)
    PROVE  p = k
<1>1. ASSUME NEW a \in Nat \ {0}, NEW b \in Nat \ {0}, a < b
      PROVE  (a - 1) * size + size =< (b - 1) * size
  <2>1. a =< b - 1 /\ a \in Nat /\ b - 1 \in Nat
    BY <1>1
  <2>2. a * size =< (b - 1) * size
    BY <2>1, TimesIsMonotone
  <2>3. (a - 1) * size + size = a * size
    OBVIOUS
  <2> QED
    BY <2>2, <2>3
<1>2. (p - 1) * size \in Int /\ (k - 1) * size \in Int
  OBVIOUS
<1>3. ~(p < k) /\ ~(k < p)
  BY <1>1, <1>2 DEF OnPage
<1> QED
  BY <1>3

\* Every row has its page.
LEMMA RowHasPage ==
    ASSUME NEW size \in Nat, size > 0, NEW j \in Nat \ {0}
    PROVE  \E p \in 1..j : OnPage(p, size, j)
<1> DEFINE S == {i \in Nat : i > 0 => \E p \in 1..i : OnPage(p, size, i)}
<1>1. 0 \in S
  OBVIOUS
<1>2. ASSUME NEW i \in S PROVE i + 1 \in S
  <2>1. CASE i = 0
    <3>1. OnPage(1, size, 1)
      BY DEF OnPage
    <3> QED
      BY <2>1, <3>1
  <2>2. CASE i > 0
    <3>1. PICK p \in 1..i : OnPage(p, size, i)
      BY <2>2
    <3>2. (p - 1) * size \in Int /\ ((p + 1) - 1) * size = (p - 1) * size + size
      OBVIOUS
    <3>3. OnPage(p, size, i + 1) \/ OnPage(p + 1, size, i + 1)
      BY <3>1, <3>2 DEF OnPage
    <3>4. p \in 1..(i + 1) /\ p + 1 \in 1..(i + 1) /\ i + 1 \in Nat
      OBVIOUS
    <3> QED
      BY <3>3, <3>4
  <2> QED
    BY <2>1, <2>2
<1>3. S = Nat
  <2> HIDE DEF S
  <2>1. S \subseteq Nat
    BY DEF S
  <2> QED
    BY <1>1, <1>2, <2>1, NaturalsByInduction
<1> QED
  BY <1>3

\* For any number of rows, any orders the queries find them in, any limit a client asks
\* for and any limits of the service: no page has a row twice, and a row that every
\* query has on one page is shown there and nowhere else; all of them are such rows when
\* the orders agree.
THEOREM PagesCoverEverything ==
    ASSUME NEW n \in Nat, NEW wanted \in Int,
           NEW orders \in [1..n -> Bijection(1..n, 1..n)]
    PROVE  PagesCoverAll(n, wanted, orders)
<1> DEFINE size == Limit(wanted)
           offset(p) == (p - 1) * size
           pages == Walk(wanted, orders)
           WouldBe(p) == {row \in 1..n : \A k \in 1..n :
                             row \in ToSet(Page(orders[k], size, offset(p)))}
<1>1. size \in Nat /\ size > 0 /\ size =< Most /\ Most \in Nat
  <2>1. size \in 1..Most
    BY LimitIsPositive
  <2>2. Most \in Nat
    BY RankingAssumption
  <2> HIDE DEF size
  <2> QED
    BY <2>1, <2>2
<1>2. \A k \in 1..n : pages[k] = Page(orders[k], size, offset(k))
  BY DEF Walk
<1> HIDE DEF pages, size
<1>3. ASSUME NEW k \in 1..n
      PROVE  /\ orders[k] \in [1..n -> 1..n]
             /\ \A row \in 1..n : \E i \in 1..n : orders[k][i] = row
             /\ IsInjective(orders[k])
  <2>1. orders[k] \in Bijection(1..n, 1..n)
    OBVIOUS
  <2> QED
    BY <2>1 DEF Bijection, Injection, Surjection
<1>4. ASSUME NEW p \in 1..n PROVE offset(p) \in Nat
  <2> SUFFICES (p - 1) * size \in Nat
    OBVIOUS
  <2>1. p - 1 \in Nat
    OBVIOUS
  <2> QED
    BY <1>1, <2>1
<1> HIDE DEF offset, WouldBe
<1>5. ASSUME NEW k \in 1..n, NEW p \in 1..n
      PROVE  Slices(Page(orders[k], size, offset(p)), n, orders[k], size, offset(p))
  BY <1>1, <1>3, <1>4, PageRows
\* One place for one row.
<1>6. ASSUME NEW k \in 1..n, NEW i \in 1..n, NEW j \in 1..n, orders[k][i] = orders[k][j]
       PROVE  i = j
  <2>1. DOMAIN orders[k] = 1..n /\ IsInjective(orders[k])
    BY <1>3
  <2>2. \A a, b \in DOMAIN orders[k] : orders[k][a] = orders[k][b] => a = b
    BY <2>1 DEF IsInjective
  <2> QED
    BY <1>6, <2>1, <2>2
\* A row is on a page of an order if its place is between the bounds of the page.
<1>7. ASSUME NEW k \in 1..n, NEW p \in 1..n, NEW i \in 1..n
      PROVE  orders[k][i] \in ToSet(Page(orders[k], size, offset(p)))
                <=> i \in (offset(p) + 1)..(offset(p) + size)
  <2> DEFINE page == Page(orders[k], size, offset(p))
  <2>1. /\ Len(page) \in Nat /\ Len(page) =< size /\ DOMAIN page = 1..Len(page)
        /\ \A j \in 1..Len(page) : offset(p) + j \in 1..n /\ page[j] = orders[k][offset(p) + j]
        /\ \A j \in (offset(p) + 1)..(offset(p) + size) :
              j \in 1..n => j - offset(p) \in 1..Len(page)
    BY <1>5 DEF Slices
  <2> HIDE DEF page
  <2>2. ASSUME orders[k][i] \in ToSet(page) PROVE i \in (offset(p) + 1)..(offset(p) + size)
    <3>1. PICK j \in 1..Len(page) : page[j] = orders[k][i]
      BY <2>1, <2>2 DEF ToSet
    <3>2. offset(p) + j = i
      <4>1. offset(p) + j \in 1..n /\ orders[k][offset(p) + j] = orders[k][i]
        BY <2>1, <3>1
      <4> QED
        BY <1>6, <4>1
    <3> QED
      BY <1>1, <1>4, <2>1, <3>2
  <2>3. ASSUME i \in (offset(p) + 1)..(offset(p) + size) PROVE orders[k][i] \in ToSet(page)
    <3>1. i - offset(p) \in 1..Len(page) /\ offset(p) + (i - offset(p)) = i
      BY <1>4, <2>1, <2>3
    <3>2. page[i - offset(p)] = orders[k][i]
      BY <2>1, <3>1
    <3> QED
      BY <2>1, <3>1, <3>2 DEF ToSet
  <2> QED
    BY <2>2, <2>3 DEF page
<1>8. ASSUME NEW k \in 1..n PROVE IsInjective(pages[k]) /\ Len(pages[k]) =< Most
  <2> DEFINE page == Page(orders[k], size, offset(k))
  <2>1. /\ Len(page) \in Nat /\ Len(page) =< size /\ DOMAIN page = 1..Len(page)
        /\ \A j \in 1..Len(page) : offset(k) + j \in 1..n /\ page[j] = orders[k][offset(k) + j]
    BY <1>5 DEF Slices
  <2>2. page = pages[k]
    BY <1>2
  <2> HIDE DEF page
  <2>3. ASSUME NEW i \in 1..Len(page), NEW j \in 1..Len(page), page[i] = page[j] PROVE i = j
    <3>1. offset(k) + i = offset(k) + j
      <4>1. /\ offset(k) + i \in 1..n /\ offset(k) + j \in 1..n
            /\ orders[k][offset(k) + i] = orders[k][offset(k) + j]
        BY <2>1, <2>3
      <4> QED
        BY <1>6, <4>1
    <3> QED
      BY <1>4, <2>1, <3>1
  <2>4. \A i, j \in DOMAIN page : page[i] = page[j] => i = j
    BY <2>1, <2>3
  <2>5. IsInjective(page)
    BY <2>4 DEF IsInjective
  <2>6. Len(page) =< Most
    BY <1>1, <2>1
  <2> QED
    BY <2>2, <2>5, <2>6
<1>9. ASSUME NEW p \in 1..n, NEW row \in WouldBe(p)
      PROVE  {k \in 1..n : row \in ToSet(pages[k])} = {p}
  <2>1. row \in 1..n /\ \A k \in 1..n : row \in ToSet(Page(orders[k], size, offset(p)))
    BY <1>9 DEF WouldBe
  <2>2. row \in ToSet(pages[p])
    BY <1>2, <2>1
  <2>3. ASSUME NEW k \in 1..n, row \in ToSet(pages[k]) PROVE k = p
    <3>1. PICK i \in 1..n : orders[k][i] = row
      BY <1>3, <2>1
    <3>2. /\ i \in (offset(p) + 1)..(offset(p) + size)
          /\ i \in (offset(k) + 1)..(offset(k) + size)
      BY <1>2, <1>7, <2>1, <2>3, <3>1
    <3>3. /\ offset(p) < i /\ i =< offset(p) + size
          /\ offset(k) < i /\ i =< offset(k) + size
      BY <1>1, <1>4, <3>2
    <3>4. OnPage(p, size, i) /\ OnPage(k, size, i)
      BY <3>3 DEF offset, OnPage
    <3> QED
      BY <1>1, <3>4, PagesApart
  <2> QED
    BY <2>2, <2>3
<1>10. ASSUME \A k \in 1..n : orders[k] = orders[1], NEW row \in 1..n
      PROVE  \E p \in 1..n : row \in WouldBe(p)
  <2>1. 1 \in 1..n
    OBVIOUS
  <2>2. PICK i \in 1..n : orders[1][i] = row
    BY <1>3, <2>1
  <2>3. PICK p \in 1..i : OnPage(p, size, i)
    BY <1>1, RowHasPage
  <2>4. p \in 1..n /\ i \in (offset(p) + 1)..(offset(p) + size)
    <3>1. p \in 1..n
      BY <2>3
    <3>2. offset(p) < i /\ i =< offset(p) + size
      BY <2>3 DEF offset, OnPage
    <3> QED
      BY <1>1, <1>4, <3>1, <3>2
  <2>5. \A k \in 1..n : row \in ToSet(Page(orders[k], size, offset(p)))
    BY <1>7, <1>10, <2>2, <2>4
  <2> QED
    BY <2>4, <2>5 DEF WouldBe
<1> QED
  BY <1>8, <1>9, <1>10 DEF pages, size, offset, WouldBe, PagesCoverAll

-----------------------------------------------------------------------------
(* The loops: a fold over a sequence of any length has a result for each round.    *)
\* A set of positions has a last one.
LEMMA LastPosition ==
    ASSUME NEW n \in Nat, NEW u \in SUBSET (1..n), u /= {}
    PROVE  Max(u) \in u /\ \A x \in u : Max(u) >= x
<1> DEFINE HasLast(v) == \E x \in v : \A y \in v : x >= y
           S == {m \in Nat : \A v \in SUBSET (1..m) : v /= {} => HasLast(v)}
<1>1. 0 \in S
  <2>1. \A v \in SUBSET (1..0) : v = {}
    OBVIOUS
  <2> HIDE DEF HasLast
  <2> QED
    BY <2>1
<1>2. ASSUME NEW m \in S PROVE m + 1 \in S
  <2> SUFFICES ASSUME NEW v \in SUBSET (1..(m + 1)), v /= {} PROVE HasLast(v)
    OBVIOUS
  <2>1. CASE m + 1 \in v
    <3>1. \A y \in v : m + 1 >= y
      OBVIOUS
    <3> QED
      BY <2>1, <3>1
  <2>2. CASE m + 1 \notin v
    <3>1. v \in SUBSET (1..m)
      BY <2>2
    <3> QED
      BY <1>2, <3>1
  <2> QED
    BY <2>1, <2>2
<1>3. n \in S
  <2> HIDE DEF S
  <2>1. S \subseteq Nat
    BY DEF S
  <2> QED
    BY <1>1, <1>2, <2>1, NaturalsByInduction
<1>4. HasLast(u)
  <2> HIDE DEF HasLast
  <2> QED
    BY <1>3
<1> QED
  BY <1>4 DEF Max

\* g folds the positions 1..n, of which step[i] puts the i-th one to the rest.
FoldOf(g, n, base, step) ==
    \A u \in SUBSET (1..n) :
        g[u] = IF u = {} THEN base ELSE step[Max(u)][g[u \ {Max(u)}]]

\* The same, as long as the rest is in V.
FoldWithin(V, g, n, base, step) ==
    /\ g[{}] = base
    /\ \A u \in SUBSET (1..n) :
           u /= {} /\ g[u \ {Max(u)}] \in V
              => g[u] = step[Max(u)][g[u \ {Max(u)}]]

\* F has the result of each round.
Rounds(F, n, base, step) ==
    F[0] = base /\ \A k \in 0..(n - 1) : F[k + 1] = step[k + 1][F[k]]

\* The recursive definition of a fold has a solution.
LEMMA FoldExists ==
    ASSUME NEW V, NEW n \in Nat, NEW base \in V, NEW step \in [1..n -> [V -> V]]
    PROVE  \E g \in [SUBSET (1..n) -> V] : FoldOf(g, n, base, step)
<1> DEFINE Solves(g, m) == \A u \in SUBSET (1..m) :
                              g[u] = IF u = {} THEN base
                                     ELSE step[Max(u)][g[u \ {Max(u)}]]
           Can(m) == \E g \in [SUBSET (1..m) -> V] : Solves(g, m)
           S == {m \in Nat : m =< n => Can(m)}
<1> HIDE DEF Solves, Can
<1>1. 0 \in S
  <2> DEFINE g == [u \in SUBSET (1..0) |-> base]
  <2>1. SUBSET (1..0) = {{}}
    OBVIOUS
  <2>2. g \in [SUBSET (1..0) -> V] /\ Solves(g, 0)
    BY <2>1 DEF Solves
  <2> QED
    BY <2>2 DEF Can
<1>2. ASSUME NEW m \in S PROVE m + 1 \in S
  <2> SUFFICES ASSUME m + 1 =< n
               PROVE  Can(m + 1)
    OBVIOUS
  <2>1. m \in Nat /\ m + 1 \in 1..n
    OBVIOUS
  <2>2. PICK h \in [SUBSET (1..m) -> V] : Solves(h, m)
    <3>1. Can(m)
      BY <1>2, <2>1
    <3> QED
      BY <3>1 DEF Can
  <2> DEFINE g == [u \in SUBSET (1..(m + 1)) |->
                      IF m + 1 \in u THEN step[m + 1][h[u \ {m + 1}]] ELSE h[u]]
  <2>3. ASSUME NEW u \in SUBSET (1..(m + 1)), m + 1 \in u
        PROVE  /\ Max(u) = m + 1 /\ u \ {m + 1} \in SUBSET (1..m)
               /\ m + 1 \notin u \ {m + 1}
    <3>1. \A x \in u : m + 1 >= x
      BY <2>1
    <3>2. \A x \in u : (\A y \in u : x >= y) => x = m + 1
      BY <2>1, <2>3, <3>1
    <3>3. Max(u) = m + 1
      BY <2>3, <3>1, <3>2 DEF Max
    <3>4. u \ {m + 1} \in SUBSET (1..m)
      BY <2>1
    <3> QED
      BY <3>3, <3>4
  <2>4. ASSUME NEW u \in SUBSET (1..(m + 1)), m + 1 \notin u
        PROVE  u \in SUBSET (1..m)
    BY <2>1, <2>4
  <2>5. g \in [SUBSET (1..(m + 1)) -> V]
    BY <2>1, <2>3, <2>4
  <2>6. ASSUME NEW u \in SUBSET (1..(m + 1))
        PROVE  g[u] = IF u = {} THEN base
                      ELSE step[Max(u)][g[u \ {Max(u)}]]
    <3>1. CASE m + 1 \in u
      <4>1. u \ {m + 1} \in SUBSET (1..(m + 1))
        OBVIOUS
      <4>2. g[u \ {m + 1}] = h[u \ {m + 1}]
        BY <2>3, <3>1, <4>1
      <4>3. g[u] = step[m + 1][h[u \ {m + 1}]]
        BY <3>1
      <4> QED
        BY <2>3, <3>1, <4>2, <4>3
    <3>2. CASE m + 1 \notin u
      <4>1. u \in SUBSET (1..m) /\ g[u] = h[u]
        BY <2>4, <3>2
      <4>2. g[u \ {Max(u)}] = h[u \ {Max(u)}]
        BY <3>2
      <4> QED
        BY <2>2, <4>1, <4>2 DEF Solves
    <3> QED
      BY <3>1, <3>2
  <2> QED
    BY <2>5, <2>6 DEF Solves, Can
<1>3. n \in S
  <2> HIDE DEF S
  <2>1. S \subseteq Nat
    BY DEF S
  <2> QED
    BY <1>1, <1>2, <2>1, NaturalsByInduction
<1>4. Can(n)
  BY <1>3
<1> QED
  BY <1>4 DEF Solves, Can, FoldOf

\* It takes one element after the other.
LEMMA FoldSteps ==
    ASSUME NEW V, NEW n \in Nat, NEW base \in V, NEW step \in [1..n -> [V -> V]], NEW g,
           FoldWithin(V, g, n, base, step)
    PROVE  \E F \in [0..n -> V] : F[n] = g[1..n] /\ Rounds(F, n, base, step)
<1> USE DEF FoldWithin
<1> DEFINE F == [k \in 0..n |-> g[1..k]]
           S == {k \in Nat : k =< n => F[k] \in V}
<1>1. F[0] = base
  <2>1. g[{}] = base
    OBVIOUS
  <2>2. F[0] = g[1..0] /\ 1..0 = {}
    OBVIOUS
  <2> QED
    BY <2>1, <2>2
<1>2. ASSUME NEW k \in 0..(n - 1), F[k] \in V PROVE F[k + 1] = step[k + 1][F[k]]
  <2>1. /\ 1..(k + 1) \in SUBSET (1..n) /\ 1..(k + 1) /= {}
        /\ (1..(k + 1)) \ {k + 1} = 1..k
        /\ k \in 0..n /\ k + 1 \in 0..n
    <3>1. k \in Nat /\ k \in 0..n /\ k + 1 \in 1..n /\ k + 1 \in 0..n
      OBVIOUS
    <3>2. (1..(k + 1)) \ {k + 1} = 1..k
      BY <3>1
    <3>3. 1..(k + 1) \in SUBSET (1..n) /\ 1..(k + 1) /= {}
      <4>1. \A i \in 1..(k + 1) : i \in 1..n
        OBVIOUS
      <4>2. 1 \in 1..(k + 1)
        BY <3>1
      <4> QED
        BY <4>1, <4>2
    <3> QED
      BY <3>1, <3>2, <3>3
  <2>2. Max(1..(k + 1)) = k + 1
    <3>1. k + 1 \in 1..(k + 1) /\ \A y \in 1..(k + 1) : k + 1 >= y
      OBVIOUS
    <3>2. \A x \in 1..(k + 1) : (\A y \in 1..(k + 1) : x >= y) => x = k + 1
      BY <3>1
    <3> QED
      BY <3>1, <3>2 DEF Max
  <2>3. F[k + 1] = g[1..(k + 1)] /\ F[k] = g[1..k]
    BY <2>1
  <2> QED
    BY <1>2, <2>1, <2>2, <2>3
<1>3. S = Nat
  <2>1. 0 \in S
    BY <1>1
  <2>2. ASSUME NEW k \in S PROVE k + 1 \in S
    <3> SUFFICES ASSUME k + 1 =< n PROVE F[k + 1] \in V
      OBVIOUS
    <3>1. k \in 0..(n - 1) /\ F[k] \in V /\ k + 1 \in 1..n
      OBVIOUS
    <3>2. F[k + 1] = step[k + 1][F[k]]
      BY <1>2, <3>1
    <3> QED
      BY <3>1, <3>2
  <2>3. S \subseteq Nat
    OBVIOUS
  <2> HIDE DEF S
  <2> QED
    BY <2>1, <2>2, <2>3, NaturalsByInduction
<1>4. F \in [0..n -> V]
  <2>1. ASSUME NEW k \in 0..n PROVE g[1..k] \in V
    <3>1. k \in S
      <4> HIDE DEF S
      <4> QED
        BY <1>3
    <3>2. F[k] = g[1..k] /\ k =< n
      OBVIOUS
    <3> QED
      BY <3>1, <3>2
  <2> QED
    BY <2>1
<1>5. F[n] = g[1..n]
  OBVIOUS
<1> HIDE DEF F
<1>6. ASSUME NEW k \in 0..(n - 1) PROVE F[k + 1] = step[k + 1][F[k]]
  BY <1>2, <1>4
<1> QED
  BY <1>1, <1>4, <1>5, <1>6 DEF Rounds

-----------------------------------------------------------------------------
\* A text in lower case is one of as many words.
LEMMA LoweredWords ==
    ASSUME NEW s \in Seq(Words)
    PROVE  Lowered(s) \in Seq(Words) /\ Len(Lowered(s)) = Len(s)
<1>1. Lower \in [Words -> Words]
  BY RankingAssumption
<1>2. Len(s) \in Nat /\ DOMAIN s = 1..Len(s) /\ \A i \in 1..Len(s) : s[i] \in Words
  OBVIOUS
<1>3. Lowered(s) \in [1..Len(s) -> Words]
  BY <1>1, <1>2 DEF Lowered
<1> HIDE DEF Lowered
<1> QED
  BY <1>2, <1>3

\* Lower case word by word.
LEMMA LoweredConcat ==
    ASSUME NEW s \in Seq(Words), NEW t \in Seq(Words)
    PROVE  Lowered(s \o t) = Lowered(s) \o Lowered(t)
<1> DEFINE c == s \o t
           l == Lowered(s) \o Lowered(t)
<1>1. /\ c \in Seq(Words) /\ Len(c) = Len(s) + Len(t)
      /\ \A i \in 1..Len(c) : c[i] = IF i =< Len(s) THEN s[i] ELSE t[i - Len(s)]
  OBVIOUS
<1>2. /\ Lowered(s) \in Seq(Words) /\ Len(Lowered(s)) = Len(s)
      /\ Lowered(t) \in Seq(Words) /\ Len(Lowered(t)) = Len(t)
      /\ Lowered(c) \in Seq(Words) /\ Len(Lowered(c)) = Len(c)
  BY <1>1, LoweredWords
<1>3. /\ l \in Seq(Words) /\ Len(l) = Len(c)
      /\ \A i \in 1..Len(c) :
            l[i] = IF i =< Len(s) THEN Lowered(s)[i] ELSE Lowered(t)[i - Len(s)]
  <2>1. /\ l \in Seq(Words) /\ Len(l) = Len(Lowered(s)) + Len(Lowered(t))
        /\ \A i \in 1..(Len(Lowered(s)) + Len(Lowered(t))) :
              l[i] = IF i =< Len(Lowered(s)) THEN Lowered(s)[i] ELSE Lowered(t)[i - Len(Lowered(s))]
    <3> HIDE DEF c
    <3> QED
      BY <1>2, ConcatProperties
  <2> HIDE DEF c, l
  <2> QED
    BY <1>1, <1>2, <2>1
<1> HIDE DEF c, l
<1>4. ASSUME NEW i \in 1..Len(c) PROVE Lowered(c)[i] = l[i]
  <2>1. Lowered(c)[i] = Lower[c[i]]
    BY <1>1 DEF Lowered
  <2>2. CASE i =< Len(s)
    <3>1. i \in DOMAIN s
      BY <2>2
    <3> QED
      BY <1>1, <1>3, <2>1, <2>2, <3>1 DEF Lowered
  <2>3. CASE ~(i =< Len(s))
    <3>1. i - Len(s) \in DOMAIN t
      BY <1>1, <2>3
    <3> QED
      BY <1>1, <1>3, <2>1, <2>3, <3>1 DEF Lowered
  <2> QED
    BY <2>2, <2>3
<1>5. Lowered(c) = l
  BY <1>2, <1>3, <1>4, SeqEqual
<1> QED
  BY <1>5 DEF c, l

\* The loops of Unique and Tokenize, round by round.
LEMMA UniqueLoop ==
    ASSUME NEW s \in Seq(Words)
    PROVE  \E F \in [0..Len(s) -> Seq(Words)] :
              /\ F[0] = <<>> /\ F[Len(s)] = Unique(s)
              /\ \A k \in 0..(Len(s) - 1) :
                    F[k + 1] = IF Lowered(s)[k + 1] = 0 \/ Contains(F[k], Lowered(s)[k + 1]) THEN F[k]
                               ELSE Append(F[k], Lowered(s)[k + 1])
<1> DEFINE t == Lowered(s)
           n == Len(t)
           V == Seq(Words)
           next(i, out) == IF t[i] = 0 \/ Contains(out, t[i]) THEN out ELSE Append(out, t[i])
           step == [i \in 1..n |-> [out \in V |-> next(i, out)]]
           Solves(g) == g = [u \in SUBSET (DOMAIN t) |->
                                IF u = {} THEN <<>>
                                ELSE next(Max(u), g[u \ {Max(u)}])]
           iter == CHOOSE g : Solves(g)
<1>0. t \in Seq(Words) /\ n = Len(s)
  BY LoweredWords
<1>1. n \in Nat /\ DOMAIN t = 1..n /\ <<>> \in V /\ \A i \in 1..n : t[i] \in Words
  BY <1>0
<1>2. \A i \in 1..n, out \in V : next(i, out) \in V
  BY <1>1
<1> HIDE DEF next, n, V
<1>3. step \in [1..n -> [V -> V]] /\ \A i \in 1..n, out \in V : step[i][out] = next(i, out)
  BY <1>2
<1> HIDE DEF step
<1>4. \A u \in SUBSET (1..n) : u /= {} => Max(u) \in 1..n
  BY <1>1, LastPosition
<1>5. \E g : Solves(g)
  <2>1. PICK g \in [SUBSET (1..n) -> V] : FoldOf(g, n, <<>>, step)
    BY <1>1, <1>3, FoldExists
  <2>2. ASSUME NEW u \in SUBSET (1..n)
        PROVE  g[u] = IF u = {} THEN <<>> ELSE next(Max(u), g[u \ {Max(u)}])
    <3>1. g[u \ {Max(u)}] \in V
      BY <2>1
    <3> QED
      BY <1>3, <1>4, <2>1, <3>1 DEF FoldOf
  <2>3. g = [u \in SUBSET (1..n) |->
                IF u = {} THEN <<>> ELSE next(Max(u), g[u \ {Max(u)}])]
    BY <2>1, <2>2
  <2> QED
    BY <1>1, <2>3
<1>6. Solves(iter)
  <2> HIDE DEF Solves
  <2> QED
    BY <1>5
<1>7. Unique(s) = iter[1..n]
  BY <1>1 DEF next, Unique, FoldLeft, MapThenFoldSet
<1> HIDE DEF iter
<1>8. iter[{}] = <<>>
  BY <1>1, <1>6
<1>9. ASSUME NEW u \in SUBSET (1..n), u /= {}, iter[u \ {Max(u)}] \in V
      PROVE  iter[u] = step[Max(u)][iter[u \ {Max(u)}]]
  <2>1. iter[u] = next(Max(u), iter[u \ {Max(u)}])
    BY <1>1, <1>6, <1>9
  <2> QED
    BY <1>3, <1>4, <1>9, <2>1
<1> HIDE DEF Solves
<1>10. PICK F \in [0..n -> V] : F[n] = iter[1..n] /\ Rounds(F, n, <<>>, step)
  <2>1. FoldWithin(V, iter, n, <<>>, step)
    BY <1>8, <1>9 DEF FoldWithin
  <2> QED
    BY <1>1, <1>3, <2>1, FoldSteps
<1>11. \A k \in 0..(n - 1) : F[k + 1] = next(k + 1, F[k])
  BY <1>1, <1>3, <1>10 DEF Rounds
<1> QED
  BY <1>0, <1>7, <1>10, <1>11 DEF next, n, V, Rounds

\* The same for the loop of Tokenize.
LEMMA TokenizeLoop ==
    ASSUME NEW s \in Seq(Words)
    PROVE  \E F \in [0..Len(s) -> Seq(Words)] :
              /\ F[0] = <<>> /\ F[Len(s)] = Tokenize(s)
              /\ \A k \in 0..(Len(s) - 1) :
                    F[k + 1] = IF Lowered(s)[k + 1] \in Short \union StopWords THEN F[k]
                               ELSE Append(F[k], Lowered(s)[k + 1])
<1> DEFINE t == Lowered(s)
           n == Len(t)
           V == Seq(Words)
           next(i, out) == IF t[i] \in Short \union StopWords THEN out ELSE Append(out, t[i])
           step == [i \in 1..n |-> [out \in V |-> next(i, out)]]
           Solves(g) == g = [u \in SUBSET (DOMAIN t) |->
                                IF u = {} THEN <<>>
                                ELSE next(Max(u), g[u \ {Max(u)}])]
           iter == CHOOSE g : Solves(g)
<1>0. t \in Seq(Words) /\ n = Len(s)
  BY LoweredWords
<1>1. n \in Nat /\ DOMAIN t = 1..n /\ <<>> \in V /\ \A i \in 1..n : t[i] \in Words
  BY <1>0
<1>2. \A i \in 1..n, out \in V : next(i, out) \in V
  BY <1>1
<1> HIDE DEF next, n, V
<1>3. step \in [1..n -> [V -> V]] /\ \A i \in 1..n, out \in V : step[i][out] = next(i, out)
  BY <1>2
<1> HIDE DEF step
<1>4. \A u \in SUBSET (1..n) : u /= {} => Max(u) \in 1..n
  BY <1>1, LastPosition
<1>5. \E g : Solves(g)
  <2>1. PICK g \in [SUBSET (1..n) -> V] : FoldOf(g, n, <<>>, step)
    BY <1>1, <1>3, FoldExists
  <2>2. ASSUME NEW u \in SUBSET (1..n)
        PROVE  g[u] = IF u = {} THEN <<>> ELSE next(Max(u), g[u \ {Max(u)}])
    <3>1. g[u \ {Max(u)}] \in V
      BY <2>1
    <3> QED
      BY <1>3, <1>4, <2>1, <3>1 DEF FoldOf
  <2>3. g = [u \in SUBSET (1..n) |->
                IF u = {} THEN <<>> ELSE next(Max(u), g[u \ {Max(u)}])]
    BY <2>1, <2>2
  <2> QED
    BY <1>1, <2>3
<1>6. Solves(iter)
  <2> HIDE DEF Solves
  <2> QED
    BY <1>5
<1>7. Tokenize(s) = iter[1..n]
  BY <1>1 DEF next, Tokenize, FoldLeft, MapThenFoldSet
<1> HIDE DEF iter
<1>8. iter[{}] = <<>>
  BY <1>1, <1>6
<1>9. ASSUME NEW u \in SUBSET (1..n), u /= {}, iter[u \ {Max(u)}] \in V
      PROVE  iter[u] = step[Max(u)][iter[u \ {Max(u)}]]
  <2>1. iter[u] = next(Max(u), iter[u \ {Max(u)}])
    BY <1>1, <1>6, <1>9
  <2> QED
    BY <1>3, <1>4, <1>9, <2>1
<1> HIDE DEF Solves
<1>10. PICK F \in [0..n -> V] : F[n] = iter[1..n] /\ Rounds(F, n, <<>>, step)
  <2>1. FoldWithin(V, iter, n, <<>>, step)
    BY <1>8, <1>9 DEF FoldWithin
  <2> QED
    BY <1>1, <1>3, <2>1, FoldSteps
<1>11. \A k \in 0..(n - 1) : F[k + 1] = next(k + 1, F[k])
  BY <1>1, <1>3, <1>10 DEF Rounds
<1> QED
  BY <1>0, <1>7, <1>10, <1>11 DEF next, n, V, Rounds

-----------------------------------------------------------------------------
\* A word of a text has a first place.
LEMMA FirstPlace ==
    ASSUME NEW s \in Seq(Words), NEW k \in 1..Len(s)
    PROVE  /\ FirstAt(s, s[k]) \in 1..k
           /\ s[FirstAt(s, s[k])] = s[k]
           /\ \A j \in 1..(FirstAt(s, s[k]) - 1) : s[j] /= s[k]
<1> DEFINE w == s[k]
           First(p) == s[p] = w /\ \A j \in 1..(p - 1) : s[j] /= w
           S == {m \in Nat : m =< Len(s) /\ (\E i \in 1..m : s[i] = w) => \E p \in 1..m : First(p)}
<1> HIDE DEF w
<1>0. Len(s) \in Nat /\ DOMAIN s = 1..Len(s)
  OBVIOUS
<1>1. 0 \in S
  OBVIOUS
<1>2. ASSUME NEW m \in S PROVE m + 1 \in S
  <2> SUFFICES ASSUME m + 1 =< Len(s), \E i \in 1..(m + 1) : s[i] = w
               PROVE  \E p \in 1..(m + 1) : First(p)
    OBVIOUS
  <2>1. CASE \E i \in 1..m : s[i] = w
    <3>1. m =< Len(s)
      BY <1>0
    <3>2. PICK p \in 1..m : First(p)
      <4> HIDE DEF First
      <4> QED
        BY <2>1, <3>1
    <3>3. p \in 1..(m + 1)
      OBVIOUS
    <3> QED
      BY <3>2, <3>3
  <2>2. CASE ~\E i \in 1..m : s[i] = w
    <3>1. s[m + 1] = w /\ m + 1 \in 1..(m + 1) /\ (m + 1) - 1 = m
      BY <2>2
    <3>2. First(m + 1)
      BY <2>2, <3>1
    <3> QED
      BY <3>1, <3>2
  <2> QED
    BY <2>1, <2>2
<1>3. S = Nat
  <2> HIDE DEF S
  <2>1. S \subseteq Nat
    BY DEF S
  <2> QED
    BY <1>1, <1>2, <2>1, NaturalsByInduction
<1>4. PICK p \in 1..k : First(p)
  <2> HIDE DEF First
  <2>1. k \in S
    <3> HIDE DEF S
    <3> QED
      BY <1>3
  <2>2. s[k] = w
    BY DEF w
  <2> QED
    BY <1>0, <2>1, <2>2
<1>5. \A q \in DOMAIN s : First(q) => q = p
  BY <1>0, <1>4
<1>6. FirstAt(s, w) = p
  BY <1>0, <1>4, <1>5 DEF FirstAt
<1> QED
  BY <1>4, <1>6 DEF w

\* Unique keeps every spelling but blanks once, in lower case and in the order of first
\* places, for any text.
THEOREM UniqueKeepsFirst ==
    ASSUME NEW text \in Seq(Words)
    PROVE  UniqueIsRight(text)
<1> DEFINE s == Lowered(text)
           n == Len(s)
<1>t. s \in Seq(Words) /\ Len(text) = n
  BY LoweredWords
<1>0. n \in Nat /\ DOMAIN s = 1..n
  BY <1>t
<1>1. PICK F \in [0..n -> Seq(Words)] :
         /\ F[0] = <<>> /\ F[n] = Unique(text)
         /\ \A k \in 0..(n - 1) :
               F[k + 1] = IF s[k + 1] = 0 \/ Contains(F[k], s[k + 1]) THEN F[k]
                          ELSE Append(F[k], s[k + 1])
  BY <1>t, UniqueLoop
<1> DEFINE Once(u) == \A i, j \in DOMAIN u : u[i] = u[j] => i = j
           Words0(u, k) == /\ \A i \in DOMAIN u : u[i] /= 0 /\ \E j \in 1..k : s[j] = u[i]
                           /\ \A j \in 1..k : s[j] /= 0 => \E i \in DOMAIN u : u[i] = s[j]
           Ordered(u) == \A i, j \in DOMAIN u :
                            i < j => FirstAt(s, u[i]) < FirstAt(s, u[j])
           Good(k) == Once(F[k]) /\ Words0(F[k], k) /\ Ordered(F[k])
           S == {k \in Nat : k =< n => Good(k)}
<1> HIDE DEF s, n
<1>2. 0 \in S
  BY <1>1
<1>3. ASSUME NEW k \in S PROVE k + 1 \in S
  <2> SUFFICES ASSUME k + 1 =< n PROVE Good(k + 1)
    OBVIOUS
  <2> DEFINE u == F[k]
             w == s[k + 1]
  <2>1. k \in 0..(n - 1) /\ k + 1 \in 1..n /\ k \in Nat
    BY <1>0
  <2>2. Good(k)
    <3> HIDE DEF Good
    <3> QED
      BY <1>0, <2>1
  <2>3. u \in Seq(Words) /\ DOMAIN u = 1..Len(u) /\ Len(u) \in Nat
    <3>1. u \in Seq(Words)
      BY <1>0, <1>1, <2>1
    <3> QED
      BY <3>1
  <2>4. CASE w = 0 \/ Contains(u, w)
    <3>1. F[k + 1] = u
      BY <1>1, <2>1, <2>4
    <3>2. w /= 0 => \E i \in DOMAIN u : u[i] = w
      BY <2>3, <2>4 DEF Contains
    <3>3. Words0(u, k + 1)
      BY <2>1, <2>2, <3>2
    <3> QED
      BY <2>2, <3>1, <3>3
  <2>5. CASE ~(w = 0 \/ Contains(u, w))
    <3> DEFINE v == Append(u, w)
    <3>1. F[k + 1] = v
      BY <1>1, <2>1, <2>5
    <3>2. /\ Len(v) = Len(u) + 1 /\ DOMAIN v = 1..(Len(u) + 1)
          /\ v[Len(u) + 1] = w /\ \A i \in 1..Len(u) : v[i] = u[i]
      BY <2>3
    <3> HIDE DEF v, u, w
    <3>3. \A i \in 1..Len(u) : u[i] /= w
      BY <2>3, <2>5 DEF Contains
    <3>4. Once(v)
      <4> SUFFICES ASSUME NEW i \in DOMAIN v, NEW j \in DOMAIN v, i < j PROVE v[i] /= v[j]
        BY <2>3, <3>2
      <4>1. i \in 1..Len(u) /\ v[i] = u[i]
        BY <2>3, <3>2
      <4>2. CASE j = Len(u) + 1
        BY <3>2, <3>3, <4>1, <4>2
      <4>3. CASE j \in 1..Len(u)
        BY <2>2, <2>3, <3>2, <4>1, <4>3 DEF u
      <4> QED
        BY <2>3, <3>2, <4>2, <4>3
    <3>5. Words0(v, k + 1)
      <4>1. ASSUME NEW i \in DOMAIN v
            PROVE  v[i] /= 0 /\ \E j \in 1..(k + 1) : s[j] = v[i]
        <5>1. CASE i = Len(u) + 1
          BY <2>1, <2>5, <3>2, <5>1 DEF w
        <5>2. CASE i \in 1..Len(u)
          BY <2>1, <2>2, <2>3, <3>2, <5>2 DEF u
        <5> QED
          BY <2>3, <3>2, <5>1, <5>2
      <4>2. ASSUME NEW j \in 1..(k + 1), s[j] /= 0
            PROVE  \E i \in DOMAIN v : v[i] = s[j]
        <5>1. CASE j = k + 1
          BY <2>3, <3>2, <5>1 DEF w
        <5>2. CASE j \in 1..k
          <6>1. PICK i \in DOMAIN u : u[i] = s[j]
            BY <2>2, <4>2, <5>2 DEF u
          <6> QED
            BY <2>3, <3>2, <6>1
        <5> QED
          BY <2>1, <5>1, <5>2
      <4> QED
        BY <4>1, <4>2
    <3>6. FirstAt(s, w) = k + 1
      <4>1. ASSUME NEW j \in 1..k PROVE s[j] /= w
        BY <2>2, <2>3, <2>5, <3>3, <4>1 DEF u
      <4>2. /\ FirstAt(s, w) \in 1..(k + 1) /\ s[FirstAt(s, w)] = w
        BY <1>t, <1>0, <2>1, FirstPlace DEF w, n
      <4> QED
        BY <2>1, <4>1, <4>2
    <3>7. ASSUME NEW i \in 1..Len(u) PROVE FirstAt(s, u[i]) \in 1..k
      <4>1. PICK j \in 1..k : s[j] = u[i]
        BY <2>2, <2>3 DEF u
      <4>2. j \in 1..Len(s)
        BY <2>1 DEF n
      <4>3. FirstAt(s, s[j]) \in 1..j
        BY <1>t, <4>2, FirstPlace
      <4> QED
        BY <2>1, <4>1, <4>3
    <3>8. Ordered(v)
      <4> SUFFICES ASSUME NEW i \in DOMAIN v, NEW j \in DOMAIN v, i < j
                   PROVE  FirstAt(s, v[i]) < FirstAt(s, v[j])
        OBVIOUS
      <4>1. i \in 1..Len(u) /\ v[i] = u[i]
        BY <2>3, <3>2
      <4>2. CASE j = Len(u) + 1
        BY <2>1, <3>2, <3>6, <3>7, <4>1, <4>2
      <4>3. CASE j \in 1..Len(u)
        BY <2>2, <2>3, <3>2, <4>1, <4>3 DEF u
      <4> QED
        BY <2>3, <3>2, <4>2, <4>3
    <3> QED
      BY <3>1, <3>4, <3>5, <3>8
  <2> QED
    BY <2>4, <2>5
<1>4. Good(n)
  <2>1. n \in S
    <3> HIDE DEF S
    <3>1. S \subseteq Nat
      BY DEF S
    <3> QED
      BY <1>0, <1>2, <1>3, <3>1, NaturalsByInduction
  <2> HIDE DEF Good
  <2> QED
    BY <1>0, <2>1
<1> DEFINE u == Unique(text)
<1>5. Once(u) /\ Words0(u, n) /\ Ordered(u)
  BY <1>1, <1>4
<1> HIDE DEF u
<1>6. IsInjective(u)
  BY <1>5 DEF IsInjective
<1>7. ToSet(u) = ToSet(s) \ {0}
  <2>1. ASSUME NEW i \in DOMAIN u PROVE u[i] \in ToSet(s) /\ u[i] /= 0
    BY <1>0, <1>5 DEF ToSet
  <2>2. ASSUME NEW i \in DOMAIN s, s[i] /= 0 PROVE s[i] \in ToSet(u)
    BY <1>0, <1>5, <2>2 DEF ToSet
  <2> QED
    BY <2>1, <2>2 DEF ToSet
<1> QED
  BY <1>5, <1>6, <1>7 DEF u, s, UniqueIsRight

-----------------------------------------------------------------------------
\* semanticSimilarity.
\* A text has finitely many words.
LEMMA FewWords ==
    ASSUME NEW s \in Seq(Words)
    PROVE  IsFiniteSet(ToSet(s)) /\ (ToSet(s) = {} <=> s = <<>>)
<1>1. Len(s) \in Nat /\ DOMAIN s = 1..Len(s) /\ s \in [1..Len(s) -> Words]
  OBVIOUS
<1>2. IsFiniteSet(1..Len(s))
  BY <1>1, FS_Interval
<1>3. s \in Surjection(1..Len(s), ToSet(s))
  BY <1>1 DEF Surjection, ToSet
<1>4. IsFiniteSet(ToSet(s))
  BY <1>2, <1>3, FS_Surjection
<1>5. ToSet(s) = {} => s = <<>>
  <2> SUFFICES ASSUME s /= <<>> PROVE ToSet(s) /= {}
    OBVIOUS
  <2>1. 1 \in DOMAIN s
    BY <1>1
  <2> QED
    BY <2>1 DEF ToSet
<1>6. s = <<>> => ToSet(s) = {}
  BY DEF ToSet
<1> QED
  BY <1>4, <1>5, <1>6

\* The similarity of any two texts is a fraction of 1, the same both ways, and 1 for the
\* same words only.
THEOREM SimilarityIsJaccard ==
    ASSUME NEW q \in Seq(Words), NEW d \in Seq(Words)
    PROVE  SimilarityIsRight(q, d)
<1> DEFINE left == ToSet(q)
           right == ToSet(d)
           common == Cardinality(left \intersect right)
           union == Cardinality(left) + Cardinality(right) - common
<1>1. IsFiniteSet(left) /\ IsFiniteSet(right) /\ (left = {} <=> q = <<>>) /\ (right = {} <=> d = <<>>)
  BY FewWords
<1>2. right \intersect left = left \intersect right
  OBVIOUS
<1> HIDE DEF left, right
<1>3. /\ IsFiniteSet(left \intersect right) /\ common \in Nat
      /\ Cardinality(left) \in Nat /\ Cardinality(right) \in Nat
      /\ common =< Cardinality(left) /\ common =< Cardinality(right)
  BY <1>1, FS_Intersection, FS_CardinalityType
<1>4. (common = Cardinality(left) => left \subseteq right)
      /\ (common = Cardinality(right) => right \subseteq left)
  <2>1. left \intersect right \in SUBSET left /\ left \intersect right \in SUBSET right
    OBVIOUS
  <2>2. common = Cardinality(left) => left = left \intersect right
    BY <1>1, <2>1, FS_Subset
  <2>3. common = Cardinality(right) => right = left \intersect right
    BY <1>1, <2>1, FS_Subset
  <2> QED
    BY <2>2, <2>3
<1>5. left = right => common = Cardinality(left) /\ common = Cardinality(right)
  <2>1. left = right => left \intersect right = left
    OBVIOUS
  <2> QED
    BY <2>1
<1>6. common = 0 /\ left = right => q = <<>>
  BY <1>1, <1>3, <1>5, FS_EmptySet
<1>7. Similarity(q, d) =
         IF q = <<>> \/ d = <<>> \/ common = 0 \/ union =< 0 THEN <<0, 1>>
         ELSE <<IF common < union THEN common ELSE union, union>>
  BY DEF left, right, Similarity
<1>8. Similarity(d, q) =
         IF d = <<>> \/ q = <<>> \/ common = 0 \/ union =< 0 THEN <<0, 1>>
         ELSE <<IF common < union THEN common ELSE union, union>>
  <2>1. Cardinality(right) + Cardinality(left) - common = union
    BY <1>3
  <2> QED
    BY <1>2, <2>1 DEF left, right, Similarity
<1> DEFINE f == Similarity(q, d)
<1> HIDE DEF common
<1>9. CASE q = <<>> \/ d = <<>> \/ common = 0 \/ union =< 0
  <2>1. f = <<0, 1>> /\ Similarity(d, q) = f
    BY <1>7, <1>8, <1>9
  <2>2. ~(q /= <<>> /\ left = right)
    BY <1>1, <1>3, <1>5, <1>6, <1>9
  <2> QED
    BY <2>1, <2>2 DEF left, right, SimilarityIsRight
<1>10. CASE ~(q = <<>> \/ d = <<>> \/ common = 0 \/ union =< 0)
  <2>1. common =< union /\ union \in Nat /\ union > 0
        /\ (common = union <=> common = Cardinality(left) /\ common = Cardinality(right))
    BY <1>3, <1>10
  <2> HIDE DEF union
  <2>2. f = <<common, union>> /\ Similarity(d, q) = f
    BY <1>3, <1>7, <1>8, <1>10, <2>1
  <2>3. common = union <=> left = right
    BY <1>4, <1>5, <2>1
  <2> QED
    BY <1>3, <1>10, <2>1, <2>2, <2>3 DEF left, right, SimilarityIsRight
<1> QED
  BY <1>9, <1>10

-----------------------------------------------------------------------------
\* normalizeScores: of finitely many scores one is the highest.
LEMMA HighestScore ==
    ASSUME NEW D, IsFiniteSet(D), NEW f \in [D -> Nat]
    PROVE  /\ Highest(f) \in {f[d] : d \in D} \union {0}
           /\ \A d \in D : f[d] =< Highest(f)
<1> DEFINE n == Cardinality(D)
           Bounds(g, k, m) == /\ m = 0 \/ \E i \in 1..k : g[i] = m
                              /\ \A i \in 1..k : g[i] =< m
<1>1. n \in Nat /\ ExistsBijection(1..n, D)
  BY FS_CardinalityType
<1>2. PICK e \in Bijection(1..n, D) : TRUE
  BY <1>1 DEF ExistsBijection
<1> DEFINE g == [i \in 1..n |-> f[e[i]]]
           S == {k \in Nat : k =< n => \E m \in Nat : Bounds(g, k, m)}
<1>3. e \in [1..n -> D] /\ \A d \in D : \E i \in 1..n : e[i] = d
  BY <1>2 DEF Bijection, Injection, Surjection
<1>4. \A i \in 1..n : g[i] \in Nat /\ g[i] = f[e[i]]
  BY <1>3
<1> HIDE DEF n, g
<1>5. 0 \in S
  <2>1. Bounds(g, 0, 0)
    OBVIOUS
  <2> QED
    BY <2>1
<1>6. ASSUME NEW k \in S PROVE k + 1 \in S
  <2> SUFFICES ASSUME k + 1 =< n PROVE \E m \in Nat : Bounds(g, k + 1, m)
    OBVIOUS
  <2>1. PICK m \in Nat : Bounds(g, k, m)
    <3>1. k =< n
      BY <1>1
    <3> HIDE DEF Bounds
    <3> QED
      BY <3>1
  <2>2. k + 1 \in 1..n /\ g[k + 1] \in Nat
    BY <1>1, <1>4
  <2>3. CASE g[k + 1] =< m
    <3>1. Bounds(g, k + 1, m)
      BY <2>1, <2>2, <2>3
    <3> QED
      BY <3>1
  <2>4. CASE g[k + 1] > m
    <3>1. \A i \in 1..k : i \in 1..n /\ g[i] \in Nat
      BY <1>1, <1>4, <2>2
    <3>2. Bounds(g, k + 1, g[k + 1])
      BY <2>1, <2>2, <2>4, <3>1
    <3> QED
      BY <2>2, <3>2
  <2> QED
    BY <2>2, <2>3, <2>4
<1>7. PICK m \in Nat : Bounds(g, n, m)
  <2>1. n \in S
    <3> HIDE DEF S
    <3>1. S \subseteq Nat
      BY DEF S
    <3> QED
      BY <1>1, <1>5, <1>6, <3>1, NaturalsByInduction
  <2> HIDE DEF Bounds
  <2> QED
    BY <1>1, <2>1
<1>8. m \in {f[d] : d \in D} \union {0} /\ \A d \in D : f[d] =< m
  BY <1>3, <1>4, <1>7
<1>9. DOMAIN f = D
  OBVIOUS
<1> QED
  BY <1>8, <1>9 DEF Highest

\* Normalised scores order any documents as their scores do, and the best has 1.
THEOREM NormalizingKeepsOrder ==
    ASSUME NEW D, IsFiniteSet(D), NEW scores \in [D -> Nat]
    PROVE  NormalizedKeepsOrder(scores)
<1> DEFINE h == Highest(scores)
           f == Normalize(scores)
<1>1. /\ h \in {scores[d] : d \in D} \union {0} /\ h \in Nat
      /\ \A d \in D : scores[d] =< h /\ scores[d] \in Nat
  BY HighestScore
<1>2. DOMAIN scores = D
  OBVIOUS
<1> HIDE DEF h
<1>3. CASE h =< 0
  <2>1. f = <<>> /\ \A d \in D : scores[d] = 0
    BY <1>1, <1>3 DEF h, Normalize
  <2>2. DOMAIN f = {} /\ {d \in D : scores[d] > 0} = {}
    BY <2>1
  <2> QED
    BY <1>2, <2>2 DEF NormalizedKeepsOrder
<1>4. CASE ~(h =< 0)
  <2>1. f = [d \in {e \in D : scores[e] > 0} |-> <<scores[d], h>>]
    BY <1>2, <1>4 DEF h, Normalize
  <2>2. /\ DOMAIN f = {d \in D : scores[d] > 0}
        /\ \A d \in DOMAIN f : f[d][1] = scores[d] /\ f[d][2] = h /\ scores[d] \in 1..h
    BY <1>1, <2>1
  <2> HIDE DEF f
  <2>3. ASSUME NEW d \in DOMAIN f, NEW e \in DOMAIN f
        PROVE  scores[d] =< scores[e] <=> f[d][1] * f[e][2] =< f[e][1] * f[d][2]
    <3>1. \A a, b, c \in Nat : c > 0 => (a =< b <=> a * c =< b * c)
      BY TimesIsMonotone
    <3> QED
      BY <1>1, <1>4, <2>2, <3>1
  <2>4. DOMAIN f /= {} => \E d \in DOMAIN f : f[d][1] = f[d][2]
    BY <1>1, <1>4, <2>2
  <2>5. \A d \in DOMAIN f : f[d][1] \in 1..f[d][2]
    BY <2>2
  <2> QED
    BY <1>2, <2>2, <2>3, <2>4, <2>5 DEF f, NormalizedKeepsOrder
<1> QED
  BY <1>3, <1>4

-----------------------------------------------------------------------------
\* How often x is among the first k words of a text.
Count(s, k, x) == Cardinality({i \in 1..k : s[i] = x})

\* One more word counts if it is x.
LEMMA CountGrows ==
    ASSUME NEW s, NEW x, NEW k \in Nat
    PROVE  /\ Count(s, k, x) \in Nat
           /\ Count(s, 0, x) = 0
           /\ Count(s, k + 1, x) = Count(s, k, x) + (IF s[k + 1] = x THEN 1 ELSE 0)
<1> DEFINE A == {i \in 1..k : s[i] = x}
           C == {i \in 1..(k + 1) : s[i] = x}
<1>1. IsFiniteSet(A)
  <2>1. IsFiniteSet(1..k) /\ A \in SUBSET (1..k)
    BY FS_Interval
  <2> QED
    BY <2>1, FS_Subset
<1>2. Cardinality(A) \in Nat
  BY <1>1, FS_CardinalityType
<1>3. {i \in 1..0 : s[i] = x} = {}
  OBVIOUS
<1>4. CASE s[k + 1] = x
  <2>1. C = A \union {k + 1} /\ k + 1 \notin A
    BY <1>4
  <2> HIDE DEF A, C
  <2>2. Cardinality(C) = Cardinality(A) + 1
    BY <1>1, <2>1, FS_AddElement
  <2> QED
    BY <1>2, <1>3, <1>4, <2>2, FS_EmptySet DEF A, C, Count
<1>5. CASE s[k + 1] /= x
  <2>1. C = A
    BY <1>5
  <2> QED
    BY <1>2, <1>3, <1>5, <2>1, FS_EmptySet DEF Count
<1> QED
  BY <1>4, <1>5

\* Only the first k words count.
LEMMA CountSame ==
    ASSUME NEW s, NEW t, NEW x, NEW k \in Nat, \A i \in 1..k : s[i] = t[i]
    PROVE  Count(s, k, x) = Count(t, k, x)
<1>1. {i \in 1..k : s[i] = x} = {i \in 1..k : t[i] = x}
  OBVIOUS
<1> QED
  BY <1>1 DEF Count

\* Occurrences is Count over the whole text, and the words of a text occur in it.
LEMMA OccurrencesAreCounts ==
    ASSUME NEW s \in Seq(Words), NEW x
    PROVE  /\ Occurrences(s, x) = Count(s, Len(s), x) /\ Occurrences(s, x) \in Nat
           /\ Occurrences(s, x) > 0 <=> x \in ToSet(s)
<1>1. DOMAIN s = 1..Len(s) /\ Len(s) \in Nat
  OBVIOUS
<1>2. Occurrences(s, x) = Count(s, Len(s), x)
  BY <1>1 DEF Occurrences, Count
<1>3. Count(s, Len(s), x) \in Nat
  BY <1>1, CountGrows
<1>4. Count(s, Len(s), x) = 0 <=> {i \in 1..Len(s) : s[i] = x} = {}
  <2>1. IsFiniteSet(1..Len(s)) /\ {i \in 1..Len(s) : s[i] = x} \in SUBSET (1..Len(s))
    BY <1>1, FS_Interval
  <2>2. IsFiniteSet({i \in 1..Len(s) : s[i] = x})
    BY <2>1, FS_Subset
  <2> QED
    BY <2>2, FS_EmptySet DEF Count
<1>5. x \in ToSet(s) <=> {i \in 1..Len(s) : s[i] = x} /= {}
  BY <1>1 DEF ToSet
<1> QED
  BY <1>2, <1>3, <1>4, <1>5

\* Words of two texts, one behind the other.
LEMMA OccurrencesAdd ==
    ASSUME NEW s \in Seq(Words), NEW t \in Seq(Words), NEW x
    PROVE  Occurrences(s \o t, x) = Occurrences(s, x) + Occurrences(t, x)
<1> DEFINE n == Len(s)
           m == Len(t)
           c == s \o t
           S == {k \in Nat : k =< m => Count(c, n + k, x) = Count(s, n, x) + Count(t, k, x)}
<1>1. /\ n \in Nat /\ m \in Nat /\ c \in Seq(Words) /\ Len(c) = n + m
      /\ \A i \in 1..n : c[i] = s[i]
      /\ \A i \in 1..m : c[n + i] = t[i]
  OBVIOUS
<1> HIDE DEF n, m, c
<1>2. 0 \in S
  <2>1. Count(c, n, x) = Count(s, n, x) /\ n + 0 = n
    BY <1>1, CountSame
  <2>2. Count(t, 0, x) = 0 /\ Count(s, n, x) \in Nat
    BY <1>1, CountGrows
  <2> QED
    BY <2>1, <2>2
<1>3. ASSUME NEW k \in S PROVE k + 1 \in S
  <2> SUFFICES ASSUME k + 1 =< m
               PROVE  Count(c, n + (k + 1), x) = Count(s, n, x) + Count(t, k + 1, x)
    OBVIOUS
  <2>1. Count(c, n + k, x) = Count(s, n, x) + Count(t, k, x) /\ k \in Nat
    BY <1>1
  <2>2. c[n + k + 1] = t[k + 1] /\ n + k \in Nat /\ n + (k + 1) = n + k + 1
    <3>1. k + 1 \in 1..m /\ n + (k + 1) = n + k + 1
      BY <1>1, <2>1
    <3> QED
      BY <1>1, <2>1, <3>1
  <2>3. Count(c, n + k + 1, x)
           = Count(c, n + k, x) + (IF t[k + 1] = x THEN 1 ELSE 0)
    <3> DEFINE e == n + k
    <3>1. e \in Nat /\ c[e + 1] = t[k + 1]
      BY <2>2
    <3> HIDE DEF e
    <3>2. Count(c, e + 1, x) = Count(c, e, x) + (IF c[e + 1] = x THEN 1 ELSE 0)
      BY <3>1, CountGrows
    <3>3. Count(c, e + 1, x) = Count(c, e, x) + (IF t[k + 1] = x THEN 1 ELSE 0)
      BY <3>1, <3>2
    <3> QED
      BY <3>3 DEF e
  <2>4. Count(t, k + 1, x) = Count(t, k, x) + (IF t[k + 1] = x THEN 1 ELSE 0)
    BY <2>1, CountGrows
  <2>5. Count(s, n, x) \in Nat /\ Count(t, k, x) \in Nat
    BY <1>1, <2>1, CountGrows
  <2> QED
    BY <2>1, <2>2, <2>3, <2>4, <2>5
<1>4. m \in S
  <2> HIDE DEF S
  <2>1. S \subseteq Nat
    BY DEF S
  <2> QED
    BY <1>1, <1>2, <1>3, <2>1, NaturalsByInduction
<1>5. Count(c, n + m, x) = Count(s, n, x) + Count(t, m, x)
  BY <1>1, <1>4
<1> QED
  BY <1>1, <1>5, OccurrencesAreCounts DEF n, m, c

\* Tokenize leaves short words and stop words out, and every other word as often as
\* it is there in some spelling.
LEMMA TokenCounts ==
    ASSUME NEW text \in Seq(Words)
    PROVE  /\ Tokenize(text) \in Seq(Words)
           /\ \A x : Occurrences(Tokenize(text), x) =
                       IF x \in Short \union StopWords THEN 0
                       ELSE Occurrences(Lowered(text), x)
<1> DEFINE s == Lowered(text)
           n == Len(s)
           Left(k, x) == IF x \in Short \union StopWords THEN 0 ELSE Count(s, k, x)
           Good(u, k) == \A x : Count(u, Len(u), x) = Left(k, x)
<1>t. s \in Seq(Words) /\ Len(text) = n
  BY LoweredWords
<1>0. n \in Nat /\ \A i \in 1..n : s[i] \in Words
  BY <1>t
<1>1. PICK F \in [0..n -> Seq(Words)] :
         /\ F[0] = <<>> /\ F[n] = Tokenize(text)
         /\ \A k \in 0..(n - 1) :
               F[k + 1] = IF s[k + 1] \in Short \union StopWords THEN F[k]
                          ELSE Append(F[k], s[k + 1])
  BY <1>t, TokenizeLoop
<1> DEFINE S == {k \in Nat : k =< n => Good(F[k], k)}
<1> HIDE DEF s, n, Left
<1>2. 0 \in S
  <2>1. Len(<<>>) = 0
    OBVIOUS
  <2>2. \A x : Count(<<>>, 0, x) = 0 /\ Left(0, x) = 0
    BY CountGrows DEF Left
  <2> QED
    BY <1>1, <2>1, <2>2
<1>3. ASSUME NEW k \in S PROVE k + 1 \in S
  <2> SUFFICES ASSUME k + 1 =< n, NEW x
               PROVE  Count(F[k + 1], Len(F[k + 1]), x) = Left(k + 1, x)
    OBVIOUS
  <2> DEFINE u == F[k]
             w == s[k + 1]
  <2>1. k \in 0..(n - 1) /\ k + 1 \in 1..n /\ k \in Nat /\ w \in Words
    BY <1>0
  <2>2. u \in Seq(Words) /\ Len(u) \in Nat
    BY <1>0, <1>1, <2>1
  <2>3. Count(u, Len(u), x) = Left(k, x)
    BY <1>0, <2>1
  <2>4. Count(s, k + 1, x) = Count(s, k, x) + (IF w = x THEN 1 ELSE 0) /\ Count(s, k, x) \in Nat
    BY <1>t, <2>1, CountGrows
  <2>5. CASE w \in Short \union StopWords
    <3>1. F[k + 1] = u
      BY <1>1, <2>1, <2>5
    <3>2. Left(k + 1, x) = Left(k, x)
      BY <2>4, <2>5 DEF Left
    <3> QED
      BY <2>3, <3>1, <3>2
  <2>6. CASE w \notin Short \union StopWords
    <3> DEFINE v == Append(u, w)
    <3>1. F[k + 1] = v
      BY <1>1, <2>1, <2>6
    <3>2. Len(v) = Len(u) + 1 /\ v[Len(u) + 1] = w /\ \A i \in 1..Len(u) : v[i] = u[i]
      BY <2>1, <2>2
    <3> HIDE DEF v, u, w
    <3>3. Count(v, Len(u) + 1, x) = Count(v, Len(u), x) + (IF w = x THEN 1 ELSE 0)
      BY <2>2, <3>2, CountGrows
    <3>4. Count(v, Len(u), x) = Count(u, Len(u), x)
      BY <2>2, <3>2, CountSame
    <3>5. Left(k + 1, x) = Left(k, x) + (IF w = x THEN 1 ELSE 0)
      BY <2>4, <2>6 DEF Left
    <3> QED
      BY <2>3, <3>1, <3>2, <3>3, <3>4, <3>5
  <2> QED
    BY <2>5, <2>6
<1>4. Good(F[n], n) /\ F[n] \in Seq(Words)
  <2>1. n \in S
    <3> HIDE DEF S
    <3>1. S \subseteq Nat
      BY DEF S
    <3> QED
      BY <1>0, <1>2, <1>3, <3>1, NaturalsByInduction
  <2> HIDE DEF Good
  <2> QED
    BY <1>0, <1>1, <2>1
<1> DEFINE r == Tokenize(text)
<1>5. Good(r, n) /\ r \in Seq(Words)
  BY <1>1, <1>4
<1> HIDE DEF r
<1>6. ASSUME NEW x
      PROVE  Occurrences(r, x) =
                IF x \in Short \union StopWords THEN 0 ELSE Occurrences(s, x)
  BY <1>t, <1>5, OccurrencesAreCounts DEF Left, n
<1> QED
  BY <1>5, <1>6 DEF r, s

-----------------------------------------------------------------------------
\* B is a strict order of all of W.
StrictOrder(B, W) ==
    /\ \A v \in W : <<v, v>> \notin B
    /\ \A u, v, w \in W : <<u, v>> \in B /\ <<v, w>> \in B => <<u, w>> \in B
    /\ \A v, w \in W : v = w \/ <<v, w>> \in B \/ <<w, v>> \in B

\* The words before w.
Below(B, W, w) == {v \in W : <<v, w>> \in B}

\* Every word has its own place in the order.
LEMMA Places ==
    ASSUME NEW W, IsFiniteSet(W), NEW B, StrictOrder(B, W)
    PROVE  \E p \in Bijection(W, 1..Cardinality(W)) :
              /\ \A w \in W : p[w] = 1 + Cardinality(Below(B, W, w))
              /\ \A v, w \in W : <<v, w>> \in B <=> p[v] < p[w]
<1> DEFINE N == Cardinality(W)
           p == [w \in W |-> 1 + Cardinality(Below(B, W, w))]
<1>1. N \in Nat
  BY FS_CardinalityType
<1>2. ASSUME NEW w \in W
      PROVE  IsFiniteSet(Below(B, W, w)) /\ Cardinality(Below(B, W, w)) \in Nat
  BY FS_Subset, FS_CardinalityType DEF Below
<1>3. ASSUME NEW w \in W PROVE p[w] \in 1..N
  <2>1. Below(B, W, w) \in SUBSET W /\ Below(B, W, w) /= W
    BY DEF Below, StrictOrder
  <2>2. Cardinality(Below(B, W, w)) =< N /\ Cardinality(Below(B, W, w)) /= N
    BY <2>1, FS_Subset
  <2> QED
    BY <1>1, <1>2, <2>2
<1>4. ASSUME NEW v \in W, NEW w \in W, <<v, w>> \in B PROVE p[v] < p[w]
  <2>1. Below(B, W, v) \in SUBSET Below(B, W, w) /\ Below(B, W, v) /= Below(B, W, w)
    BY <1>4 DEF Below, StrictOrder
  <2>2. /\ Cardinality(Below(B, W, v)) =< Cardinality(Below(B, W, w))
        /\ Cardinality(Below(B, W, v)) /= Cardinality(Below(B, W, w))
    BY <1>2, <2>1, FS_Subset
  <2> QED
    BY <1>2, <2>2
<1> HIDE DEF N
<1>5. \A v, w \in W : <<v, w>> \in B <=> p[v] < p[w]
  <2> HIDE DEF p
  <2> SUFFICES ASSUME NEW v \in W, NEW w \in W, p[v] < p[w] PROVE <<v, w>> \in B
    BY <1>4
  <2>1. p[v] \in Nat /\ p[w] \in Nat
    BY <1>1, <1>3
  <2>2. v /= w /\ <<w, v>> \notin B
    BY <1>4, <2>1
  <2> QED
    BY <2>2 DEF StrictOrder
<1>6. p \in Injection(W, 1..N)
  <2>1. p \in [W -> 1..N]
    BY <1>3
  <2>2. \A v, w \in W : p[v] = p[w] => v = w
    <3> HIDE DEF p
    <3> SUFFICES ASSUME NEW v \in W, NEW w \in W, p[v] = p[w] PROVE v = w
      OBVIOUS
    <3>1. p[v] \in Nat /\ ~(p[v] < p[w]) /\ ~(p[w] < p[v])
      BY <1>1, <1>3
    <3>2. <<v, w>> \notin B /\ <<w, v>> \notin B
      BY <1>4, <3>1
    <3> QED
      BY <3>2 DEF StrictOrder
  <2> QED
    BY <2>1, <2>2 DEF Injection, IsInjective
<1>7. p \in Surjection(W, 1..N)
  <2>1. IsFiniteSet(1..N) /\ Cardinality(1..N) = N
    BY <1>1, FS_Interval
  <2> HIDE DEF p
  <2> QED
    BY <1>6, <2>1, FS_Injection DEF N
<1>8. p \in Bijection(W, 1..N)
  BY <1>6, <1>7 DEF Bijection
<1> HIDE DEF p
<1>9. \A w \in W : p[w] = 1 + Cardinality(Below(B, W, w))
  BY DEF p
<1> QED
  BY <1>5, <1>8, <1>9 DEF N

\* A sequence of steps upwards within 1..N cannot leave a number out.
LEMMA UpwardsIsIdentity ==
    ASSUME NEW N \in Nat, NEW q \in [1..N -> 1..N], \A i, j \in 1..N : i < j => q[i] < q[j]
    PROVE  \A i \in 1..N : q[i] = i
<1> DEFINE Up == {k \in Nat : k + 1 =< N => q[k + 1] >= k + 1}
           Down == {k \in Nat : k < N => q[N - k] =< N - k}
<1>1. Up = Nat
  <2>1. 0 \in Up
    OBVIOUS
  <2>2. ASSUME NEW k \in Up PROVE k + 1 \in Up
    <3> SUFFICES ASSUME k + 1 + 1 =< N PROVE q[k + 1 + 1] >= k + 1 + 1
      OBVIOUS
    <3>1. k + 1 \in 1..N /\ k + 1 + 1 \in 1..N /\ k + 1 < k + 1 + 1 /\ q[k + 1] >= k + 1
      OBVIOUS
    <3>2. q[k + 1] < q[k + 1 + 1] /\ q[k + 1] \in Nat /\ q[k + 1 + 1] \in Nat
      BY <3>1
    <3> QED
      BY <3>1, <3>2
  <2>3. Up \subseteq Nat
    OBVIOUS
  <2> HIDE DEF Up
  <2> QED
    BY <2>1, <2>2, <2>3, NaturalsByInduction
<1>2. Down = Nat
  <2>1. 0 \in Down
    OBVIOUS
  <2>2. ASSUME NEW k \in Down PROVE k + 1 \in Down
    <3> SUFFICES ASSUME k + 1 < N PROVE q[N - (k + 1)] =< N - (k + 1)
      OBVIOUS
    <3>1. /\ N - k \in 1..N /\ N - (k + 1) \in 1..N /\ N - (k + 1) < N - k
          /\ q[N - k] =< N - k
      OBVIOUS
    <3>2. q[N - (k + 1)] < q[N - k] /\ q[N - k] \in Nat /\ q[N - (k + 1)] \in Nat
      BY <3>1
    <3> QED
      BY <3>1, <3>2
  <2>3. Down \subseteq Nat
    OBVIOUS
  <2> HIDE DEF Down
  <2> QED
    BY <2>1, <2>2, <2>3, NaturalsByInduction
<1>3. ASSUME NEW i \in 1..N PROVE q[i] = i
  <2>1. i - 1 \in Up /\ N - i \in Down
    <3> HIDE DEF Up, Down
    <3> QED
      BY <1>1, <1>2
  <2>2. (i - 1) + 1 = i /\ N - (N - i) = i /\ q[i] \in Nat
    OBVIOUS
  <2> QED
    BY <2>1, <2>2
<1> QED
  BY <1>3

\* r has the words of W in the order B.
Sorted(r, B, W) ==
    r \in [1..Cardinality(W) -> W] /\ \A i, j \in DOMAIN r : i < j => <<r[i], r[j]>> \in B

\* There is one sorted sequence of the words: each stands where its order puts it.
LEMMA SortingIsPlacing ==
    ASSUME NEW W, IsFiniteSet(W), NEW B, StrictOrder(B, W)
    PROVE  /\ \E r : Sorted(r, B, W)
           /\ \A r : Sorted(r, B, W) =>
                 \A w \in W : /\ 1 + Cardinality(Below(B, W, w)) \in 1..Cardinality(W)
                              /\ r[1 + Cardinality(Below(B, W, w))] = w
<1> DEFINE N == Cardinality(W)
<1>0. N \in Nat
  BY FS_CardinalityType
<1>1. PICK p \in Bijection(W, 1..N) :
         /\ \A w \in W : p[w] = 1 + Cardinality(Below(B, W, w))
         /\ \A v, w \in W : <<v, w>> \in B <=> p[v] < p[w]
  BY Places
<1> HIDE DEF N
<1>2. /\ p \in [W -> 1..N]
      /\ \A v, w \in W : p[v] = p[w] => v = w
      /\ \A i \in 1..N : \E w \in W : p[w] = i
  BY <1>1 DEF Bijection, Injection, Surjection, IsInjective
<1>3. \E r : Sorted(r, B, W)
  <2> DEFINE r == [i \in 1..N |-> CHOOSE w \in W : p[w] = i]
  <2>1. \A i \in 1..N : r[i] \in W /\ p[r[i]] = i
    BY <1>2
  <2>2. r \in [1..N -> W] /\ DOMAIN r = 1..N
    BY <2>1
  <2> HIDE DEF r
  <2>3. ASSUME NEW i \in 1..N, NEW j \in 1..N, i < j PROVE <<r[i], r[j]>> \in B
    BY <1>1, <2>1, <2>3
  <2>4. Sorted(r, B, W)
    BY <2>2, <2>3 DEF N, Sorted
  <2> QED
    BY <2>4
<1>4. ASSUME NEW r, Sorted(r, B, W), NEW w \in W PROVE p[w] \in 1..N /\ r[p[w]] = w
  <2>1. r \in [1..N -> W] /\ \A i, j \in 1..N : i < j => <<r[i], r[j]>> \in B
    BY <1>4 DEF N, Sorted
  <2> DEFINE q == [i \in 1..N |-> p[r[i]]]
  <2>2. q \in [1..N -> 1..N] /\ \A i \in 1..N : q[i] = p[r[i]]
    BY <1>2, <2>1
  <2> HIDE DEF q
  <2>3. ASSUME NEW i \in 1..N, NEW j \in 1..N, i < j PROVE q[i] < q[j]
    <3>1. r[i] \in W /\ r[j] \in W /\ <<r[i], r[j]>> \in B
      BY <2>1, <2>3
    <3>2. p[r[i]] < p[r[j]]
      BY <1>1, <3>1
    <3> QED
      BY <2>2, <3>2
  <2>4. \A i \in 1..N : q[i] = i
    BY <1>0, <2>2, <2>3, UpwardsIsIdentity
  <2>5. p[w] \in 1..N
    BY <1>2
  <2>6. p[r[p[w]]] = p[w] /\ r[p[w]] \in W
    BY <2>1, <2>2, <2>4, <2>5
  <2> QED
    BY <1>2, <2>5, <2>6
<1> QED
  BY <1>1, <1>3, <1>4 DEF N

-----------------------------------------------------------------------------
(* ExtractTopKeywords: the order by count and name is strict, so one sequence is   *)
(* sorted by it, and the count of better words is a word's place in it.            *)
\* The order of the words of a text.
ByCount(t) == {p \in ToSet(t) \X ToSet(t) : Before(t, p[1], p[2])}

\* It is a strict order, because words are numbers: no two compare the same.
LEMMA ByCountOrders ==
    ASSUME NEW t \in Seq(Words)
    PROVE  /\ StrictOrder(ByCount(t), ToSet(t))
           /\ \A v, w \in ToSet(t) : <<v, w>> \in ByCount(t) <=> Before(t, v, w)
<1> DEFINE W == ToSet(t)
           o(w) == Occurrences(t, w)
<1>1. \A w \in W : w \in Nat /\ o(w) \in Nat
  <2>1. W \subseteq Words
    BY DEF ToSet
  <2>2. W \subseteq Nat
    BY <2>1, RankingAssumption
  <2> HIDE DEF W
  <2> QED
    BY <2>2, OccurrencesAreCounts
<1>2. \A v, w \in W : <<v, w>> \in ByCount(t) <=> Before(t, v, w)
  BY DEF ByCount
<1>3. \A v, w : Before(t, v, w) <=> IF o(v) = o(w) THEN v < w ELSE o(v) > o(w)
  BY DEF Before
<1> HIDE DEF W, o
<1>4. StrictOrder(ByCount(t), W)
  <2>1. \A v \in W : <<v, v>> \notin ByCount(t)
    BY <1>1, <1>2, <1>3
  <2>2. ASSUME NEW u \in W, NEW v \in W, NEW w \in W,
               <<u, v>> \in ByCount(t), <<v, w>> \in ByCount(t)
        PROVE  <<u, w>> \in ByCount(t)
    <3>1. Before(t, u, v) /\ Before(t, v, w)
      BY <1>2, <2>2
    <3>2. Before(t, u, w)
      BY <1>1, <1>3, <3>1
    <3> QED
      BY <1>2, <3>2
  <2>3. ASSUME NEW v \in W, NEW w \in W
        PROVE  v = w \/ <<v, w>> \in ByCount(t) \/ <<w, v>> \in ByCount(t)
    <3>1. v = w \/ Before(t, v, w) \/ Before(t, w, v)
      BY <1>1, <1>3
    <3> QED
      BY <1>2, <3>1
  <2> QED
    BY <2>1, <2>2, <2>3 DEF StrictOrder
<1> QED
  BY <1>2, <1>4 DEF W

\* Where w stands among the words of t.
Place(t, w) == 1 + Cardinality(Below(ByCount(t), ToSet(t), w))

\* The slice pairs of ExtractTopKeywords, sorted.
Pairs(t) == CHOOSE r \in [1..Cardinality(ToSet(t)) -> ToSet(t)] :
                \A i, j \in DOMAIN r : i < j => Before(t, r[i], r[j])

\* pairs has every word of the text at its place.
LEMMA PairsAreSorted ==
    ASSUME NEW t \in Seq(Words)
    PROVE  /\ Cardinality(ToSet(t)) \in Nat
           /\ Pairs(t) \in [1..Cardinality(ToSet(t)) -> ToSet(t)]
           /\ \A w \in ToSet(t) :
                 Place(t, w) \in 1..Cardinality(ToSet(t)) /\ Pairs(t)[Place(t, w)] = w
           /\ \A i \in 1..Cardinality(ToSet(t)) : Place(t, Pairs(t)[i]) = i
<1> DEFINE W == ToSet(t)
           N == Cardinality(W)
           B == ByCount(t)
           Good(r) == \A i, j \in DOMAIN r : i < j => Before(t, r[i], r[j])
<1>1. IsFiniteSet(W)
  BY FewWords
<1>2. N \in Nat
  BY <1>1, FS_CardinalityType
<1>3. StrictOrder(B, W) /\ \A v, w \in W : <<v, w>> \in B <=> Before(t, v, w)
  BY ByCountOrders
<1>4. Pairs(t) = CHOOSE r \in [1..N -> W] : Good(r)
  BY DEF Pairs
<1>5. ASSUME NEW r PROVE r \in [1..N -> W] /\ Good(r) <=> Sorted(r, B, W)
  <2> HIDE DEF W, B
  <2>1. ASSUME r \in [1..N -> W], NEW i \in DOMAIN r, NEW j \in DOMAIN r
        PROVE  r[i] \in W /\ r[j] \in W
    BY <2>1
  <2>2. ASSUME r \in [1..N -> W]
        PROVE  Good(r) <=> \A i, j \in DOMAIN r : i < j => <<r[i], r[j]>> \in B
    BY <1>3, <2>1, <2>2
  <2> HIDE DEF Good
  <2> QED
    BY <2>2 DEF Sorted
<1> HIDE DEF W, B, Good
<1>6. (\E r : Sorted(r, B, W))
      /\ \A r : Sorted(r, B, W) =>
            \A w \in W : /\ 1 + Cardinality(Below(B, W, w)) \in 1..Cardinality(W)
                         /\ r[1 + Cardinality(Below(B, W, w))] = w
  BY <1>1, <1>3, SortingIsPlacing
<1>7. \E r \in [1..N -> W] : Good(r)
  BY <1>5, <1>6
<1>8. Pairs(t) \in [1..N -> W] /\ Good(Pairs(t))
  BY <1>4, <1>7
<1>9. Sorted(Pairs(t), B, W)
  BY <1>5, <1>8
<1>10. \A w \in W : Place(t, w) \in 1..N /\ Pairs(t)[Place(t, w)] = w
  BY <1>6, <1>9 DEF Place, W, B, N
<1>11. ASSUME NEW i \in 1..N PROVE Place(t, Pairs(t)[i]) = i
  <2> DEFINE r == Pairs(t)
             k == Place(t, r[i])
  <2>1. r[i] \in W /\ DOMAIN r = 1..N
    BY <1>8
  <2>2. k \in 1..N /\ r[k] = r[i]
    BY <1>10, <2>1
  <2> HIDE DEF r, k
  <2>3. ASSUME i < k \/ k < i PROVE FALSE
    <3>1. <<r[i], r[i]>> \in B
      BY <1>9, <2>1, <2>2, <2>3 DEF Sorted, r
    <3> QED
      BY <1>3, <2>1, <3>1 DEF StrictOrder
  <2>4. i = k
    BY <1>2, <2>2, <2>3
  <2> QED
    BY <2>4 DEF k, r
<1> QED
  BY <1>2, <1>8, <1>10, <1>11 DEF W, N

\* The text and the other one, in either order, have the same words as often.
LEMMA EitherOrder ==
    ASSUME NEW text \in Seq(Words), NEW other \in Seq(Words)
    PROVE  LET t == Tokenize(text \o other)
               u == Tokenize(other \o text)
           IN /\ t \in Seq(Words) /\ u \in Seq(Words)
              /\ \A x : Occurrences(t, x) = Occurrences(u, x)
              /\ ToSet(t) = ToSet(u)
<1> DEFINE t == Tokenize(text \o other)
           u == Tokenize(other \o text)
<1>1. text \o other \in Seq(Words) /\ other \o text \in Seq(Words)
  OBVIOUS
<1>2. t \in Seq(Words) /\ u \in Seq(Words)
  BY <1>1, TokenCounts
<1>3. ASSUME NEW x PROVE Occurrences(t, x) = Occurrences(u, x)
  <2> DEFINE a == Lowered(text)
             b == Lowered(other)
  <2>0. a \in Seq(Words) /\ b \in Seq(Words)
    BY LoweredWords
  <2>1. Occurrences(Lowered(text \o other), x) = Occurrences(Lowered(other \o text), x)
    <3>1. Lowered(text \o other) = a \o b /\ Lowered(other \o text) = b \o a
      BY LoweredConcat
    <3> HIDE DEF a, b
    <3>2. Occurrences(a, x) \in Nat /\ Occurrences(b, x) \in Nat
      BY <2>0, OccurrencesAreCounts
    <3>3. /\ Occurrences(a \o b, x) = Occurrences(a, x) + Occurrences(b, x)
          /\ Occurrences(b \o a, x) = Occurrences(b, x) + Occurrences(a, x)
      BY <2>0, OccurrencesAdd
    <3> QED
      BY <3>1, <3>2, <3>3
  <2> QED
    BY <1>1, <2>1, TokenCounts
<1> HIDE DEF t, u
<1>4. ASSUME NEW x PROVE x \in ToSet(t) <=> x \in ToSet(u)
  BY <1>2, <1>3, OccurrencesAreCounts
<1> QED
  BY <1>2, <1>3, <1>4 DEF t, u

\* Texts that have the same words as often have the same pairs.
LEMMA SamePairs ==
    ASSUME NEW t \in Seq(Words), NEW u \in Seq(Words),
           \A x : Occurrences(t, x) = Occurrences(u, x),
           ToSet(t) = ToSet(u)
    PROVE  Pairs(t) = Pairs(u)
<1> DEFINE N == Cardinality(ToSet(t))
<1>1. ByCount(t) = ByCount(u)
  BY DEF ByCount, Before
<1>2. \A w : Place(t, w) = Place(u, w)
  BY <1>1 DEF Place
<1>3. Pairs(t) \in [1..N -> ToSet(t)] /\ Pairs(u) \in [1..N -> ToSet(t)]
  BY PairsAreSorted
<1>4. ASSUME NEW i \in 1..N PROVE Pairs(t)[i] = Pairs(u)[i]
  <2>1. Place(t, Pairs(t)[i]) = i /\ Pairs(t)[i] \in ToSet(t)
    BY <1>3, PairsAreSorted
  <2> DEFINE w == Pairs(t)[i]
  <2>2. w \in ToSet(u) /\ Place(u, w) = i
    BY <1>2, <2>1
  <2> HIDE DEF w
  <2>3. Pairs(u)[Place(u, w)] = w
    BY <2>2, PairsAreSorted
  <2> QED
    BY <2>2, <2>3 DEF w
<1> DEFINE p == Pairs(t)
           q == Pairs(u)
<1>5. p \in [1..N -> ToSet(t)] /\ q \in [1..N -> ToSet(t)] /\ \A i \in 1..N : p[i] = q[i]
  BY <1>3, <1>4
<1> DEFINE D == 1..N
<1> HIDE DEF p, q, N
<1>6. p = q
  <2>1. p = [i \in D |-> p[i]] /\ q = [i \in D |-> q[i]] /\ \A i \in D : p[i] = q[i]
    BY <1>5
  <2> HIDE DEF D
  <2> QED
    BY <2>1
<1> QED
  BY <1>6 DEF p, q

\* The first of them: as many as asked for.
Wanted(n, N) == IF n > N \/ n =< 0 THEN N ELSE n

\* s has the first m of r.
FirstOf(s, r, m) == Len(s) = m /\ DOMAIN s = 1..m /\ \A i \in 1..m : s[i] = r[i]

LEMMA TopOf ==
    ASSUME NEW W, NEW N \in Nat, NEW r \in [1..N -> W], NEW n \in Int
    PROVE  FirstOf(Cut(r, n), r, Wanted(n, N))
<1> DEFINE m == Wanted(n, N)
<1>1. r \in Seq(W) /\ Len(r) = N
  OBVIOUS
<1>2. m \in 0..N
  BY DEF Wanted
<1>3. Cut(r, n) = SubSeq(r, 1, m)
  BY <1>1 DEF Cut, Wanted
<1> HIDE DEF m
<1>4. FirstOf(SubSeq(r, 1, m), r, m)
  BY <1>1, <1>2 DEF FirstOf
<1> QED
  BY <1>3, <1>4 DEF m

\* ExtractTopKeywords returns, for any text and any limit, the words that fewer than
\* that many other words beat by count and then by name, best first, and the order of
\* the text does not matter: what ranks them is a map and a sort over it.
THEOREM KeywordsAreTheBest ==
    ASSUME NEW text \in Seq(Words), NEW other \in Seq(Words)
    PROVE  TopKeywordsAreRight(text, other)
<1> DEFINE t == Tokenize(text \o other)
           u == Tokenize(other \o text)
           W == ToSet(t)
           N == Cardinality(W)
           Beats(v, w) == \/ Occurrences(t, v) > Occurrences(t, w)
                          \/ Occurrences(t, v) = Occurrences(t, w) /\ v < w
<1>1. /\ t \in Seq(Words) /\ u \in Seq(Words) /\ W = ToSet(u)
      /\ \A x : Occurrences(t, x) = Occurrences(u, x)
  BY EitherOrder
<1>2. \A limit : /\ ExtractTopKeywords(text \o other, limit) = Cut(Pairs(t), limit)
                 /\ ExtractTopKeywords(other \o text, limit) = Cut(Pairs(u), limit)
  BY DEF Pairs, ExtractTopKeywords
<1> HIDE DEF t, u
<1>3. Pairs(t) = Pairs(u)
  BY <1>1, SamePairs
<1>4. /\ N \in Nat /\ Pairs(t) \in [1..N -> W]
      /\ \A w \in W : Place(t, w) \in 1..N /\ Pairs(t)[Place(t, w)] = w
  BY <1>1, PairsAreSorted
<1>5. ASSUME NEW w \in W PROVE Place(t, w) = 1 + Cardinality({v \in W : Beats(v, w)})
  <2>1. \A v \in W : Occurrences(t, v) \in Nat
    BY <1>1, OccurrencesAreCounts
  <2>2. \A v \in W : <<v, w>> \in ByCount(t) <=> Before(t, v, w)
    BY <1>1, ByCountOrders
  <2>3. \A v \in W : Before(t, v, w) <=> Beats(v, w)
    <3> HIDE DEF W
    <3> QED
      BY <1>5, <2>1 DEF Before
  <2>4. Below(ByCount(t), W, w) = {v \in W : Beats(v, w)}
    BY <2>2, <2>3 DEF Below
  <2> QED
    BY <2>4 DEF Place
<1> HIDE DEF N, W, Beats
<1>6. ASSUME NEW n \in Int PROVE FirstOf(Cut(Pairs(t), n), Pairs(t), Wanted(n, N))
  BY <1>4, TopOf
<1>7. ASSUME NEW limit \in -1..MaxLen
      PROVE  LET r == Cut(Pairs(t), limit) IN
             /\ limit =< 0 => ToSet(r) = W
             /\ \A w \in W :
                   LET place == 1 + Cardinality({v \in W : Beats(v, w)})
                   IN IF place =< Len(r) THEN r[place] = w ELSE limit > 0 /\ place > limit
  <2> DEFINE r == Cut(Pairs(t), limit)
             m == Wanted(limit, N)
  <2>1. limit \in Int
    OBVIOUS
  <2>2. Len(r) = m /\ DOMAIN r = 1..m /\ \A i \in 1..m : r[i] = Pairs(t)[i]
    BY <1>6, <2>1 DEF FirstOf
  <2> HIDE DEF r
  <2>3. ASSUME limit =< 0 PROVE ToSet(r) = W
    <3>1. m = N /\ DOMAIN r = 1..N /\ \A i \in 1..N : r[i] \in W
      BY <1>4, <2>2, <2>3 DEF Wanted
    <3>2. ASSUME NEW w \in W PROVE \E i \in DOMAIN r : r[i] = w
      BY <1>4, <2>2, <3>1
    <3> QED
      BY <3>1, <3>2 DEF ToSet
  <2>4. ASSUME NEW w \in W
        PROVE  IF Place(t, w) =< Len(r) THEN r[Place(t, w)] = w
               ELSE limit > 0 /\ Place(t, w) > limit
    <3>1. Place(t, w) \in 1..N /\ Pairs(t)[Place(t, w)] = w
      BY <1>4
    <3> QED
      BY <1>4, <2>1, <2>2, <3>1 DEF Wanted
  <2> QED
    BY <1>5, <2>3, <2>4 DEF r
<1> QED
  BY <1>2, <1>3, <1>7 DEF t, W, Beats, TopKeywordsAreRight

-----------------------------------------------------------------------------
\* Tokenize, ExtractTopKeywords, Unique, the similarity, the normalised scores and the
\* pages agree with their reference definitions on every input, of any size.
THEOREM FunctionsMatchReferences == FunctionsAreRight
<1>1. ASSUME input \in PageWalks PROVE PagesCoverAll(input.rows, input.wanted, input.orders)
  <2>1. /\ input.rows \in Nat /\ input.wanted \in Int
        /\ input.orders \in [1..input.rows -> Bijection(1..input.rows, 1..input.rows)]
    BY <1>1, RankingAssumption DEF PageWalks
  <2> QED
    BY <2>1, PagesCoverEverything
<1>2. ASSUME input \in Scores PROVE NormalizedKeepsOrder(input.scores)
  <2>1. input.scores \in [Docs -> Nat] /\ IsFiniteSet(Docs)
    BY <1>2, RankingAssumption DEF Scores
  <2> QED
    BY <2>1, NormalizingKeepsOrder
<1>3. ASSUME input \in TwoTexts
      PROVE  /\ UniqueIsRight(input.text)
             /\ TopKeywordsAreRight(input.text, input.other)
             /\ SimilarityIsRight(input.text, input.other)
  <2>1. \A s \in Texts : s \in Seq(Words)
    BY RankingAssumption DEF Texts, SeqOf
  <2>2. input.text \in Seq(Words) /\ input.other \in Seq(Words)
    BY <1>3, <2>1 DEF TwoTexts
  <2> QED
    BY <2>2, UniqueKeepsFirst, KeywordsAreTheBest, SimilarityIsJaccard
<1> QED
  BY <1>1, <1>2, <1>3 DEF FunctionsAreRight

=============================================================================
