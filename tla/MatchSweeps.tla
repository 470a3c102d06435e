------------------------------ MODULE MatchSweeps ------------------------------
(* The matching runs of one job-matcher process and the connections they share: *)
(* matchAllResumes keeps the connection of its resume list while matchResume    *)
(* asks the same pool for another one for each resume.  Runs started over HTTP   *)
(* by scheduler are not serialised but end when its httpClient gives up; runs    *)
(* started by events hold app.mu and never give up.                              *)
EXTENDS Integers, FiniteSets

CONSTANTS
    Resumes,    \* rows with parsed keywords
    Triggers,   \* requests of scheduler: CRON_MATCH, the startup run, an operator's
    Listeners,  \* goroutines with events: the RabbitMQ loop and the Kafka loops
    None,       \* app.mu is free
    MaxConns,   \* of the pool
    MaxSweeps   \* bound: runs each of them starts

ASSUME SweepAssumption ==
    /\ MaxConns \in Nat /\ MaxConns >= 2    \* the code has 20
    /\ MaxSweeps \in Nat
    /\ Triggers \intersect Listeners = {}
    /\ None \notin Triggers \union Listeners
    /\ IsFiniteSet(Triggers) /\ IsFiniteSet(Listeners)

Runners == Triggers \union Listeners

VARIABLES
    pc,      \* where the run is
    held,    \* connections it has
    todo,    \* resumes of its list it has not come to
    holder,  \* of app.mu
    tried,   \* history: resumes this run has tried
    missed,  \* history: a run reported success without trying them all
    sweeps   \* runs started

sweepVars == <<pc, held, todo, holder, tried, missed, sweeps>>

GoTo(r, to) == pc' = [pc EXCEPT ![r] = to]

\* The connections the runs hold, each run's numbered from 1.
Out   == {c \in Runners \X (1..MaxConns) : c[2] <= held[c[1]]}
InUse == Cardinality(Out)
Free  == MaxConns - InUse

-----------------------------------------------------------------------------
SweepInit ==
    /\ pc = [r \in Runners |-> "idle"] /\ held = [r \in Runners |-> 0]
    /\ todo = [r \in Runners |-> {}] /\ holder = None
    /\ tried = [r \in Runners |-> {}] /\ missed = FALSE
    /\ sweeps = [r \in Runners |-> 0]

Start(r, to) ==
    /\ pc[r] = "idle" /\ GoTo(r, to)
    /\ sweeps[r] < MaxSweeps /\ sweeps' = [sweeps EXCEPT ![r] = @ + 1]
    /\ tried' = [tried EXCEPT ![r] = {}]

\* postInternal of scheduler, handleMatchAll.
Trigger(r) == Start(r, "list") /\ UNCHANGED <<held, todo, holder, missed>>

\* An event arrives at handleRabbitEvent or handleKafkaEvent.
Deliver(h) == Start(h, "lock") /\ UNCHANGED <<held, todo, holder, missed>>

\* Mutant of TakeMutex: the two loops do not exclude each other.
TakeMutexAnyway(h) ==
    /\ pc[h] = "lock" /\ holder' = h
    /\ \E to \in {"list", "statement"} : GoTo(h, to)
    /\ todo' = [todo EXCEPT ![h] = {}]
    /\ UNCHANGED <<held, tried, missed, sweeps>>

\* a.mu.Lock(); job_indexed leads to a sweep, resume_parsed to one resume.
TakeMutex(h) ==
    /\ pc[h] = "lock" /\ holder = None /\ holder' = h
    /\ \E to \in {"list", "statement"} : GoTo(h, to)
    /\ todo' = [todo EXCEPT ![h] = {}]
    /\ UNCHANGED <<held, tried, missed, sweeps>>

\* SELECT id FROM resumes: the connection stays out until rows.Close.
List(r) ==
    /\ pc[r] = "list" /\ Free > 0 /\ GoTo(r, "next")
    /\ held' = [held EXCEPT ![r] = 1]
    /\ todo' = [todo EXCEPT ![r] = Resumes]
    /\ UNCHANGED <<holder, tried, missed, sweeps>>

\* rows.Next: another resume.
NextRow(r) ==
    /\ pc[r] = "next" /\ GoTo(r, "statement")
    /\ \E x \in todo[r] : /\ todo' = [todo EXCEPT ![r] = @ \ {x}]
                          /\ tried' = [tried EXCEPT ![r] = @ \union {x}]
    /\ UNCHANGED <<held, holder, missed, sweeps>>

\* The statements of matchResume: one stands for all, each waits for a connection
\* and gives it back.
Acquire(r) ==
    /\ pc[r] = "statement" /\ Free > 0 /\ GoTo(r, "execute")
    /\ held' = [held EXCEPT ![r] = @ + 1]
    /\ UNCHANGED <<todo, holder, tried, missed, sweeps>>

\* After a sweep's resume, with or without an error, comes the next row; a run for
\* one resume holds no list.
Release(r) ==
    /\ pc[r] = "execute"
    /\ held' = [held EXCEPT ![r] = @ - 1]
    /\ GoTo(r, IF held[r] = 2 THEN "next" ELSE "end")
    /\ UNCHANGED <<todo, holder, tried, missed, sweeps>>

\* rows.Next returns false.
EndOfRows(r) ==
    /\ pc[r] = "next" /\ todo[r] = {} /\ GoTo(r, "end")
    /\ missed' = (missed \/ tried[r] /= Resumes)
    /\ UNCHANGED <<held, todo, holder, tried, sweeps>>

\* Mutant of EndSweep: only the mutex is released.
EndKeepsRows(r) ==
    /\ pc[r] = "end" /\ GoTo(r, "idle")
    /\ holder' = (IF holder = r THEN None ELSE holder)
    /\ UNCHANGED <<held, todo, tried, missed, sweeps>>

\* The deferred rows.Close and mu.Unlock.
EndSweep(r) ==
    /\ pc[r] = "end" /\ GoTo(r, "idle")
    /\ held' = [held EXCEPT ![r] = 0]
    /\ holder' = (IF holder = r THEN None ELSE holder)
    /\ UNCHANGED <<todo, tried, missed, sweeps>>

\* Mutant of Cancel: the runs over HTTP use context.Background(), too.
CancelNothing(r) == pc[r] \in {"list", "next", "statement", "execute"} /\ UNCHANGED sweepVars

\* INTERNAL_HTTP_TIMEOUT: scheduler hangs up, r.Context() is cancelled, what waits for
\* a connection or a statement returns, and rows.Err makes the run an error.
Cancel(r) ==
    /\ pc[r] \in {"list", "next", "statement", "execute"} /\ GoTo(r, "end")
    /\ UNCHANGED <<held, todo, holder, tried, missed, sweeps>>

\* Nobody has anything to do.
Resting ==
    /\ \A r \in Runners : pc[r] = "idle" /\ sweeps[r] = MaxSweeps
    /\ UNCHANGED sweepVars

Work(r) == List(r) \/ NextRow(r) \/ Acquire(r) \/ Release(r) \/ EndOfRows(r) \/ EndSweep(r)

SweepNext ==
    \/ \E r \in Triggers : Trigger(r) \/ Cancel(r)
    \/ \E h \in Listeners : Deliver(h) \/ TakeMutex(h)
    \/ \E r \in Runners : Work(r)
    \/ Resting

\* The pool and the mutex serve waiters in the order they came, statements end, and
\* the client of a run over HTTP gives up.
SweepFairness ==
    /\ \A h \in Listeners : SF_sweepVars(TakeMutex(h))
    /\ \A r \in Runners : SF_sweepVars(Work(r))
    /\ \A r \in Triggers : WF_sweepVars(Cancel(r))

SweepSpec == SweepInit /\ [][SweepNext]_sweepVars /\ SweepFairness

-----------------------------------------------------------------------------
(* Types, invariants and liveness *)

\* Every variable keeps its type, and the pool is never overdrawn.
SweepTypeOK ==
    /\ pc \in [Runners -> {"idle", "lock", "list", "next", "statement", "execute", "end"}]
    /\ held \in [Runners -> 0..2] /\ todo \in [Runners -> SUBSET Resumes]
    /\ holder \in Listeners \union {None}
    /\ tried \in [Runners -> SUBSET Resumes] /\ missed \in BOOLEAN
    /\ sweeps \in [Runners -> 0..MaxSweeps]
    /\ InUse <= MaxConns

\* A run that is over, or has not got its first connection, has none, whichever way
\* it ended: nothing leaks connections or the mutex.
NothingLeaks ==
    /\ \A r \in Runners : pc[r] \in {"idle", "lock", "list"} => held[r] = 0
    /\ holder /= None => pc[holder] \notin {"idle", "lock"}

\* A sweep that reports success has tried every resume of its list.
SuccessTriedAll == ~missed

\* What holds of the pool, the mutex and the answers at every moment.
SweepInv == SweepTypeOK /\ NothingLeaks /\ SuccessTriedAll

\* A waiting run, which keeps what it has.
Starved(r) == held[r] > 0 /\ pc[r] = "statement"

\* When the whole pool is held by runs that wait for another connection, one of them
\* is over HTTP and will be cancelled: event runs alone cannot fill the pool.
StandstillIsTransient ==
    (Free = 0 /\ \A r \in Runners : held[r] > 0 => Starved(r))
        => \E r \in Triggers : Starved(r)

\* Liveness: every event run ends, however many HTTP runs fill the pool.
EventRunsEnd == \A h \in Listeners : pc[h] = "lock" ~> pc[h] = "idle"
=============================================================================
