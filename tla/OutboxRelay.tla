----------------------------- MODULE OutboxRelay -----------------------------
(* The transactional outbox of src/shared/outbox/outbox.go and the relay     *)
(* processes that drain it (src/services/outbox-relay/main.go).              *)
(*                                                                           *)
(* A service inserts a row; a relay polls, in one database transaction, the  *)
(* oldest retriable rows that no other relay has locked, dispatches them one *)
(* by one to Kafka and, when it mirrors, to RabbitMQ, writes each outcome    *)
(* inside the transaction and commits at the end of the batch.  Every remote *)
(* call is a step of its own: between two of them the process may crash, the *)
(* database may drop the transaction, another relay may poll.                *)
EXTENDS Events, Integers, FiniteSets

CONSTANTS
    Ids,          \* the outbox rows that may ever be inserted
    Relays,       \* the relay processes
    EventType,    \* EventType[id]: the event_type column of row id
    BatchSize,    \* OUTBOX_BATCH_SIZE
    MaxRetries,   \* OUTBOX_MAX_RETRIES
    WriterAttempts, \* kafka.Writer.MaxAttempts: unset, so the library's default
    Mirror,       \* the relays that run with MIRROR_RABBITMQ_EVENTS
    MaxTime,      \* bound: the created_at values are 1..MaxTime
    MaxFaults     \* bound: crashes and lost transactions of a behaviour

ASSUME OutboxAssumption ==
    /\ EventType \in [Ids -> OutboxEventTypes]
    /\ BatchSize \in Nat \ {0}
    /\ MaxRetries \in Nat \ {0}
    /\ WriterAttempts \in Nat \ {0}
    /\ Mirror \subseteq Relays
    /\ MaxTime \in Nat \ {0}
    /\ MaxFaults \in Nat
    /\ IsFiniteSet(Ids)

NoRow == "no_row"     \* cur[r] when relay r is between two records
ASSUME NoRowAssumption == NoRow \notin Ids

VARIABLES
    \* the table
    status,       \* status[id]: "absent" or the committed status column
    retryCount,   \* retryCount[id]: the committed retry_count column
    createdAt,    \* createdAt[id]: the created_at column, 0 when absent
    \* the brokers
    kafka,        \* kafka[id]: the copies of row id in its topic
    rabbit,       \* the rows of which a queue got a copy
    dlq,          \* the rows of which the dead-letter topic has a copy
    \* the relays
    tx,           \* "idle", "open", or "lost": dropped by the server, the
                  \* relay has not noticed yet
    batch,        \* batch[r]: the rows returned by SELECT ... FOR UPDATE
    todo,         \* todo[r]: the rows of the batch the loop has not reached
    cur,          \* cur[r]: the row the loop is at
    stage,        \* what the loop body does next with cur[r]
    dispatchErr,  \* dispatchErr[r]: did dispatch(cur[r]) return an error
    read,         \* read[r][id]: record.RetryCount as the SELECT returned it
    draft,        \* draft[r][id]: the status UPDATEd but not yet committed
    amqp,         \* amqp[r]: is the one AMQP connection of relay r alive
    faults        \* crashes and lost transactions so far

table   == <<status, retryCount, createdAt>>
brokers == <<kafka, rabbit, dlq>>
loop    == <<batch, todo, cur, stage, dispatchErr, read, draft>>
vars    == <<table, brokers, tx, loop, amqp, faults>>

-----------------------------------------------------------------------------
HasTopic(id) == TopicForEventType(EventType[id]) /= ""

\* Rows another session's FOR UPDATE cannot return: those of open transactions.
Locked == UNION {batch[r] : r \in {q \in Relays : tx[q] = "open"}}

\* Mutants of Claimable: the SELECT without FOR UPDATE SKIP LOCKED, and with
\* status = 'pending' alone.
ClaimableUnlocked    == {id \in Ids : status[id] \in Retriable}
ClaimablePendingOnly == {id \in Ids \ Locked : status[id] = "pending"}

\* WHERE status IN ('pending','failed') ... FOR UPDATE SKIP LOCKED
Claimable == {id \in Ids \ Locked : status[id] \in Retriable}

\* ORDER BY created_at ... LIMIT n: ties may fall either way.
Selection(S) ==
    {B \in SUBSET S :
        /\ Cardinality(B) =< BatchSize
        /\ Cardinality(B) < BatchSize => B = S
        /\ \A b \in B, o \in S \ B : createdAt[b] =< createdAt[o]}

Oldest(S) == {id \in S : \A o \in S : createdAt[id] =< createdAt[o]}

\* Mutant of FirstStage: the mirror before, and instead of, the topic.
FirstStageMirror(r, id) == IF r \in Mirror THEN "rabbit"
                           ELSE IF HasTopic(id) THEN "kafka" ELSE "unsupported"

\* The first remote call of dispatch for a row: Kafka when its type has a
\* topic, else the mirror; with neither, dispatch fails at once.
FirstStage(r, id) == CASE HasTopic(id)                   -> "kafka"
                       [] ~HasTopic(id) /\ r \in Mirror -> "rabbit"
                       [] OTHER                          -> "unsupported"

\* Mutants of LastAttempt: off by one in either direction.
LastAttemptLate(r)  == read[r][cur[r]] + 1 > MaxRetries
LastAttemptEarly(r) == read[r][cur[r]] + 2 >= MaxRetries

\* nextRetry >= r.maxRetries
LastAttempt(r) == read[r][cur[r]] + 1 >= MaxRetries

-----------------------------------------------------------------------------
Init ==
    /\ status      = [id \in Ids |-> "absent"]
    /\ retryCount  = [id \in Ids |-> 0]
    /\ createdAt   = [id \in Ids |-> 0]
    /\ kafka       = [id \in Ids |-> 0]
    /\ rabbit      = {}
    /\ dlq         = {}
    /\ tx          = [r \in Relays |-> "idle"]
    /\ batch       = [r \in Relays |-> {}]
    /\ todo        = [r \in Relays |-> {}]
    /\ cur         = [r \in Relays |-> NoRow]
    /\ stage       = [r \in Relays |-> "next"]
    /\ dispatchErr = [r \in Relays |-> FALSE]
    /\ read        = [r \in Relays |-> [id \in Ids |-> 0]]
    /\ draft       = [r \in Relays |-> [id \in Ids |-> "none"]]
    /\ amqp        = [r \in Relays |-> TRUE]
    /\ faults      = 0

\* InsertWithTrace: one autocommitted INSERT.  created_at is the start of the
\* statement, so rows may become visible out of its order.
Insert(id) ==
    /\ status[id] = "absent"
    /\ status' = [status EXCEPT ![id] = "pending"]
    /\ \E t \in 1..MaxTime : createdAt' = [createdAt EXCEPT ![id] = t]
    /\ UNCHANGED <<retryCount, brokers, tx, loop, amqp, faults>>

\* RunOnce up to the end of the row scan: Begin, then the locking SELECT.  An
\* empty selection falls through to the commit.
Poll(r) ==
    /\ tx[r] = "idle"
    /\ tx' = [tx EXCEPT ![r] = "open"]
    /\ \E B \in Selection(Claimable) :
          /\ batch' = [batch EXCEPT ![r] = B]
          /\ todo'  = [todo EXCEPT ![r] = B]
          /\ read'  = [read EXCEPT ![r] =
                         [id \in Ids |-> IF id \in B THEN retryCount[id] ELSE 0]]
    /\ UNCHANGED <<table, brokers, cur, stage, dispatchErr, draft, amqp, faults>>

\* The head of "for _, record := range records".
NextRecord(r) ==
    /\ tx[r] /= "idle"
    /\ stage[r] = "next"
    /\ \E id \in Oldest(todo[r]) :
          /\ cur'   = [cur EXCEPT ![r] = id]
          /\ todo'  = [todo EXCEPT ![r] = @ \ {id}]
          /\ stage' = [stage EXCEPT ![r] = FirstStage(r, id)]
    /\ UNCHANGED <<table, brokers, tx, batch, dispatchErr, read, draft, amqp, faults>>

\* What follows dispatch: the DLQ copy on the last failed attempt, else the
\* UPDATE.
AfterDispatch(r, failed) ==
    /\ dispatchErr' = [dispatchErr EXCEPT ![r] = failed]
    /\ stage' = [stage EXCEPT ![r] =
                    IF failed /\ LastAttempt(r) THEN "dlq" ELSE "update"]

\* dispatch: an event type without topic and no mirror.
Unsupported(r) ==
    /\ stage[r] = "unsupported"
    /\ AfterDispatch(r, TRUE)
    /\ UNCHANGED <<table, brokers, tx, batch, todo, cur, read, draft, amqp, faults>>

\* dispatch: kafka.PublishRaw with RequiredAcks = all.  The Writer produces the
\* message again when an acknowledgement is missing, up to WriterAttempts times
\* and without idempotence, and every attempt may have been appended.  It
\* returns nil only when the broker has the message; an error may still leave
\* copies behind.
PublishKafka(r) ==
    /\ stage[r] = "kafka"
    /\ \/ /\ \E n \in 1..WriterAttempts :
                kafka' = [kafka EXCEPT ![cur[r]] = @ + n]
          /\ IF r \in Mirror
             THEN /\ stage' = [stage EXCEPT ![r] = "rabbit"]
                  /\ UNCHANGED dispatchErr
             ELSE AfterDispatch(r, FALSE)
       \/ /\ \E n \in 0..WriterAttempts :
                kafka' = [kafka EXCEPT ![cur[r]] = @ + n]
          /\ AfterDispatch(r, TRUE)
    /\ UNCHANGED <<table, rabbit, dlq, tx, batch, todo, cur, read, draft, amqp, faults>>

\* dispatch: rabbit.Publish on the connection opened at start-up, which is
\* never reopened.  There is no publisher confirm and mandatory is false, so
\* nil does not mean that a queue has the message.
PublishRabbit(r) ==
    /\ stage[r] = "rabbit"
    /\ \/ /\ amqp[r]
          /\ rabbit' \in {rabbit, rabbit \union {cur[r]}}
          /\ AfterDispatch(r, FALSE)
       \/ /\ UNCHANGED rabbit
          /\ AfterDispatch(r, TRUE)
    /\ UNCHANGED <<table, kafka, dlq, tx, batch, todo, cur, read, draft, amqp, faults>>

\* publishDLQ, with the same Writer: its error only changes the text stored in
\* last_error.
PublishDLQ(r) ==
    /\ stage[r] = "dlq"
    /\ dlq' \in {dlq, dlq \union {cur[r]}}
    /\ stage' = [stage EXCEPT ![r] = "update"]
    /\ UNCHANGED <<table, kafka, rabbit, tx, batch, todo, cur, dispatchErr, read,
                   draft, amqp, faults>>

\* Mutant of Outcome: an error that is not the last one is taken for success.
OutcomeLenient(r) ==
    IF dispatchErr[r] /\ LastAttempt(r) THEN "dead_letter" ELSE "published"

\* tx.Exec(UPDATE outbox ...) inside the transaction.
Outcome(r) == CASE ~dispatchErr[r]  -> "published"
                [] LastAttempt(r)   -> "dead_letter"
                [] OTHER            -> "failed"

Update(r) ==
    /\ stage[r] = "update"
    /\ tx[r] = "open"
    /\ draft' = [draft EXCEPT ![r][cur[r]] = Outcome(r)]
    /\ cur'   = [cur EXCEPT ![r] = NoRow]
    /\ stage' = [stage EXCEPT ![r] = "next"]
    /\ dispatchErr' = [dispatchErr EXCEPT ![r] = FALSE]
    /\ UNCHANGED <<table, brokers, tx, batch, todo, read, amqp, faults>>

\* RunOnce has returned, by commit, rollback or death: nothing of it is left.
Forget(r) ==
    /\ tx'          = [tx EXCEPT ![r] = "idle"]
    /\ batch'       = [batch EXCEPT ![r] = {}]
    /\ todo'        = [todo EXCEPT ![r] = {}]
    /\ cur'         = [cur EXCEPT ![r] = NoRow]
    /\ stage'       = [stage EXCEPT ![r] = "next"]
    /\ dispatchErr' = [dispatchErr EXCEPT ![r] = FALSE]
    /\ read'        = [read EXCEPT ![r] = [id \in Ids |-> 0]]
    /\ draft'       = [draft EXCEPT ![r] = [id \in Ids |-> "none"]]

\* tx.Commit after the last record.  A commit whose answer is lost has the
\* same effect: the error is only logged.
Commit(r) ==
    /\ tx[r] = "open"
    /\ stage[r] = "next"
    /\ todo[r] = {}
    /\ status' = [id \in Ids |->
                     IF draft[r][id] = "none" THEN status[id] ELSE draft[r][id]]
    /\ retryCount' = [id \in Ids |->
                         IF draft[r][id] \in {"failed", "dead_letter"}
                         THEN read[r][id] + 1 ELSE retryCount[id]]
    /\ Forget(r)
    /\ UNCHANGED <<createdAt, brokers, amqp, faults>>

\* The next statement on a lost transaction fails: RunOnce returns its error,
\* the deferred Rollback has nothing left to undo.
RollBack(r) ==
    /\ tx[r] = "lost"
    /\ \/ stage[r] = "update"
       \/ stage[r] = "next" /\ todo[r] = {}
    /\ Forget(r)
    /\ UNCHANGED <<table, brokers, amqp, faults>>

\* The server aborts the transaction (its backend dies, the connection breaks):
\* the row locks are gone at once, the relay dispatches on until its next
\* statement.
LoseTransaction(r) ==
    /\ tx[r] = "open"
    /\ faults < MaxFaults
    /\ faults' = faults + 1
    /\ tx' = [tx EXCEPT ![r] = "lost"]
    /\ UNCHANGED <<table, brokers, loop, amqp>>

\* The process dies and its container restarts (restart: unless-stopped): the
\* database rolls back, main dials RabbitMQ again.
Crash(r) ==
    /\ faults < MaxFaults
    /\ faults' = faults + 1
    /\ Forget(r)
    /\ amqp' = [amqp EXCEPT ![r] = TRUE]
    /\ UNCHANGED <<table, brokers>>

\* The AMQP connection closes; queue.Client has no reconnect.
LoseAmqp(r) ==
    /\ amqp[r]
    /\ amqp' = [amqp EXCEPT ![r] = FALSE]
    /\ UNCHANGED <<table, brokers, tx, loop, faults>>

-----------------------------------------------------------------------------
RelayStep(r) ==
    \/ Poll(r) \/ NextRecord(r) \/ Unsupported(r)
    \/ PublishKafka(r) \/ PublishRabbit(r) \/ PublishDLQ(r)
    \/ Update(r) \/ Commit(r) \/ RollBack(r)

Fault(r) == LoseTransaction(r) \/ Crash(r) \/ LoseAmqp(r)

Next ==
    \/ \E id \in Ids : Insert(id)
    \/ \E r \in Relays : RelayStep(r) \/ Fault(r)

\* The relay's ticker fires for ever and every remote call returns.
Fairness == \A r \in Relays : WF_vars(RelayStep(r))

Spec == Init /\ [][Next]_vars /\ Fairness
-----------------------------------------------------------------------------
(* Properties.                                                               *)

\* Every variable has its type; a status is one of the outbox's.
TypeOK ==
    /\ status \in [Ids -> {"absent"} \union Retriable \union Settled]
    /\ retryCount \in [Ids -> 0..MaxRetries]
    /\ createdAt \in [Ids -> 0..MaxTime]
    /\ kafka \in [Ids -> Nat] /\ rabbit \subseteq Ids /\ dlq \subseteq Ids
    /\ tx \in [Relays -> {"idle", "open", "lost"}]
    /\ batch \in [Relays -> SUBSET Ids]
    /\ todo \in [Relays -> SUBSET Ids]
    /\ cur \in [Relays -> Ids \union {NoRow}]
    /\ stage \in [Relays -> {"next", "kafka", "rabbit", "unsupported", "dlq", "update"}]
    /\ dispatchErr \in [Relays -> BOOLEAN]
    /\ read \in [Relays -> [Ids -> 0..MaxRetries]]
    /\ draft \in [Relays -> [Ids -> {"none", "failed"} \union Settled]]
    /\ amqp \in [Relays -> BOOLEAN]
    /\ faults \in 0..MaxFaults

\* A row marked published has a copy in its Kafka topic, whatever crashed,
\* lost its transaction or retried in between (the UPDATE follows dispatch, and
\* RequiredAcks is all).  It does not hold for the RabbitMQ mirror.
PublishedReachedTopic ==
    \A id \in Ids : status[id] = "published" /\ HasTopic(id) => kafka[id] > 0

\* retry_count and status, written by two UPDATE statements of concurrent
\* relays from a count read earlier, always agree: a row is dead_letter exactly
\* when its budget is spent, failed only while some of it is left, and pending
\* only before the first failure.
RetryBudget ==
    \A id \in Ids :
        /\ status[id] = "dead_letter" <=> retryCount[id] = MaxRetries
        /\ status[id] = "failed" => retryCount[id] > 0
        /\ status[id] \in {"absent", "pending"} => retryCount[id] = 0

\* No two live transactions hold the same row (SKIP LOCKED): a row is
\* dispatched by one relay at a time unless a transaction was lost.
ExclusiveClaim ==
    \A r, q \in Relays :
        r /= q /\ tx[r] = "open" /\ tx[q] = "open" => batch[r] \intersect batch[q] = {}

\* Every copy in the topic is paid for: a row nobody is working on was handed to
\* the Writer at most once per failed attempt, once for its success and once per
\* crash or lost transaction, and each time the Writer appended it at most
\* WriterAttempts times.  Duplicates have no other source (whole-batch rollbacks
\* included).
DuplicatesAccounted ==
    \A id \in Ids :
        (\A r \in Relays : id \notin batch[r]) =>
            kafka[id] =< WriterAttempts *
                           (retryCount[id] + faults
                              + (IF status[id] = "published" THEN 1 ELSE 0))

\* The dead-letter topic never holds a row that still has attempts left beyond
\* the current one (publishDLQ is guarded by nextRetry >= maxRetries with a
\* retry_count read before the dispatches).
DeadLetterOnlyAtTheEnd ==
    \A id \in dlq : retryCount[id] + 1 >= MaxRetries

\* A settled row is never changed again, even by a relay whose transaction was
\* lost while another relay settled the row.
SettledIsFinal ==
    [][\A id \in Ids : status[id] \in Settled =>
          /\ status'[id] = status[id]
          /\ retryCount'[id] = retryCount[id]]_vars

\* A row's retry_count moves by single steps and only forward: a relay that
\* commits a count read long ago neither takes back another relay's attempt nor
\* counts one twice.
RetryCountsOneByOne ==
    [][\A id \in Ids : retryCount'[id] \in {retryCount[id], retryCount[id] + 1}]_vars

\* Every inserted row is settled, although brokers may fail for ever and AMQP
\* connections never come back, provided crashes and lost transactions end.
EveryRowSettles ==
    \A id \in Ids : status[id] = "pending" ~> status[id] \in Settled

-----------------------------------------------------------------------------
(* The refinement of OutboxContract.                                         *)
Promise(s) == CASE s \in Retriable   -> "accepted"
                [] s = "published"   -> "delivered"
                [] s = "dead_letter" -> "given_up"
                [] OTHER             -> "absent"

Contract == INSTANCE OutboxContract WITH
    Streamed <- {id \in Ids : HasTopic(id)},
    state    <- [id \in Ids |-> Promise(status[id])],
    handed   <- {id \in Ids : kafka[id] > 0}

\* The relays keep the contract: every step is a contract step or invisible.
KeepsContract == Contract!Safety
=============================================================================
