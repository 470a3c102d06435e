-------------------------- MODULE OutboxRelayProofs --------------------------
(* Proofs about OutboxRelay, for any rows, relays, batch size and retry       *)
(* budget.                                                                   *)
EXTENDS OutboxRelay, FiniteSetTheorems, TLAPS

-----------------------------------------------------------------------------
(* The inductive invariant.  RetryBudget and PublishedReachedTopic say nothing *)
(* of a batch in progress; these do.                                           *)

\* A relay outside RunOnce keeps nothing of the last run.
IdleIsEmpty(r) ==
    tx[r] = "idle" => /\ batch[r] = {}
                      /\ cur[r] = NoRow

\* The current record and the records still to come are distinct rows of the
\* batch; a draft belongs to a row of the batch that the loop has left behind.
BatchIsSplit(r) ==
    /\ todo[r] \subseteq batch[r]
    /\ stage[r] = "next" <=> cur[r] = NoRow
    /\ cur[r] /= NoRow => cur[r] \in batch[r] \ todo[r]
    /\ \A id \in Ids : draft[r][id] /= "none" =>
          id \in batch[r] \ todo[r] /\ id /= cur[r]

\* What the relay remembers of a row of its batch.
BatchIsRetriable(r) ==
    \A id \in batch[r] : read[r][id] < MaxRetries /\ status[id] /= "absent"

\* The rows of an open transaction are locked: nobody has changed them.
BatchIsCurrent(r) ==
    tx[r] = "open" =>
        \A id \in batch[r] : status[id] \in Retriable /\ read[r][id] = retryCount[id]

\* Past the Kafka publish without an error, the copy is there.
DispatchedReachedTopic(r) ==
    /\ (stage[r] = "rabbit" \/ (stage[r] = "update" /\ ~dispatchErr[r])) =>
          (HasTopic(cur[r]) => kafka[cur[r]] > 0)
    /\ \A id \in Ids : draft[r][id] = "published" /\ HasTopic(id) => kafka[id] > 0

\* The drafts agree with the retry counts they are going to be written with.
DraftsKeepBudget(r) ==
    \A id \in Ids :
        /\ draft[r][id] = "failed" => read[r][id] + 1 < MaxRetries
        /\ draft[r][id] = "dead_letter" => read[r][id] + 1 = MaxRetries

RelayOK(r) ==
    /\ IdleIsEmpty(r)
    /\ BatchIsSplit(r)
    /\ BatchIsRetriable(r)
    /\ BatchIsCurrent(r)
    /\ DispatchedReachedTopic(r)
    /\ DraftsKeepBudget(r)

\* Only an event with a topic is handed to Kafka.
KafkaHasTopic == \A r \in Relays : stage[r] = "kafka" => HasTopic(cur[r])

\* A record goes to the dead-letter topic only after dispatch failed.
DeadLetterOnError == \A r \in Relays : stage[r] = "dlq" => dispatchErr[r]

IInv ==
    /\ TypeOK
    /\ \A r \in Relays : RelayOK(r)
    /\ DeadLetterOnError
    /\ KafkaHasTopic
    /\ ExclusiveClaim
    /\ RetryBudget
    /\ PublishedReachedTopic

-----------------------------------------------------------------------------
(* Type correctness.                                                         *)

LEMMA InitType == Init => TypeOK
BY OutboxAssumption DEF Init, TypeOK, Retriable, Settled

\* The loop body works on a row of the batch.
LEMMA AtRecord ==
    ASSUME IInv, NEW r \in Relays, stage[r] /= "next"
    PROVE  cur[r] \in Ids /\ cur[r] \in batch[r] /\ cur[r] \notin todo[r]
BY DEF IInv, RelayOK, BatchIsSplit, TypeOK

\* A call of the Writer appends between none and WriterAttempts copies of the
\* current record, at least one when it succeeds.
LEMMA PublishAppends ==
    ASSUME NEW r \in Relays, PublishKafka(r)
    PROVE  /\ \E n \in Nat :
                 n =< WriterAttempts /\ kafka' = [kafka EXCEPT ![cur[r]] = @ + n]
           /\ \/ \E n \in Nat \ {0} : kafka' = [kafka EXCEPT ![cur[r]] = @ + n]
              \/ AfterDispatch(r, TRUE)
<1> USE OutboxAssumption
<1>1. CASE \E n \in 1..WriterAttempts : kafka' = [kafka EXCEPT ![cur[r]] = @ + n]
  <2>1. PICK n \in 1..WriterAttempts : kafka' = [kafka EXCEPT ![cur[r]] = @ + n]
    BY <1>1
  <2>2. n \in Nat \ {0} /\ n \in Nat /\ n =< WriterAttempts
    OBVIOUS
  <2> QED
    BY <2>1, <2>2
<1>2. CASE (\E n \in 0..WriterAttempts : kafka' = [kafka EXCEPT ![cur[r]] = @ + n])
             /\ AfterDispatch(r, TRUE)
  <2>1. PICK n \in 0..WriterAttempts : kafka' = [kafka EXCEPT ![cur[r]] = @ + n]
    BY <1>2
  <2>2. n \in Nat /\ n =< WriterAttempts
    OBVIOUS
  <2> QED
    BY <1>2, <2>1, <2>2
<1> QED
  BY <1>1, <1>2 DEF PublishKafka

LEMMA ForgetType ==
    ASSUME TypeOK, NEW r \in Relays, Forget(r)
    PROVE  /\ tx' \in [Relays -> {"idle", "open", "lost"}]
           /\ batch' \in [Relays -> SUBSET Ids]
           /\ todo' \in [Relays -> SUBSET Ids]
           /\ cur' \in [Relays -> Ids \union {NoRow}]
           /\ stage' \in [Relays -> {"next", "kafka", "rabbit", "unsupported",
                                     "dlq", "update"}]
           /\ dispatchErr' \in [Relays -> BOOLEAN]
           /\ read' \in [Relays -> [Ids -> 0..MaxRetries]]
           /\ draft' \in [Relays -> [Ids -> {"none", "failed"} \union Settled]]
BY OutboxAssumption DEF TypeOK, Forget

LEMMA StepType == IInv /\ [Next]_vars => TypeOK'
<1> SUFFICES ASSUME IInv, [Next]_vars PROVE TypeOK'
  OBVIOUS
<1>0. TypeOK
  BY DEF IInv
<1> USE OutboxAssumption, NoRowAssumption, <1>0
<1>1. ASSUME NEW id \in Ids, Insert(id) PROVE TypeOK'
  BY <1>1 DEF TypeOK, Insert, brokers, loop, Retriable
<1>2. ASSUME NEW r \in Relays, Poll(r) PROVE TypeOK'
  <2>1. PICK B \in Selection(Claimable) :
           /\ batch' = [batch EXCEPT ![r] = B]
           /\ todo'  = [todo EXCEPT ![r] = B]
           /\ read'  = [read EXCEPT ![r] =
                          [id \in Ids |-> IF id \in B THEN retryCount[id] ELSE 0]]
    BY <1>2 DEF Poll
  <2>2. B \subseteq Ids
    BY DEF Selection, Claimable
  <2>3. [id \in Ids |-> IF id \in B THEN retryCount[id] ELSE 0] \in [Ids -> 0..MaxRetries]
    BY DEF TypeOK
  <2>4. read' \in [Relays -> [Ids -> 0..MaxRetries]]
    BY <2>1, <2>3 DEF TypeOK
  <2> QED
    BY <1>2, <2>1, <2>2, <2>4 DEF TypeOK, Poll, table, brokers
<1>3. ASSUME NEW r \in Relays, NextRecord(r) PROVE TypeOK'
  <2>1. PICK id \in Oldest(todo[r]) :
           /\ cur'   = [cur EXCEPT ![r] = id]
           /\ todo'  = [todo EXCEPT ![r] = @ \ {id}]
           /\ stage' = [stage EXCEPT ![r] = FirstStage(r, id)]
    BY <1>3 DEF NextRecord
  <2>2. id \in Ids
    BY DEF Oldest, TypeOK
  <2>3. FirstStage(r, id) \in {"kafka", "rabbit", "unsupported"}
    BY DEF FirstStage
  <2> QED
    BY <1>3, <2>1, <2>2, <2>3 DEF TypeOK, NextRecord, table, brokers
<1>4. ASSUME NEW r \in Relays, Unsupported(r) PROVE TypeOK'
  BY <1>4 DEF TypeOK, Unsupported, AfterDispatch, table, brokers
<1>5. ASSUME NEW r \in Relays, PublishKafka(r) PROVE TypeOK'
  <2>0. cur[r] \in Ids
    BY <1>5, AtRecord DEF PublishKafka
  <2>1. kafka' \in [Ids -> Nat]
    <3>1. kafka \in [Ids -> Nat]
      BY DEF TypeOK
    <3>2. PICK n \in Nat : kafka' = [kafka EXCEPT ![cur[r]] = @ + n]
      BY <1>5, PublishAppends
    <3> QED
      BY <2>0, <3>1, <3>2
  <2>2. /\ stage' \in [Relays -> {"next", "kafka", "rabbit", "unsupported", "dlq", "update"}]
        /\ dispatchErr' \in [Relays -> BOOLEAN]
    BY <1>5 DEF TypeOK, PublishKafka, AfterDispatch
  <2> QED
    BY <1>5, <2>1, <2>2 DEF TypeOK, PublishKafka, table
<1>6. ASSUME NEW r \in Relays, PublishRabbit(r) PROVE TypeOK'
  <2>0. cur[r] \in Ids
    BY <1>6, AtRecord DEF PublishRabbit
  <2>1. rabbit' \subseteq Ids
    BY <1>6, <2>0 DEF TypeOK, PublishRabbit
  <2>2. /\ stage' \in [Relays -> {"next", "kafka", "rabbit", "unsupported", "dlq", "update"}]
        /\ dispatchErr' \in [Relays -> BOOLEAN]
    BY <1>6 DEF TypeOK, PublishRabbit, AfterDispatch
  <2> QED
    BY <1>6, <2>1, <2>2 DEF TypeOK, PublishRabbit, table
<1>7. ASSUME NEW r \in Relays, PublishDLQ(r) PROVE TypeOK'
  <2>0. cur[r] \in Ids
    BY <1>7, AtRecord DEF PublishDLQ
  <2>1. dlq' \subseteq Ids
    BY <1>7, <2>0 DEF TypeOK, PublishDLQ
  <2> QED
    BY <1>7, <2>1 DEF TypeOK, PublishDLQ, table
<1>8. ASSUME NEW r \in Relays, Update(r) PROVE TypeOK'
  <2>1. Outcome(r) \in {"none", "failed"} \union Settled
    BY DEF Outcome, Settled
  <2> QED
    BY <1>8, <2>1 DEF TypeOK, Update, table, brokers
<1>9. ASSUME NEW r \in Relays, RollBack(r) PROVE TypeOK'
  BY <1>9, ForgetType DEF TypeOK, RollBack, table, brokers
<1>11. ASSUME NEW r \in Relays, Crash(r) PROVE TypeOK'
  <2>1. faults' \in 0..MaxFaults /\ amqp' \in [Relays -> BOOLEAN]
    BY <1>11 DEF TypeOK, Crash
  <2> QED
    BY <1>11, <2>1, ForgetType DEF TypeOK, Crash, table, brokers
<1>13. ASSUME NEW r \in Relays, Commit(r) PROVE TypeOK'
  <2>1. status' \in [Ids -> {"absent"} \union Retriable \union Settled]
    BY <1>13 DEF TypeOK, Commit, Retriable, Settled
  <2>2. \A id \in Ids : draft[r][id] /= "none" => read[r][id] < MaxRetries
    BY DEF IInv, RelayOK, BatchIsSplit, BatchIsRetriable
  <2>3. retryCount' \in [Ids -> 0..MaxRetries]
    <3> DEFINE new(id) == IF draft[r][id] \in {"failed", "dead_letter"}
                          THEN read[r][id] + 1 ELSE retryCount[id]
    <3>1. ASSUME NEW id \in Ids PROVE new(id) \in 0..MaxRetries
      <4>1. read[r][id] \in 0..MaxRetries /\ retryCount[id] \in 0..MaxRetries
        BY DEF TypeOK
      <4> QED
        BY <2>2, <4>1
    <3>2. retryCount' = [id \in Ids |-> new(id)]
      BY <1>13 DEF Commit
    <3> QED
      BY <3>1, <3>2
  <2> QED
    BY <1>13, <2>1, <2>3, ForgetType DEF TypeOK, Commit, brokers
<1>10. ASSUME NEW r \in Relays, LoseTransaction(r) PROVE TypeOK'
  <2>1. faults' \in 0..MaxFaults
    BY <1>10 DEF TypeOK, LoseTransaction
  <2> QED
    BY <1>10, <2>1 DEF TypeOK, LoseTransaction, table, brokers, loop
<1>14. ASSUME NEW r \in Relays, LoseAmqp(r) PROVE TypeOK'
  BY <1>14 DEF TypeOK, LoseAmqp, table, brokers, loop
<1>12. CASE UNCHANGED vars
  BY <1>12 DEF TypeOK, vars, table, brokers, loop
<1> QED
  BY <1>1, <1>2, <1>3, <1>4, <1>5, <1>6, <1>7, <1>8, <1>9, <1>10, <1>11, <1>12, <1>13,
     <1>14
  DEF Next, RelayStep, Fault

-----------------------------------------------------------------------------
(* What a step of one relay leaves alone.                                    *)

\* The part of the state that belongs to relay q is as it was.
Untouched(q) ==
    /\ tx'[q] = tx[q]
    /\ batch'[q] = batch[q]
    /\ todo'[q] = todo[q]
    /\ cur'[q] = cur[q]
    /\ stage'[q] = stage[q]
    /\ dispatchErr'[q] = dispatchErr[q]
    /\ read'[q] = read[q]
    /\ draft'[q] = draft[q]

LEMMA OthersUntouched ==
    ASSUME TypeOK, NEW r \in Relays, NEW q \in Relays, q /= r, RelayStep(r) \/ Fault(r)
    PROVE  Untouched(q)
<1>1. CASE Poll(r)
  BY <1>1 DEF TypeOK, Untouched, Poll
<1>2. CASE NextRecord(r)
  BY <1>2 DEF TypeOK, Untouched, NextRecord
<1>3. CASE Unsupported(r)
  BY <1>3 DEF TypeOK, Untouched, Unsupported, AfterDispatch
<1>4. CASE PublishKafka(r)
  BY <1>4 DEF TypeOK, Untouched, PublishKafka, AfterDispatch
<1>5. CASE PublishRabbit(r)
  BY <1>5 DEF TypeOK, Untouched, PublishRabbit, AfterDispatch
<1>6. CASE PublishDLQ(r)
  BY <1>6 DEF TypeOK, Untouched, PublishDLQ
<1>7. CASE Update(r)
  BY <1>7 DEF TypeOK, Untouched, Update
<1>8. CASE Forget(r)
  BY <1>8 DEF TypeOK, Untouched, Forget
<1>9. CASE LoseTransaction(r)
  BY <1>9 DEF TypeOK, Untouched, LoseTransaction, loop
<1>10. CASE LoseAmqp(r)
  BY <1>10 DEF TypeOK, Untouched, LoseAmqp, loop
<1> QED
  BY <1>1, <1>2, <1>3, <1>4, <1>5, <1>6, <1>7, <1>8, <1>9, <1>10
  DEF RelayStep, Fault, Commit, RollBack, Crash

\* No step takes a copy out of a topic.
LEMMA KafkaGrows ==
    ASSUME IInv, [Next]_vars, NEW id \in Ids
    PROVE  kafka'[id] >= kafka[id]
<1>0. kafka \in [Ids -> Nat]
  BY DEF IInv, TypeOK
<1>1. ASSUME NEW r \in Relays, PublishKafka(r) PROVE kafka'[id] >= kafka[id]
  <2>1. PICK n \in Nat : kafka' = [kafka EXCEPT ![cur[r]] = @ + n]
    BY <1>1, PublishAppends
  <2> QED
    BY <1>0, <2>1
<1>2. CASE UNCHANGED kafka
  BY <1>0, <1>2
<1> QED
  BY <1>1, <1>2
  DEF Next, RelayStep, Fault, Insert, Poll, NextRecord, Unsupported, PublishRabbit,
      PublishDLQ, Update, Commit, RollBack, LoseTransaction, Crash, LoseAmqp, vars, brokers

\* A relay that only saw others move keeps its invariant.
LEMMA Undisturbed ==
    ASSUME IInv, NEW q \in Relays, RelayOK(q), Untouched(q),
           \A id \in Ids : kafka'[id] >= kafka[id],
           kafka \in [Ids -> Nat], kafka' \in [Ids -> Nat],
           \A id \in Ids : status[id] /= "absent" => status'[id] /= "absent",
           tx[q] = "open" => \A id \in batch[q] : /\ status'[id] = status[id]
                                                  /\ retryCount'[id] = retryCount[id]
    PROVE  RelayOK(q)'
<1>0. batch[q] \subseteq Ids
  BY DEF IInv, TypeOK
<1>1. IdleIsEmpty(q)' /\ BatchIsSplit(q)' /\ DraftsKeepBudget(q)'
  BY DEF RelayOK, Untouched, IdleIsEmpty, BatchIsSplit, DraftsKeepBudget
<1>2. BatchIsRetriable(q)'
  BY <1>0 DEF RelayOK, Untouched, BatchIsRetriable
<1>3. BatchIsCurrent(q)'
  BY <1>0 DEF RelayOK, Untouched, BatchIsCurrent
<1>4. DispatchedReachedTopic(q)'
  <2>1. cur[q] \in Ids \/ stage[q] = "next"
    BY <1>0 DEF RelayOK, BatchIsSplit
  <2>2. \A id \in Ids : kafka[id] > 0 => kafka'[id] > 0
    OBVIOUS
  <2> QED
    BY <2>1, <2>2 DEF RelayOK, Untouched, DispatchedReachedTopic, HasTopic
<1> QED
  BY <1>1, <1>2, <1>3, <1>4 DEF RelayOK

-----------------------------------------------------------------------------
(* Every step of relay r keeps the invariant of r.                           *)

LEMMA RetriableHasBudget ==
    ASSUME IInv, NEW id \in Ids, status[id] \in Retriable
    PROVE  retryCount[id] \in Nat /\ retryCount[id] < MaxRetries /\ status[id] /= "absent"
<1>1. retryCount[id] \in 0..MaxRetries /\ MaxRetries \in Nat
  BY OutboxAssumption DEF IInv, TypeOK
<1>2. status[id] /= "dead_letter" /\ status[id] /= "absent"
  BY DEF Retriable
<1>3. retryCount[id] /= MaxRetries
  BY <1>2 DEF IInv, RetryBudget
<1> QED
  BY <1>1, <1>2, <1>3

LEMMA OwnPoll ==
    ASSUME IInv, TypeOK', NEW r \in Relays, Poll(r)
    PROVE  RelayOK(r)'
<1>0. TypeOK /\ RelayOK(r)
  BY DEF IInv
<1>1. PICK B \in Selection(Claimable) :
         /\ batch' = [batch EXCEPT ![r] = B]
         /\ todo'  = [todo EXCEPT ![r] = B]
         /\ read'  = [read EXCEPT ![r] =
                        [id \in Ids |-> IF id \in B THEN retryCount[id] ELSE 0]]
  BY DEF Poll
<1>2. B \subseteq Ids /\ \A id \in B : status[id] \in Retriable
  BY DEF Selection, Claimable
<1>3. /\ tx'[r] = "open" /\ batch'[r] = B /\ todo'[r] = B
      /\ \A id \in B : read'[r][id] = retryCount[id]
      /\ cur' = cur /\ stage' = stage /\ draft' = draft /\ dispatchErr' = dispatchErr
      /\ status' = status /\ retryCount' = retryCount /\ kafka' = kafka
  BY <1>0, <1>1, <1>2 DEF Poll, TypeOK, table, brokers
<1>4. cur[r] = NoRow /\ stage[r] = "next" /\ \A id \in Ids : draft[r][id] = "none"
  BY <1>0 DEF RelayOK, IdleIsEmpty, BatchIsSplit, Poll
<1>5. IdleIsEmpty(r)' /\ BatchIsSplit(r)'
  BY <1>3, <1>4 DEF IdleIsEmpty, BatchIsSplit
<1>6. BatchIsRetriable(r)'
  BY <1>2, <1>3, RetriableHasBudget DEF BatchIsRetriable
<1>7. BatchIsCurrent(r)'
  BY <1>2, <1>3 DEF BatchIsCurrent
<1>8. DispatchedReachedTopic(r)' /\ DraftsKeepBudget(r)'
  BY <1>3, <1>4 DEF DispatchedReachedTopic, DraftsKeepBudget
<1> QED
  BY <1>5, <1>6, <1>7, <1>8 DEF RelayOK

LEMMA OwnNextRecord ==
    ASSUME IInv, TypeOK', NEW r \in Relays, NextRecord(r)
    PROVE  RelayOK(r)'
<1>0. TypeOK /\ RelayOK(r)
  BY DEF IInv
<1>1. PICK id \in Oldest(todo[r]) :
         /\ cur'   = [cur EXCEPT ![r] = id]
         /\ todo'  = [todo EXCEPT ![r] = @ \ {id}]
         /\ stage' = [stage EXCEPT ![r] = FirstStage(r, id)]
  BY DEF NextRecord
<1>2. id \in todo[r] /\ id \in Ids
  BY <1>0, <1>1 DEF Oldest, TypeOK
<1>3. FirstStage(r, id) \in {"kafka", "rabbit", "unsupported"}
      /\ (FirstStage(r, id) = "rabbit" => ~HasTopic(id))
  BY DEF FirstStage
<1>4. /\ cur'[r] = id /\ todo'[r] = todo[r] \ {id} /\ stage'[r] = FirstStage(r, id)
      /\ tx' = tx /\ batch' = batch /\ read' = read /\ draft' = draft
      /\ status' = status /\ retryCount' = retryCount /\ kafka' = kafka
  BY <1>0, <1>1 DEF NextRecord, TypeOK, table, brokers
<1>5. IdleIsEmpty(r)' /\ BatchIsSplit(r)'
  BY <1>0, <1>2, <1>3, <1>4, NoRowAssumption
  DEF NextRecord, RelayOK, IdleIsEmpty, BatchIsSplit
<1>6. BatchIsRetriable(r)' /\ BatchIsCurrent(r)' /\ DraftsKeepBudget(r)'
  BY <1>0, <1>4 DEF RelayOK, BatchIsRetriable, BatchIsCurrent, DraftsKeepBudget
<1>7. DispatchedReachedTopic(r)'
  BY <1>0, <1>3, <1>4 DEF RelayOK, DispatchedReachedTopic, HasTopic
<1> QED
  BY <1>5, <1>6, <1>7 DEF RelayOK

\* The publishing steps move only stage and dispatchErr of r, and add copies.
LEMMA OwnPublish ==
    ASSUME IInv, TypeOK', NEW r \in Relays,
           stage[r] /= "next", stage'[r] /= "next",
           \A id \in Ids : kafka'[id] >= kafka[id],
           UNCHANGED <<status, retryCount, tx, batch, todo, cur, read, draft>>,
           (stage'[r] = "rabbit" \/ (stage'[r] = "update" /\ ~dispatchErr'[r]))
              => (HasTopic(cur[r]) => kafka'[cur[r]] > 0)
    PROVE  RelayOK(r)'
<1>0. TypeOK /\ RelayOK(r) /\ kafka \in [Ids -> Nat] /\ kafka' \in [Ids -> Nat]
  BY DEF IInv, TypeOK
<1>1. IdleIsEmpty(r)' /\ BatchIsSplit(r)'
  BY <1>0 DEF RelayOK, IdleIsEmpty, BatchIsSplit
<1>2. BatchIsRetriable(r)' /\ BatchIsCurrent(r)' /\ DraftsKeepBudget(r)'
  BY <1>0 DEF RelayOK, BatchIsRetriable, BatchIsCurrent, DraftsKeepBudget
<1>3. \A id \in Ids : kafka[id] > 0 => kafka'[id] > 0
  BY <1>0
<1>4. DispatchedReachedTopic(r)'
  BY <1>0, <1>3 DEF RelayOK, DispatchedReachedTopic, HasTopic
<1> QED
  BY <1>1, <1>2, <1>4 DEF RelayOK

LEMMA OwnUpdate ==
    ASSUME IInv, TypeOK', NEW r \in Relays, Update(r)
    PROVE  RelayOK(r)'
<1>0. TypeOK /\ RelayOK(r) /\ cur[r] \in Ids /\ cur[r] \in batch[r] /\ cur[r] \notin todo[r]
  BY AtRecord DEF IInv, Update
<1>1. /\ draft'[r] = [draft[r] EXCEPT ![cur[r]] = Outcome(r)]
      /\ cur'[r] = NoRow /\ stage'[r] = "next"
      /\ tx' = tx /\ batch' = batch /\ todo' = todo /\ read' = read
      /\ status' = status /\ retryCount' = retryCount /\ kafka' = kafka
  BY <1>0 DEF Update, TypeOK, table, brokers
<1>2. /\ draft'[r][cur[r]] = Outcome(r)
      /\ \A id \in Ids \ {cur[r]} : draft'[r][id] = draft[r][id]
  BY <1>0, <1>1 DEF TypeOK
<1>3. IdleIsEmpty(r)'
  BY <1>1 DEF Update, IdleIsEmpty
<1>4. BatchIsSplit(r)'
  BY <1>0, <1>1, <1>2, NoRowAssumption DEF RelayOK, BatchIsSplit
<1>5. BatchIsRetriable(r)' /\ BatchIsCurrent(r)'
  BY <1>0, <1>1 DEF RelayOK, BatchIsRetriable, BatchIsCurrent
<1>6. DispatchedReachedTopic(r)'
  <2>1. Outcome(r) = "published" => ~dispatchErr[r]
    BY DEF Outcome
  <2> QED
    BY <1>0, <1>1, <1>2, <2>1 DEF RelayOK, DispatchedReachedTopic, HasTopic, Update
<1>7. DraftsKeepBudget(r)'
  <2>1. /\ read[r][cur[r]] \in Nat
        /\ read[r][cur[r]] < MaxRetries
    BY <1>0 DEF RelayOK, BatchIsRetriable, TypeOK
  <2>2. /\ Outcome(r) = "failed" => read[r][cur[r]] + 1 < MaxRetries
        /\ Outcome(r) = "dead_letter" => read[r][cur[r]] + 1 = MaxRetries
    BY <2>1, OutboxAssumption DEF Outcome, LastAttempt
  <2> QED
    BY <1>0, <1>1, <1>2, <2>2 DEF RelayOK, DraftsKeepBudget
<1> QED
  BY <1>3, <1>4, <1>5, <1>6, <1>7 DEF RelayOK

LEMMA OwnForget ==
    ASSUME IInv, TypeOK', NEW r \in Relays, Forget(r)
    PROVE  RelayOK(r)'
<1>1. /\ tx'[r] = "idle" /\ batch'[r] = {} /\ todo'[r] = {} /\ cur'[r] = NoRow
      /\ stage'[r] = "next" /\ \A id \in Ids : draft'[r][id] = "none"
  BY DEF IInv, TypeOK, Forget
<1> QED
  BY <1>1 DEF RelayOK, IdleIsEmpty, BatchIsSplit, BatchIsRetriable, BatchIsCurrent,
              DispatchedReachedTopic, DraftsKeepBudget

-----------------------------------------------------------------------------
(* Every step keeps the invariant of every relay.                            *)

\* Only an insert and a commit change the table, and only rows that no other
\* live transaction holds.
LEMMA HeldRowsStay ==
    ASSUME IInv, NEW r \in Relays, NEW q \in Relays, q /= r,
           RelayStep(r) \/ Fault(r), tx[q] = "open", NEW id \in batch[q]
    PROVE  status'[id] = status[id] /\ retryCount'[id] = retryCount[id]
<1>1. CASE Commit(r)
  <2>1. id \in Ids /\ id \notin batch[r]
    BY <1>1 DEF IInv, TypeOK, ExclusiveClaim, Commit
  <2>2. draft[r][id] = "none"
    BY <2>1 DEF IInv, RelayOK, BatchIsSplit
  <2> QED
    BY <1>1, <2>1, <2>2 DEF Commit
<1>2. CASE UNCHANGED <<status, retryCount>>
  BY <1>2
<1> QED
  BY <1>1, <1>2
  DEF RelayStep, Fault, Poll, NextRecord, Unsupported, PublishKafka, PublishRabbit,
      PublishDLQ, Update, RollBack, LoseTransaction, Crash, LoseAmqp, table

LEMMA RowsStay ==
    ASSUME IInv, [Next]_vars, NEW id \in Ids, status[id] /= "absent"
    PROVE  status'[id] /= "absent"
<1>0. TypeOK
  BY DEF IInv
<1>1. ASSUME NEW x \in Ids, Insert(x) PROVE status'[id] /= "absent"
  BY <1>0, <1>1 DEF Insert, TypeOK
<1>2. ASSUME NEW r \in Relays, Commit(r) PROVE status'[id] /= "absent"
  BY <1>0, <1>2 DEF Commit, TypeOK, Settled
<1>3. CASE UNCHANGED status
  BY <1>3
<1> QED
  BY <1>1, <1>2, <1>3
  DEF Next, RelayStep, Fault, Poll, NextRecord, Unsupported, PublishKafka, PublishRabbit,
      PublishDLQ, Update, RollBack, LoseTransaction, Crash, LoseAmqp, table, vars

LEMMA OwnStep ==
    ASSUME IInv, [Next]_vars, TypeOK', NEW r \in Relays, RelayStep(r) \/ Fault(r)
    PROVE  RelayOK(r)'
<1>0. TypeOK /\ RelayOK(r)
  BY DEF IInv
<1>1. \A id \in Ids : kafka'[id] >= kafka[id]
  BY KafkaGrows
<1>2. CASE Poll(r)
  BY <1>2, OwnPoll
<1>3. CASE NextRecord(r)
  BY <1>3, OwnNextRecord
<1>4. CASE Unsupported(r)
  <2>1. stage'[r] \in {"dlq", "update"} /\ dispatchErr'[r]
    BY <1>0, <1>4 DEF Unsupported, AfterDispatch, TypeOK
  <2> QED
    BY <1>1, <1>4, <2>1, OwnPublish DEF Unsupported, table, brokers
<1>5. CASE PublishKafka(r)
  <2>0. cur[r] \in Ids /\ kafka \in [Ids -> Nat]
    BY <1>0, <1>5, AtRecord DEF PublishKafka, TypeOK
  <2>1. CASE \E n \in Nat \ {0} : kafka' = [kafka EXCEPT ![cur[r]] = @ + n]
    <3>1. kafka'[cur[r]] > 0
      BY <2>0, <2>1
    <3>2. stage'[r] \in {"rabbit", "dlq", "update"}
      BY <1>0, <1>5 DEF PublishKafka, AfterDispatch, TypeOK
    <3> QED
      BY <1>1, <1>5, <3>1, <3>2, OwnPublish DEF PublishKafka, table
  <2>2. CASE AfterDispatch(r, TRUE)
    <3>1. stage'[r] \in {"dlq", "update"} /\ dispatchErr'[r]
      BY <1>0, <2>2 DEF AfterDispatch, TypeOK
    <3> QED
      BY <1>1, <1>5, <3>1, OwnPublish DEF PublishKafka, table
  <2> QED
    BY <1>5, <2>1, <2>2, PublishAppends
<1>6. CASE PublishRabbit(r)
  <2>1. stage'[r] \in {"dlq", "update"} /\ UNCHANGED kafka
    BY <1>0, <1>6 DEF PublishRabbit, AfterDispatch, TypeOK
  <2>2. HasTopic(cur[r]) => kafka[cur[r]] > 0
    BY <1>0, <1>6 DEF PublishRabbit, RelayOK, DispatchedReachedTopic
  <2> QED
    BY <1>1, <1>6, <2>1, <2>2, OwnPublish DEF PublishRabbit, table
<1>7. CASE PublishDLQ(r)
  <2>1. stage'[r] = "update" /\ UNCHANGED <<kafka, dispatchErr>>
    BY <1>0, <1>7 DEF PublishDLQ, TypeOK
  <2>2. dispatchErr[r]
    BY <1>7 DEF IInv, DeadLetterOnError, PublishDLQ
  <2> QED
    BY <1>1, <1>7, <2>1, <2>2, OwnPublish DEF PublishDLQ, table
<1>8. CASE Update(r)
  BY <1>8, OwnUpdate
<1>9. CASE Forget(r)
  BY <1>9, OwnForget
<1>10. CASE LoseTransaction(r)
  <2>1. tx'[r] = "lost" /\ UNCHANGED <<status, retryCount, kafka, loop>>
    BY <1>0, <1>10 DEF LoseTransaction, TypeOK, table, brokers
  <2> QED
    BY <1>0, <2>1
    DEF RelayOK, IdleIsEmpty, BatchIsSplit, BatchIsRetriable, BatchIsCurrent,
        DispatchedReachedTopic, DraftsKeepBudget, HasTopic, loop
<1>11. CASE LoseAmqp(r)
  <2>1. UNCHANGED <<status, retryCount, kafka, tx, loop>>
    BY <1>11 DEF LoseAmqp, table, brokers
  <2> QED
    BY <1>0, <2>1
    DEF RelayOK, IdleIsEmpty, BatchIsSplit, BatchIsRetriable, BatchIsCurrent,
        DispatchedReachedTopic, DraftsKeepBudget, HasTopic, loop
<1> QED
  BY <1>2, <1>3, <1>4, <1>5, <1>6, <1>7, <1>8, <1>9, <1>10, <1>11
  DEF RelayStep, Fault, Commit, RollBack, Crash

LEMMA StepRelays ==
    ASSUME IInv, [Next]_vars, TypeOK'
    PROVE  \A q \in Relays : RelayOK(q)'
<1> SUFFICES ASSUME NEW q \in Relays PROVE RelayOK(q)'
  OBVIOUS
<1>1. /\ RelayOK(q)
      /\ \A id \in Ids : kafka'[id] >= kafka[id]
      /\ \A id \in Ids : status[id] /= "absent" => status'[id] /= "absent"
      /\ kafka \in [Ids -> Nat] /\ kafka' \in [Ids -> Nat]
  BY KafkaGrows, RowsStay DEF IInv, TypeOK
<1>2. ASSUME NEW x \in Ids, Insert(x) PROVE RelayOK(q)'
  <2>1. Untouched(q)
    BY <1>2 DEF Untouched, Insert, loop
  <2>2. ASSUME tx[q] = "open", NEW id \in batch[q]
        PROVE  status'[id] = status[id] /\ retryCount'[id] = retryCount[id]
    <3>1. id \in Ids /\ id /= x
      BY <1>2, <2>2 DEF IInv, TypeOK, RelayOK, BatchIsRetriable, Insert
    <3> QED
      BY <1>2, <3>1 DEF Insert, IInv, TypeOK
  <2> QED
    BY <1>1, <2>1, <2>2, Undisturbed
<1>3. ASSUME NEW r \in Relays, RelayStep(r) \/ Fault(r) PROVE RelayOK(q)'
  <2>1. CASE r = q
    BY <1>3, <2>1, OwnStep
  <2>2. CASE r /= q
    <3>1. Untouched(q)
      BY <1>3, <2>2, OthersUntouched DEF IInv
    <3>2. ASSUME tx[q] = "open", NEW id \in batch[q]
          PROVE  status'[id] = status[id] /\ retryCount'[id] = retryCount[id]
      BY <1>3, <2>2, <3>2, HeldRowsStay
    <3> QED
      BY <1>1, <3>1, <3>2, Undisturbed
  <2> QED
    BY <2>1, <2>2
<1>4. CASE UNCHANGED vars
  <2>1. Untouched(q) /\ UNCHANGED <<status, retryCount>>
    BY <1>4 DEF Untouched, vars, loop, table
  <2> QED
    BY <1>1, <2>1, Undisturbed
<1> QED
  BY <1>2, <1>3, <1>4 DEF Next

LEMMA StepDeadLetter ==
    ASSUME IInv, [Next]_vars
    PROVE  DeadLetterOnError'
<1> SUFFICES ASSUME NEW q \in Relays, stage'[q] = "dlq" PROVE dispatchErr'[q]
  BY DEF DeadLetterOnError
<1>0. TypeOK /\ (stage[q] = "dlq" => dispatchErr[q])
  BY DEF IInv, DeadLetterOnError
<1>1. CASE stage'[q] = stage[q] /\ dispatchErr'[q] = dispatchErr[q]
  BY <1>0, <1>1
<1>2. ASSUME NEW r \in Relays, RelayStep(r) \/ Fault(r) PROVE dispatchErr'[q]
  <2>1. CASE r /= q
    BY <1>0, <1>2, <2>1, OthersUntouched DEF Untouched
  <2>2. CASE r = q
    <3>1. CASE NextRecord(q)
      BY <1>0, <3>1 DEF NextRecord, FirstStage, TypeOK
    <3>2. CASE Unsupported(q) \/ PublishKafka(q) \/ PublishRabbit(q)
      BY <1>0, <3>2
      DEF Unsupported, PublishKafka, PublishRabbit, AfterDispatch, TypeOK
    <3>3. CASE PublishDLQ(q) \/ Update(q) \/ Forget(q)
      BY <1>0, <3>3 DEF PublishDLQ, Update, Forget, TypeOK
    <3>4. CASE Poll(q) \/ LoseTransaction(q) \/ LoseAmqp(q)
      BY <1>0, <3>4 DEF Poll, LoseTransaction, LoseAmqp, loop
    <3> QED
      BY <1>2, <2>2, <3>1, <3>2, <3>3, <3>4 DEF RelayStep, Fault, Commit, RollBack, Crash
  <2> QED
    BY <2>1, <2>2
<1> QED
  BY <1>1, <1>2 DEF Next, Insert, loop, vars

LEMMA StepKafkaHasTopic ==
    ASSUME IInv, [Next]_vars
    PROVE  KafkaHasTopic'
<1> SUFFICES ASSUME NEW q \in Relays, stage'[q] = "kafka" PROVE HasTopic(cur'[q])
  BY DEF KafkaHasTopic, HasTopic
<1>0. TypeOK /\ (stage[q] = "kafka" => HasTopic(cur[q]))
  BY DEF IInv, KafkaHasTopic
<1>1. CASE stage'[q] = stage[q] /\ cur'[q] = cur[q]
  BY <1>0, <1>1
<1>2. ASSUME NEW r \in Relays, RelayStep(r) \/ Fault(r) PROVE HasTopic(cur'[q])
  <2>1. CASE r /= q
    BY <1>0, <1>1, <1>2, <2>1, OthersUntouched DEF Untouched
  <2>2. CASE r = q
    <3>1. CASE NextRecord(q)
      <4>1. PICK id \in Oldest(todo[q]) :
               cur' = [cur EXCEPT ![q] = id] /\ stage' = [stage EXCEPT ![q] = FirstStage(q, id)]
        BY <3>1 DEF NextRecord
      <4> QED
        BY <1>0, <4>1 DEF FirstStage, TypeOK
    <3>2. CASE Unsupported(q) \/ PublishKafka(q) \/ PublishRabbit(q)
      BY <1>0, <3>2
      DEF Unsupported, PublishKafka, PublishRabbit, AfterDispatch, TypeOK
    <3>3. CASE PublishDLQ(q) \/ Update(q) \/ Forget(q)
      BY <1>0, <3>3 DEF PublishDLQ, Update, Forget, TypeOK
    <3>4. CASE Poll(q) \/ LoseTransaction(q) \/ LoseAmqp(q)
      BY <1>1, <3>4 DEF Poll, LoseTransaction, LoseAmqp, loop
    <3> QED
      BY <1>2, <2>2, <3>1, <3>2, <3>3, <3>4 DEF RelayStep, Fault, Commit, RollBack, Crash
  <2> QED
    BY <2>1, <2>2
<1> QED
  BY <1>1, <1>2 DEF Next, Insert, loop, vars

\* A poll takes only rows that no open transaction holds.
LEMMA StepExclusive ==
    ASSUME IInv, [Next]_vars
    PROVE  ExclusiveClaim'
<1> SUFFICES ASSUME NEW p \in Relays, NEW q \in Relays, p /= q,
                    tx'[p] = "open", tx'[q] = "open"
             PROVE  batch'[p] \intersect batch'[q] = {}
  BY DEF ExclusiveClaim
<1>0. TypeOK /\ (tx[p] = "open" /\ tx[q] = "open" => batch[p] \intersect batch[q] = {})
  BY DEF IInv, ExclusiveClaim
<1>1. ASSUME NEW r \in Relays, Poll(r) PROVE batch'[p] \intersect batch'[q] = {}
  <2>1. PICK B \in Selection(Claimable) : batch' = [batch EXCEPT ![r] = B]
    BY <1>1 DEF Poll
  <2>2. \A s \in Relays : tx[s] = "open" => B \intersect batch[s] = {}
    BY DEF Selection, Claimable, Locked
  <2>3. tx' = [tx EXCEPT ![r] = "open"]
    BY <1>1 DEF Poll
  <2>4. CASE r = p
    BY <1>0, <2>1, <2>2, <2>3, <2>4 DEF TypeOK
  <2>5. CASE r = q
    BY <1>0, <2>1, <2>2, <2>3, <2>5 DEF TypeOK
  <2>6. CASE r /= p /\ r /= q
    BY <1>0, <2>1, <2>3, <2>6 DEF TypeOK
  <2> QED
    BY <2>4, <2>5, <2>6
<1>2. ASSUME NEW r \in Relays, Forget(r) \/ LoseTransaction(r)
      PROVE  batch'[p] \intersect batch'[q] = {}
  BY <1>0, <1>2 DEF Forget, LoseTransaction, TypeOK, loop
<1>3. CASE UNCHANGED <<tx, batch>>
  BY <1>0, <1>3
<1> QED
  BY <1>1, <1>2, <1>3
  DEF Next, RelayStep, Fault, Insert, NextRecord, Unsupported, PublishKafka,
      PublishRabbit, PublishDLQ, Update, Commit, RollBack, Crash, LoseAmqp, loop, vars

LEMMA StepTable ==
    ASSUME IInv, [Next]_vars
    PROVE  RetryBudget' /\ PublishedReachedTopic'
<1>0. TypeOK /\ RetryBudget /\ PublishedReachedTopic
  BY DEF IInv
<1>1. \A id \in Ids : kafka[id] > 0 => kafka'[id] > 0
  BY KafkaGrows, <1>0, StepType DEF IInv, TypeOK
<1>2. ASSUME NEW x \in Ids, Insert(x) PROVE RetryBudget' /\ PublishedReachedTopic'
  <2>1. RetryBudget'
    BY <1>0, <1>2, OutboxAssumption DEF Insert, TypeOK, RetryBudget
  <2>2. PublishedReachedTopic'
    BY <1>0, <1>1, <1>2 DEF Insert, TypeOK, PublishedReachedTopic, HasTopic
  <2> QED
    BY <2>1, <2>2
<1>3. ASSUME NEW r \in Relays, Commit(r) PROVE RetryBudget' /\ PublishedReachedTopic'
  <2> SUFFICES ASSUME NEW id \in Ids
               PROVE  /\ status'[id] = "dead_letter" <=> retryCount'[id] = MaxRetries
                      /\ status'[id] = "failed" => retryCount'[id] > 0
                      /\ status'[id] \in {"absent", "pending"} => retryCount'[id] = 0
                      /\ status'[id] = "published" /\ HasTopic(id) => kafka'[id] > 0
    BY DEF RetryBudget, PublishedReachedTopic, HasTopic
  <2>1. CASE draft[r][id] = "none"
    BY <1>0, <1>1, <1>3, <2>1 DEF Commit, RetryBudget, PublishedReachedTopic
  <2>2. CASE draft[r][id] /= "none"
    <3>1. /\ id \in batch[r] /\ status[id] \in Retriable
          /\ read[r][id] = retryCount[id] /\ retryCount[id] \in Nat
          /\ retryCount[id] < MaxRetries
      BY <1>3, <2>2, RetriableHasBudget
      DEF IInv, RelayOK, BatchIsSplit, BatchIsCurrent, Commit
    <3>2. /\ draft[r][id] = "failed" => read[r][id] + 1 < MaxRetries
          /\ draft[r][id] = "dead_letter" => read[r][id] + 1 = MaxRetries
          /\ draft[r][id] = "published" /\ HasTopic(id) => kafka[id] > 0
          /\ draft[r][id] \in {"failed", "dead_letter", "published"}
      BY <2>2 DEF IInv, RelayOK, DraftsKeepBudget, DispatchedReachedTopic, TypeOK, Settled
    <3>3. /\ status'[id] = draft[r][id]
          /\ retryCount'[id] = IF draft[r][id] \in {"failed", "dead_letter"}
                               THEN read[r][id] + 1 ELSE retryCount[id]
      BY <1>3, <2>2 DEF Commit
    <3> QED
      BY <1>1, <3>1, <3>2, <3>3, OutboxAssumption
  <2> QED
    BY <2>1, <2>2
<1>4. CASE UNCHANGED <<status, retryCount>>
  BY <1>0, <1>1, <1>4 DEF RetryBudget, PublishedReachedTopic, HasTopic
<1> QED
  BY <1>2, <1>3, <1>4
  DEF Next, RelayStep, Fault, Poll, NextRecord, Unsupported, PublishKafka, PublishRabbit,
      PublishDLQ, Update, RollBack, LoseTransaction, Crash, LoseAmqp, table, vars

-----------------------------------------------------------------------------
(* The theorems.                                                             *)

LEMMA InitInv == Init => IInv
<1> SUFFICES ASSUME Init PROVE IInv
  OBVIOUS
<1>1. TypeOK
  BY InitType
<1>2. \A r \in Relays : RelayOK(r)
  BY NoRowAssumption
  DEF Init, RelayOK, IdleIsEmpty, BatchIsSplit, BatchIsRetriable, BatchIsCurrent,
      DispatchedReachedTopic, DraftsKeepBudget
<1>3. DeadLetterOnError /\ KafkaHasTopic /\ ExclusiveClaim /\ RetryBudget /\ PublishedReachedTopic
  BY OutboxAssumption
  DEF Init, DeadLetterOnError, KafkaHasTopic, ExclusiveClaim, RetryBudget, PublishedReachedTopic
<1> QED
  BY <1>1, <1>2, <1>3 DEF IInv

LEMMA StepInv == IInv /\ [Next]_vars => IInv'
<1> SUFFICES ASSUME IInv, [Next]_vars PROVE IInv'
  OBVIOUS
<1>1. TypeOK'
  BY StepType
<1> QED
  BY <1>1, StepRelays, StepDeadLetter, StepKafkaHasTopic, StepExclusive, StepTable DEF IInv

\* The inductive invariant holds in every state the relays can reach.
THEOREM Invariance == Spec => []IInv
BY InitInv, StepInv, PTL DEF Spec

\* Every variable keeps its type; in particular no retry_count passes the limit.
THEOREM TypeCorrect == Spec => []TypeOK
<1>1. IInv => TypeOK
  BY DEF IInv
<1> QED
  BY <1>1, Invariance, PTL

\* A row marked published is in its topic.
THEOREM PublishedIsSent == Spec => []PublishedReachedTopic
<1>1. IInv => PublishedReachedTopic
  BY DEF IInv
<1> QED
  BY <1>1, Invariance, PTL

\* status and retry_count agree at all times.
THEOREM BudgetIsKept == Spec => []RetryBudget
<1>1. IInv => RetryBudget
  BY DEF IInv
<1> QED
  BY <1>1, Invariance, PTL

\* No row is held by two live transactions.
THEOREM ClaimsAreExclusive == Spec => []ExclusiveClaim
<1>1. IInv => ExclusiveClaim
  BY DEF IInv
<1> QED
  BY <1>1, Invariance, PTL

\* What a commit writes to a row: an outcome for a row that was retriable until
\* then, with one more attempt on the count when the outcome is a failure.
LEMMA CommittedRow ==
    ASSUME IInv, NEW r \in Relays, Commit(r), NEW id \in Ids
    PROVE  \/ UNCHANGED <<status[id], retryCount[id]>>
           \/ /\ status[id] \in Retriable
              /\ status'[id] \in {"failed", "published", "dead_letter"}
              /\ status'[id] = "published" /\ HasTopic(id) => kafka[id] > 0
              /\ retryCount'[id] \in {retryCount[id], retryCount[id] + 1}
<1>1. CASE draft[r][id] = "none"
  BY <1>1 DEF Commit
<1>2. CASE draft[r][id] /= "none"
  <2>1. /\ status[id] \in Retriable
        /\ read[r][id] = retryCount[id]
        /\ draft[r][id] \in {"failed", "published", "dead_letter"}
        /\ draft[r][id] = "published" /\ HasTopic(id) => kafka[id] > 0
    BY <1>2
    DEF IInv, RelayOK, BatchIsSplit, BatchIsCurrent, DispatchedReachedTopic, TypeOK,
        Settled, Commit
  <2> QED
    BY <1>2, <2>1 DEF Commit
<1> QED
  BY <1>1, <1>2

\* What any step does to a row: nothing, its insertion, or a commit.
LEMMA StepOfRow ==
    ASSUME IInv, [Next]_vars, NEW id \in Ids
    PROVE  /\ status[id] \in Settled =>
                 status'[id] = status[id] /\ retryCount'[id] = retryCount[id]
           /\ retryCount'[id] \in {retryCount[id], retryCount[id] + 1}
<1>1. ASSUME NEW x \in Ids, Insert(x)
      PROVE  /\ status[id] \in Settled => status'[id] = status[id]
             /\ retryCount'[id] = retryCount[id]
  BY <1>1 DEF Insert, IInv, TypeOK, Settled
<1>2. ASSUME NEW r \in Relays, Commit(r)
      PROVE  /\ status[id] \in Settled =>
                   status'[id] = status[id] /\ retryCount'[id] = retryCount[id]
             /\ retryCount'[id] \in {retryCount[id], retryCount[id] + 1}
  BY <1>2, CommittedRow DEF Settled, Retriable
<1>3. CASE UNCHANGED <<status, retryCount>>
  BY <1>3
<1> QED
  BY <1>1, <1>2, <1>3
  DEF Next, RelayStep, Fault, Poll, NextRecord, Unsupported, PublishKafka,
      PublishRabbit, PublishDLQ, Update, RollBack, LoseTransaction, Crash, LoseAmqp,
      table, vars

\* A settled row is never written again.
THEOREM SettledStaysSettled == Spec => SettledIsFinal
<1>1. IInv /\ [Next]_vars =>
        [\A id \in Ids : status[id] \in Settled =>
            /\ status'[id] = status[id]
            /\ retryCount'[id] = retryCount[id]]_vars
  BY StepOfRow
<1> QED
  BY <1>1, Invariance, PTL DEF Spec, SettledIsFinal

\* retry_count moves by single steps, forward.
THEOREM RetriesAreCounted == Spec => RetryCountsOneByOne
<1>1. IInv /\ [Next]_vars =>
        [\A id \in Ids : retryCount'[id] \in {retryCount[id], retryCount[id] + 1}]_vars
  BY StepOfRow
<1> QED
  BY <1>1, Invariance, PTL DEF Spec, RetryCountsOneByOne

-----------------------------------------------------------------------------
(* Two more layers, which rest on IInv: dead-letter copies and topic copies.  *)

\* A relay never knows more failed attempts than were committed, and it copies a
\* row to the dead-letter topic on what it takes for the last attempt.
ReadsArePast ==
    \A r \in Relays :
        /\ \A id \in batch[r] : read[r][id] =< retryCount[id]
        /\ stage[r] = "dlq" => LastAttempt(r)

\* In this run relay r has been past the Kafka publish of row id.
Sent(r, id) == draft[r][id] /= "none" \/ (cur[r] = id /\ stage[r] /= "kafka")

\* The relay lost its transaction and may still publish row id.
Owes(r, id) == tx[r] = "lost" /\ id \in batch[r] /\ ~Sent(r, id)

\* The relay holds the row, has published it, and will write so at its commit.
Credits(r, id) == tx[r] = "open" /\ Sent(r, id)

Owing(id)  == {r \in Relays : Owes(r, id)}
Credit(id) == \E r \in Relays : Credits(r, id)

\* What pays for the copies of a row: committed attempts, faults, its success,
\* and the attempt that is about to be committed.
Written(id) == retryCount[id] + faults + (IF status[id] = "published" THEN 1 ELSE 0)
Paid(id) == Written(id) + (IF Credit(id) THEN 1 ELSE 0)

\* What is left of the payments when a call of the Writer is set aside for every
\* relay that may still publish.
Spare(id) == Paid(id) - Cardinality(Owing(id))

\* Every call there was, and every call that is still owed, is paid for; a call
\* left at most WriterAttempts copies.
CopiesPaid(id) ==
    /\ IsFiniteSet(Owing(id))
    /\ Spare(id) \in Nat
    /\ kafka[id] =< WriterAttempts * Spare(id)

CopyInv == ReadsArePast /\ DeadLetterOnlyAtTheEnd /\ \A id \in Ids : CopiesPaid(id)

\* Copies covered by some calls are covered by more of them.
LEMMA MoreCallsCover ==
    ASSUME NEW copies \in Nat, NEW n \in Nat, NEW m \in Nat,
           n =< m, copies =< WriterAttempts * n
    PROVE  copies =< WriterAttempts * m
<1>1. WriterAttempts \in Nat
  BY OutboxAssumption
<1>2. PICK d \in Nat : m = n + d
  <2>1. m - n \in Nat /\ m = n + (m - n)
    OBVIOUS
  <2> QED
    BY <2>1
<1>3. WriterAttempts * m = WriterAttempts * n + WriterAttempts * d
  BY <1>1, <1>2
<1>4. WriterAttempts * d \in Nat /\ WriterAttempts * n \in Nat /\ WriterAttempts * m \in Nat
  BY <1>1, <1>2
<1> QED
  BY <1>3, <1>4

\* One call more covers the copies it leaves.
LEMMA OneCallMore ==
    ASSUME NEW copies \in Nat, NEW more \in Nat, NEW n \in Nat, NEW m \in Nat, m = n + 1,
           copies =< WriterAttempts * n, more =< copies + WriterAttempts
    PROVE  more =< WriterAttempts * m
<1>1. WriterAttempts \in Nat /\ WriterAttempts * n \in Nat /\ WriterAttempts * m \in Nat
  BY OutboxAssumption
<1>2. WriterAttempts * m = WriterAttempts * n + WriterAttempts
  BY <1>1
<1> QED
  BY <1>1, <1>2

LEMMA PaidType ==
    ASSUME TypeOK, NEW id \in Ids
    PROVE  Written(id) \in Nat /\ Paid(id) \in Nat
<1>1. retryCount[id] \in Nat /\ faults \in Nat
  BY OutboxAssumption DEF TypeOK
<1>2. Written(id) \in Nat
  BY <1>1 DEF Written
<1> QED
  BY <1>2 DEF Paid

LEMMA PaidTypeNext ==
    ASSUME TypeOK', NEW id \in Ids
    PROVE  Written(id)' \in Nat /\ Paid(id)' \in Nat
<1>1. retryCount'[id] \in Nat /\ faults' \in Nat
  BY OutboxAssumption DEF TypeOK
<1>2. Written(id)' \in Nat
  BY <1>1 DEF Written
<1> QED
  BY <1>2 DEF Paid

\* A run has sent only rows of its batch.
LEMMA SentInBatch ==
    ASSUME IInv, NEW r \in Relays, NEW id \in Ids, Sent(r, id)
    PROVE  id \in batch[r]
BY NoRowAssumption DEF IInv, RelayOK, BatchIsSplit, Sent

\* The debts and credits of a relay that does not move are as they were.
LEMMA UntouchedDebts ==
    ASSUME NEW q \in Relays, NEW id \in Ids, Untouched(q)
    PROVE  /\ Owes(q, id)' <=> Owes(q, id)
           /\ Credits(q, id)' <=> Credits(q, id)
BY DEF Untouched, Owes, Credits, Sent

\* Nothing new is owed and nothing that paid is gone: the row stays paid for.
LEMMA StaysPaid ==
    ASSUME TypeOK, TypeOK', NEW id \in Ids, CopiesPaid(id),
           kafka'[id] = kafka[id],
           Owing(id)' \subseteq Owing(id),
           Paid(id)' >= Paid(id)
    PROVE  CopiesPaid(id)'
<1>1. /\ IsFiniteSet(Owing(id)')
      /\ Cardinality(Owing(id)') =< Cardinality(Owing(id))
      /\ Cardinality(Owing(id)') \in Nat /\ Cardinality(Owing(id)) \in Nat
  BY FS_Subset, FS_CardinalityType DEF CopiesPaid
<1>2. kafka[id] \in Nat /\ Paid(id) \in Nat /\ Paid(id)' \in Nat
  BY PaidType, PaidTypeNext DEF TypeOK
<1>3. /\ Spare(id) \in Nat /\ Spare(id)' \in Nat
      /\ Spare(id) =< Spare(id)'
      /\ kafka'[id] \in Nat /\ kafka'[id] =< WriterAttempts * Spare(id)
  BY <1>1, <1>2 DEF CopiesPaid, Spare
<1>4. kafka'[id] =< WriterAttempts * Spare(id)'
  BY <1>3, MoreCallsCover
<1> QED
  BY <1>1, <1>3, <1>4 DEF CopiesPaid

\* The same, for a step of relay r that publishes no copy of the row: the run
\* takes on no debt, and gives up its credit only against something written.
LEMMA StepStaysPaid ==
    ASSUME IInv, TypeOK', NEW r \in Relays, RelayStep(r) \/ Fault(r),
           NEW id \in Ids, CopiesPaid(id),
           kafka'[id] = kafka[id],
           Owes(r, id)' => Owes(r, id),
           Written(id)' >= Written(id),
           Credits(r, id) => Credits(r, id)' \/ Written(id)' > Written(id)
    PROVE  CopiesPaid(id)'
<1>0. TypeOK
  BY DEF IInv
<1>1. \A q \in Relays : q /= r => /\ Owes(q, id)' <=> Owes(q, id)
                                  /\ Credits(q, id)' <=> Credits(q, id)
  BY <1>0, OthersUntouched, UntouchedDebts
<1>2. Owing(id)' \subseteq Owing(id)
  BY <1>1 DEF Owing
<1>3. Written(id) \in Nat /\ Written(id)' \in Nat
  BY <1>0, PaidType, PaidTypeNext
<1>4. Credit(id) => Credit(id)' \/ Written(id)' > Written(id)
  BY <1>1 DEF Credit
<1>5. Paid(id)' >= Paid(id)
  BY <1>3, <1>4 DEF Paid
<1> QED
  BY <1>0, <1>2, <1>5, StaysPaid

\* Dispatching on after the publish, and noting the outcome, change no debt.
LEMMA WorkStaysPaid ==
    ASSUME IInv, TypeOK', NEW r \in Relays, NEW id \in Ids, CopiesPaid(id),
           \/ Poll(r) \/ NextRecord(r) \/ Unsupported(r) \/ PublishRabbit(r)
           \/ PublishDLQ(r) \/ Update(r) \/ RollBack(r) \/ LoseAmqp(r)
    PROVE  CopiesPaid(id)'
<1>0. TypeOK /\ RelayOK(r) /\ (RelayStep(r) \/ Fault(r))
  BY DEF IInv, RelayStep, Fault
<1>1. kafka'[id] = kafka[id] /\ Written(id)' = Written(id) /\ Written(id) \in Nat
  BY <1>0, PaidType
  DEF Poll, NextRecord, Unsupported, PublishRabbit, PublishDLQ, Update, RollBack,
      LoseAmqp, table, brokers, Written
<1>2. CASE Poll(r)
  <2>1. tx'[r] = "open" /\ ~Credits(r, id)
    BY <1>0, <1>2 DEF Poll, TypeOK, Credits
  <2> QED
    BY <1>0, <1>1, <2>1, StepStaysPaid DEF Owes
<1>3. CASE RollBack(r)
  <2>1. tx'[r] = "idle" /\ ~Credits(r, id)
    BY <1>0, <1>3 DEF RollBack, Forget, TypeOK, Credits
  <2> QED
    BY <1>0, <1>1, <2>1, StepStaysPaid DEF Owes
<1>4. CASE NextRecord(r) \/ Unsupported(r) \/ PublishRabbit(r) \/ PublishDLQ(r)
           \/ Update(r) \/ LoseAmqp(r)
  <2>1. tx' = tx /\ batch' = batch
    BY <1>4 DEF NextRecord, Unsupported, PublishRabbit, PublishDLQ, Update, LoseAmqp, loop
  <2>2. Sent(r, id) => Sent(r, id)'
    <3>1. CASE NextRecord(r)
      <4>1. cur[r] = NoRow /\ draft' = draft
        BY <1>0, <3>1 DEF NextRecord, RelayOK, BatchIsSplit
      <4> QED
        BY <4>1, NoRowAssumption DEF Sent
    <3>2. CASE Unsupported(r) \/ PublishRabbit(r) \/ PublishDLQ(r)
      <4>1. stage'[r] \in {"dlq", "update"} /\ draft' = draft /\ cur' = cur
        BY <1>0, <3>2
        DEF Unsupported, PublishRabbit, PublishDLQ, AfterDispatch, TypeOK
      <4> QED
        BY <4>1 DEF Sent
    <3>3. CASE Update(r)
      <4>1. Outcome(r) /= "none"
        BY DEF Outcome
      <4>2. /\ draft'[r][id] = IF id = cur[r] THEN Outcome(r) ELSE draft[r][id]
        BY <1>0, <3>3 DEF Update, TypeOK
      <4> QED
        BY <4>1, <4>2 DEF Sent
    <3>4. CASE LoseAmqp(r)
      BY <3>4 DEF LoseAmqp, loop, Sent
    <3> QED
      BY <1>4, <3>1, <3>2, <3>3, <3>4
  <2> QED
    BY <1>0, <1>1, <2>1, <2>2, StepStaysPaid DEF Owes, Credits
<1> QED
  BY <1>2, <1>3, <1>4

\* A commit turns every credit into an attempt or a success.
LEMMA CommitStaysPaid ==
    ASSUME IInv, TypeOK', NEW r \in Relays, NEW id \in Ids, CopiesPaid(id), Commit(r)
    PROVE  CopiesPaid(id)'
<1>0. TypeOK /\ RelayOK(r) /\ (RelayStep(r) \/ Fault(r))
  BY DEF IInv, RelayStep
<1>1. kafka' = kafka /\ faults' = faults /\ tx'[r] = "idle"
      /\ retryCount[id] \in Nat /\ faults \in Nat
  BY <1>0, OutboxAssumption DEF Commit, Forget, brokers, TypeOK
<1>2. CASE draft[r][id] = "none"
  <2>1. Written(id)' = Written(id) /\ Written(id) \in Nat
    BY <1>0, <1>1, <1>2, PaidType DEF Commit, Written
  <2>2. ~Credits(r, id)
    BY <1>0, <1>2, NoRowAssumption DEF Commit, Credits, Sent, RelayOK, BatchIsSplit
  <2> QED
    BY <1>0, <1>1, <2>1, <2>2, StepStaysPaid DEF Owes
<1>3. CASE draft[r][id] /= "none"
  <2>1. status[id] \in Retriable /\ read[r][id] = retryCount[id]
    BY <1>0, <1>3 DEF Commit, RelayOK, BatchIsSplit, BatchIsCurrent
  <2>2. draft[r][id] \in {"failed", "dead_letter", "published"}
    BY <1>0, <1>3 DEF TypeOK, Settled
  <2>3. /\ status'[id] = draft[r][id]
        /\ retryCount'[id] = IF draft[r][id] \in {"failed", "dead_letter"}
                             THEN read[r][id] + 1 ELSE retryCount[id]
    BY <1>3 DEF Commit
  <2>4. Written(id)' = Written(id) + 1 /\ Written(id) \in Nat
    BY <1>1, <2>1, <2>2, <2>3 DEF Written, Retriable
  <2> QED
    BY <1>0, <1>1, <2>4, StepStaysPaid DEF Owes
<1> QED
  BY <1>2, <1>3

\* A crash, or the loss of a transaction, pays for the one call it may cost.
LEMMA FaultStaysPaid ==
    ASSUME IInv, TypeOK', NEW r \in Relays, NEW id \in Ids, CopiesPaid(id),
           LoseTransaction(r) \/ Crash(r)
    PROVE  CopiesPaid(id)'
<1>0. TypeOK /\ RelayOK(r) /\ (RelayStep(r) \/ Fault(r))
  BY DEF IInv, Fault
<1>1. /\ kafka' = kafka /\ Written(id)' = Written(id) + 1
      /\ Written(id) \in Nat /\ kafka[id] \in Nat
  <2>1. kafka' = kafka /\ status' = status /\ retryCount' = retryCount /\ faults' = faults + 1
    BY DEF LoseTransaction, Crash, table, brokers
  <2>2. retryCount[id] \in Nat /\ faults \in Nat /\ kafka[id] \in Nat
    BY <1>0, OutboxAssumption DEF TypeOK
  <2> QED
    BY <2>1, <2>2 DEF Written
<1>2. CASE Crash(r)
  <2>1. tx'[r] = "idle"
    BY <1>0, <1>2 DEF Crash, Forget, TypeOK
  <2> QED
    BY <1>0, <1>1, <2>1, StepStaysPaid DEF Owes
<1>3. CASE LoseTransaction(r)
  <2>1. tx[r] = "open" /\ tx'[r] = "lost" /\ Sent(r, id)' = Sent(r, id) /\ batch' = batch
    BY <1>0, <1>3 DEF LoseTransaction, loop, TypeOK, Sent
  <2>2. CASE Sent(r, id) \/ id \notin batch[r]
    BY <1>0, <1>1, <2>1, <2>2, StepStaysPaid DEF Owes
  <2>3. CASE ~Sent(r, id) /\ id \in batch[r]
    <3>1. \A q \in Relays : q /= r => /\ Owes(q, id)' <=> Owes(q, id)
                                      /\ Credits(q, id)' <=> Credits(q, id)
      BY <1>0, OthersUntouched, UntouchedDebts
    <3>2. Owes(r, id)' /\ ~Owes(r, id) /\ ~Credits(r, id)' /\ ~Credits(r, id)
      BY <2>1, <2>3 DEF Owes, Credits
    <3>3. Owing(id)' = Owing(id) \union {r} /\ r \notin Owing(id)
      BY <3>1, <3>2 DEF Owing
    <3>4. /\ IsFiniteSet(Owing(id)') /\ IsFiniteSet(Owing(id))
          /\ Cardinality(Owing(id)') = Cardinality(Owing(id)) + 1
          /\ Cardinality(Owing(id)) \in Nat
      BY <3>3, FS_AddElement, FS_CardinalityType DEF CopiesPaid
    <3>5. Credit(id)' <=> Credit(id)
      BY <3>1, <3>2 DEF Credit
    <3>6. Paid(id)' = Paid(id) + 1 /\ Paid(id) \in Nat
      BY <1>1, <3>5 DEF Paid
    <3>7. Spare(id)' = Spare(id)
      BY <3>4, <3>6 DEF Spare
    <3> QED
      BY <1>1, <3>4, <3>7 DEF CopiesPaid
  <2> QED
    BY <2>2, <2>3
<1> QED
  BY <1>2, <1>3

\* The copies of one call are covered once there is one payment more.
LEMMA OneMoreIsPaid ==
    ASSUME NEW id \in Ids, CopiesPaid(id), IsFiniteSet(Owing(id)'),
           kafka[id] \in Nat, kafka'[id] \in Nat,
           kafka'[id] =< kafka[id] + WriterAttempts,
           Spare(id)' = Spare(id) + 1
    PROVE  CopiesPaid(id)'
<1>1. /\ Spare(id) \in Nat /\ Spare(id)' \in Nat
      /\ kafka[id] =< WriterAttempts * Spare(id)
  BY DEF CopiesPaid
<1>2. kafka'[id] =< WriterAttempts * Spare(id)'
  BY <1>1, OneCallMore
<1> QED
  BY <1>1, <1>2 DEF CopiesPaid

\* A call of the Writer is set against the credit of a live run or the debt of a
\* lost one.
LEMMA PublishStaysPaid ==
    ASSUME IInv, TypeOK', NEW r \in Relays, NEW id \in Ids, CopiesPaid(id), PublishKafka(r)
    PROVE  CopiesPaid(id)'
<1>0. TypeOK /\ RelayOK(r) /\ (RelayStep(r) \/ Fault(r))
  BY DEF IInv, RelayStep
<1>1. /\ cur[r] \in Ids /\ cur[r] \in batch[r]
      /\ tx' = tx /\ batch' = batch /\ draft' = draft /\ cur' = cur
      /\ stage[r] = "kafka" /\ stage'[r] \in {"rabbit", "dlq", "update"}
  BY <1>0, AtRecord DEF PublishKafka, AfterDispatch, TypeOK
<1>2. /\ Written(id)' = Written(id) /\ Written(id) \in Nat
      /\ kafka[id] \in Nat /\ kafka'[id] \in Nat
  BY <1>0, PaidType DEF PublishKafka, table, Written, TypeOK
<1>3. Sent(r, id)' <=> Sent(r, id) \/ cur[r] = id
  BY <1>1 DEF Sent
<1>4. CASE cur[r] /= id
  <2>1. PICK n \in Nat : kafka' = [kafka EXCEPT ![cur[r]] = @ + n]
    BY PublishAppends
  <2>2. kafka'[id] = kafka[id]
    BY <1>0, <1>1, <1>4, <2>1 DEF TypeOK
  <2> QED
    BY <1>0, <1>1, <1>2, <1>3, <1>4, <2>2, StepStaysPaid DEF Owes, Credits
<1>5. CASE cur[r] = id
  <2>1. kafka'[id] =< kafka[id] + WriterAttempts /\ kafka'[id] \in Nat
    <3>1. PICK n \in Nat : n =< WriterAttempts /\ kafka' = [kafka EXCEPT ![cur[r]] = @ + n]
      BY PublishAppends
    <3>2. kafka'[id] = kafka[id] + n
      BY <1>0, <1>2, <1>5, <3>1 DEF TypeOK
    <3> QED
      BY <1>2, <3>1, <3>2, OutboxAssumption
  <2>2. ~Sent(r, id) /\ Sent(r, id)'
    BY <1>0, <1>1, <1>3, <1>5 DEF RelayOK, BatchIsSplit, Sent
  <2>3. \A q \in Relays : q /= r => /\ Owes(q, id)' <=> Owes(q, id)
                                    /\ Credits(q, id)' <=> Credits(q, id)
    BY <1>0, OthersUntouched, UntouchedDebts
  <2>4. tx[r] \in {"open", "lost"}
    BY <1>0, <1>1 DEF RelayOK, IdleIsEmpty, TypeOK
  <2>5. CASE tx[r] = "open"
    <3>1. ~Credit(id)
      <4>1. ASSUME NEW q \in Relays, Credits(q, id), q /= r PROVE FALSE
        BY <1>1, <1>5, <2>5, <4>1, SentInBatch DEF Credits, IInv, ExclusiveClaim
      <4> QED
        BY <2>2, <4>1 DEF Credit, Credits
    <3>2. Credit(id)'
      BY <1>1, <2>2, <2>5 DEF Credit, Credits
    <3>3. Owing(id)' = Owing(id)
      BY <1>1, <2>3, <2>5 DEF Owing, Owes
    <3>4. Paid(id)' = Paid(id) + 1 /\ Paid(id) \in Nat
      BY <1>2, <3>1, <3>2 DEF Paid
    <3>5. Cardinality(Owing(id)) \in Nat
      BY FS_CardinalityType DEF CopiesPaid
    <3>6. Spare(id)' = Spare(id) + 1 /\ IsFiniteSet(Owing(id)')
      BY <3>3, <3>4, <3>5 DEF Spare, CopiesPaid
    <3> QED
      BY <1>2, <2>1, <3>6, OneMoreIsPaid
  <2>6. CASE tx[r] = "lost"
    <3>1. Owing(id)' = Owing(id) \ {r} /\ r \in Owing(id)
      BY <1>1, <1>5, <2>2, <2>3, <2>6 DEF Owing, Owes
    <3>2. Credit(id)' <=> Credit(id)
      BY <1>1, <2>3, <2>6 DEF Credit, Credits
    <3>3. Paid(id)' = Paid(id) /\ Paid(id) \in Nat
      BY <1>2, <3>2 DEF Paid
    <3>4. /\ IsFiniteSet(Owing(id)')
          /\ Cardinality(Owing(id)') = Cardinality(Owing(id)) - 1
          /\ Cardinality(Owing(id)) \in Nat
      BY <3>1, FS_RemoveElement, FS_CardinalityType DEF CopiesPaid
    <3>5. Spare(id)' = Spare(id) + 1
      BY <3>3, <3>4 DEF Spare
    <3> QED
      BY <1>2, <2>1, <3>4, <3>5, OneMoreIsPaid
  <2> QED
    BY <2>4, <2>5, <2>6
<1> QED
  BY <1>4, <1>5

LEMMA StepCopies ==
    ASSUME IInv, TypeOK', [Next]_vars, NEW id \in Ids, CopiesPaid(id)
    PROVE  CopiesPaid(id)'
<1>0. TypeOK
  BY DEF IInv
<1>1. ASSUME NEW x \in Ids, Insert(x) PROVE CopiesPaid(id)'
  <2>1. kafka' = kafka /\ \A q \in Relays : Untouched(q)
    BY <1>1 DEF Insert, brokers, loop, Untouched
  <2>2. Owing(id)' = Owing(id) /\ (Credit(id)' <=> Credit(id))
    BY <2>1, UntouchedDebts DEF Owing, Credit
  <2>3. Written(id)' = Written(id)
    BY <1>0, <1>1 DEF Insert, TypeOK, Written
  <2>4. Paid(id)' = Paid(id) /\ Paid(id) \in Nat
    BY <1>0, <2>2, <2>3, PaidType DEF Paid
  <2> QED
    BY <1>0, <2>1, <2>2, <2>4, StaysPaid
<1>2. CASE UNCHANGED vars
  <2>1. \A q \in Relays : Untouched(q)
    BY <1>2 DEF vars, loop, Untouched
  <2>2. Owing(id)' = Owing(id) /\ (Credit(id)' <=> Credit(id))
    BY <2>1, UntouchedDebts DEF Owing, Credit
  <2> QED
    BY <1>2, <2>2 DEF vars, table, brokers, CopiesPaid, Spare, Paid, Written
<1> QED
  BY <1>1, <1>2, WorkStaysPaid, CommitStaysPaid, FaultStaysPaid, PublishStaysPaid
  DEF Next, RelayStep, Fault

-----------------------------------------------------------------------------
(* What a relay read is past, and the dead-letter topic is the last stop.    *)

LEMMA StepReads ==
    ASSUME IInv, TypeOK', [Next]_vars, ReadsArePast
    PROVE  ReadsArePast'
<1>0. TypeOK /\ \A id \in Ids : retryCount[id] \in Nat /\ retryCount'[id] >= retryCount[id]
                                /\ retryCount'[id] \in Nat
  <2>1. TypeOK /\ \A id \in Ids : retryCount[id] \in Nat
    BY OutboxAssumption DEF IInv, TypeOK
  <2> QED
    BY <2>1, StepOfRow
<1> SUFFICES ASSUME NEW r \in Relays
             PROVE  /\ \A id \in batch'[r] : read'[r][id] =< retryCount'[id]
                    /\ stage'[r] = "dlq" => LastAttempt(r)'
  BY DEF ReadsArePast
<1>1. /\ \A id \in batch[r] : read[r][id] =< retryCount[id] /\ read[r][id] \in Nat /\ id \in Ids
      /\ stage[r] = "dlq" => LastAttempt(r)
  BY <1>0, OutboxAssumption DEF ReadsArePast, TypeOK
<1>15. \A id \in batch[r] : read[r][id] =< retryCount'[id]
  <2> SUFFICES ASSUME NEW id \in batch[r] PROVE read[r][id] =< retryCount'[id]
    OBVIOUS
  <2>1. /\ retryCount[id] \in Nat /\ retryCount'[id] \in Nat /\ read[r][id] \in Nat
        /\ read[r][id] =< retryCount[id] /\ retryCount'[id] >= retryCount[id]
    BY <1>0, <1>1
  <2> QED
    BY <2>1
<1>2. CASE Untouched(r)
  BY <1>1, <1>15, <1>2 DEF Untouched, LastAttempt
<1>3. CASE Poll(r)
  <2>1. PICK B \in Selection(Claimable) :
           /\ batch' = [batch EXCEPT ![r] = B]
           /\ todo'  = [todo EXCEPT ![r] = B]
           /\ read'  = [read EXCEPT ![r] =
                          [id \in Ids |-> IF id \in B THEN retryCount[id] ELSE 0]]
    BY <1>3 DEF Poll
  <2>2. B \subseteq Ids
    BY DEF Selection, Claimable
  <2>3. batch'[r] = B /\ \A id \in B : read'[r][id] = retryCount[id]
    BY <1>0, <2>1, <2>2 DEF TypeOK
  <2>4. stage' = stage /\ cur' = cur /\ stage[r] = "next"
    BY <1>3 DEF Poll, IInv, RelayOK, IdleIsEmpty, BatchIsSplit
  <2> QED
    BY <1>0, <2>2, <2>3, <2>4
<1>4. CASE Forget(r)
  BY <1>0, <1>4 DEF Forget, TypeOK
<1>5. CASE /\ batch' = batch /\ read' = read
           /\ (cur'[r] = cur[r] /\ stage'[r] = stage[r]) \/ stage'[r] /= "dlq"
  BY <1>1, <1>15, <1>5 DEF LastAttempt
<1>6. CASE batch' = batch /\ read' = read /\ cur' = cur /\ \E f \in BOOLEAN : AfterDispatch(r, f)
  <2>1. stage'[r] = "dlq" => LastAttempt(r)
    BY <1>0, <1>6 DEF AfterDispatch, TypeOK
  <2> QED
    BY <1>15, <1>6, <2>1 DEF LastAttempt
<1>7. CASE UNCHANGED vars
  BY <1>2, <1>7 DEF vars, loop, Untouched
<1>8. ASSUME NEW x \in Ids, Insert(x) PROVE Untouched(r)
  BY <1>8 DEF Insert, loop, Untouched
<1>9. ASSUME NEW q \in Relays, q /= r, RelayStep(q) \/ Fault(q) PROVE Untouched(r)
  BY <1>0, <1>9, OthersUntouched
<1>10. CASE Commit(r) \/ RollBack(r) \/ Crash(r)
  BY <1>4, <1>10 DEF Commit, RollBack, Crash
<1>11. CASE Unsupported(r) \/ PublishRabbit(r)
  BY <1>6, <1>11 DEF Unsupported, PublishRabbit
<1>12. CASE PublishKafka(r)
  <2>1. batch' = batch /\ read' = read /\ cur' = cur
    BY <1>12 DEF PublishKafka
  <2>2. CASE \E f \in BOOLEAN : AfterDispatch(r, f)
    BY <1>6, <2>1, <2>2
  <2>3. CASE stage' = [stage EXCEPT ![r] = "rabbit"]
    BY <1>0, <1>5, <2>1, <2>3 DEF TypeOK
  <2> QED
    BY <1>12, <2>2, <2>3 DEF PublishKafka
<1>13. CASE NextRecord(r)
  <2>1. batch' = batch /\ read' = read /\ stage'[r] /= "dlq"
    BY <1>0, <1>13 DEF NextRecord, FirstStage, TypeOK
  <2> QED
    BY <1>5, <2>1
<1>14. CASE PublishDLQ(r) \/ Update(r) \/ LoseTransaction(r) \/ LoseAmqp(r)
  <2>1. /\ batch' = batch /\ read' = read
        /\ (cur'[r] = cur[r] /\ stage'[r] = stage[r]) \/ stage'[r] /= "dlq"
    BY <1>0, <1>14 DEF PublishDLQ, Update, LoseTransaction, LoseAmqp, loop, TypeOK
  <2> QED
    BY <1>5, <2>1
<1> QED
  BY <1>2, <1>3, <1>7, <1>8, <1>9, <1>10, <1>11, <1>12, <1>13, <1>14
  DEF Next, RelayStep, Fault

LEMMA StepDeadLetterTopic ==
    ASSUME IInv, TypeOK', [Next]_vars, ReadsArePast, DeadLetterOnlyAtTheEnd
    PROVE  DeadLetterOnlyAtTheEnd'
<1>0. TypeOK /\ \A id \in Ids : retryCount[id] \in Nat /\ retryCount'[id] >= retryCount[id]
                                /\ retryCount'[id] \in Nat
  <2>1. TypeOK /\ \A id \in Ids : retryCount[id] \in Nat
    BY OutboxAssumption DEF IInv, TypeOK
  <2> QED
    BY <2>1, StepOfRow
<1> SUFFICES ASSUME NEW id \in Ids, id \in dlq' PROVE retryCount'[id] + 1 >= MaxRetries
  BY DEF DeadLetterOnlyAtTheEnd, TypeOK
<1>1. CASE id \in dlq
  BY <1>0, <1>1, OutboxAssumption DEF TypeOK, DeadLetterOnlyAtTheEnd
<1>2. ASSUME NEW r \in Relays, PublishDLQ(r) PROVE retryCount'[id] + 1 >= MaxRetries
  <2>1. cur[r] \in Ids /\ cur[r] \in batch[r] /\ LastAttempt(r)
    BY <1>2, AtRecord DEF PublishDLQ, ReadsArePast
  <2>2. CASE id = cur[r]
    <3>1. /\ read[r][id] + 1 >= MaxRetries /\ read[r][id] =< retryCount[id]
          /\ read[r][id] \in Nat
      BY <1>0, <2>1, <2>2, OutboxAssumption DEF LastAttempt, ReadsArePast, TypeOK
    <3> QED
      BY <1>0, <3>1, OutboxAssumption
  <2>3. CASE id /= cur[r]
    BY <1>1, <1>2, <2>3 DEF PublishDLQ
  <2> QED
    BY <2>2, <2>3
<1>3. CASE UNCHANGED dlq
  BY <1>1, <1>3
<1> QED
  BY <1>2, <1>3
  DEF Next, RelayStep, Fault, Insert, Poll, NextRecord, Unsupported, PublishKafka,
      PublishRabbit, Update, Commit, RollBack, LoseTransaction, Crash, LoseAmqp,
      brokers, vars

LEMMA InitCopies == Init => CopyInv
<1> SUFFICES ASSUME Init PROVE CopyInv
  OBVIOUS
<1>1. ReadsArePast /\ DeadLetterOnlyAtTheEnd
  BY DEF Init, ReadsArePast, DeadLetterOnlyAtTheEnd
<1>2. ASSUME NEW id \in Ids PROVE CopiesPaid(id)
  <2>1. Owing(id) = {}
    BY DEF Init, Owing, Owes
  <2>2. IsFiniteSet(Owing(id)) /\ Cardinality(Owing(id)) = 0
    BY <2>1, FS_EmptySet
  <2>3. kafka[id] = 0 /\ Paid(id) \in Nat
    BY DEF Init, Paid, Written
  <2>4. Spare(id) \in Nat /\ WriterAttempts * Spare(id) \in Nat
    BY <2>2, <2>3, OutboxAssumption DEF Spare
  <2> QED
    BY <2>2, <2>3, <2>4 DEF CopiesPaid
<1> QED
  BY <1>1, <1>2 DEF CopyInv

\* Reads are past, dead letters are last and copies are paid, all along.
THEOREM CopiesInvariance == Spec => []CopyInv
<1>1. IInv /\ IInv' /\ [Next]_vars /\ CopyInv => CopyInv'
  <2> SUFFICES ASSUME IInv, IInv', [Next]_vars, CopyInv PROVE CopyInv'
    OBVIOUS
  <2>1. TypeOK'
    BY DEF IInv
  <2> QED
    BY <2>1, StepReads, StepDeadLetterTopic, StepCopies DEF CopyInv
<1> QED
  BY <1>1, InitCopies, Invariance, PTL DEF Spec

\* The dead-letter topic holds rows in their last attempt and beyond only.
THEOREM DeadLettersAreLast == Spec => []DeadLetterOnlyAtTheEnd
<1>1. CopyInv => DeadLetterOnlyAtTheEnd
  BY DEF CopyInv
<1> QED
  BY <1>1, CopiesInvariance, PTL

\* A row at rest has the copies of one call for each failed attempt, its success
\* and each fault.
THEOREM DuplicatesArePaid == Spec => []DuplicatesAccounted
<1>1. IInv /\ CopyInv => DuplicatesAccounted
  <2> SUFFICES ASSUME IInv, CopyInv, NEW id \in Ids, \A r \in Relays : id \notin batch[r]
               PROVE  kafka[id] =< WriterAttempts * Written(id)
    BY DEF DuplicatesAccounted, Written
  <2>1. Owing(id) = {} /\ ~Credit(id)
    BY SentInBatch DEF Owing, Owes, Credit, Credits
  <2>2. Cardinality(Owing(id)) = 0
    BY <2>1, FS_EmptySet
  <2>3. Spare(id) = Written(id)
    BY <2>1, <2>2, PaidType DEF Spare, Paid, IInv
  <2> QED
    BY <2>3 DEF CopyInv, CopiesPaid
<1> QED
  BY <1>1, CopiesInvariance, Invariance, PTL

-----------------------------------------------------------------------------
(* The relays keep the contract.                                             *)
LEMMA PromiseCases ==
    /\ Promise("absent") = "absent"
    /\ Promise("pending") = "accepted"
    /\ Promise("failed") = "accepted"
    /\ Promise("published") = "delivered"
    /\ Promise("dead_letter") = "given_up"
BY DEF Promise, Retriable

\* Every step is a step of the contract or changes nothing it speaks of.
THEOREM RelaysKeepContract == Spec => KeepsContract
<1> DEFINE st == [id \in Ids |-> Promise(status[id])]
           hd == {id \in Ids : kafka[id] > 0}
           Streamed == {id \in Ids : HasTopic(id)}
<1>1. Init => Contract!Init
  BY PromiseCases DEF Init, Contract!Init
<1>2. IInv /\ [Next]_vars => [Contract!Next]_<<st, hd>>
  <2> SUFFICES ASSUME IInv, [Next]_vars PROVE Contract!Next \/ (st' = st /\ hd' = hd)
    OBVIOUS
  <2>0. TypeOK
    BY DEF IInv
  <2>1. ASSUME NEW x \in Ids, Insert(x) PROVE Contract!Accept(x)
    <3>1. status[x] = "absent" /\ status' = [status EXCEPT ![x] = "pending"] /\ hd' = hd
      BY <2>1 DEF Insert, brokers
    <3>2. st' = [st EXCEPT ![x] = "accepted"]
      BY <2>0, <3>1, PromiseCases DEF TypeOK
    <3> QED
      BY <3>1, <3>2, PromiseCases DEF Contract!Accept
  <2>2. ASSUME NEW r \in Relays, PublishKafka(r)
        PROVE  (\E id \in Ids : Contract!HandOver(id)) \/ (st' = st /\ hd' = hd)
    <3>0. /\ cur[r] \in Ids /\ cur[r] \in batch[r]
          /\ kafka \in [Ids -> Nat] /\ status' = status
      BY <2>0, <2>2, AtRecord DEF PublishKafka, TypeOK, table
    <3>1. HasTopic(cur[r])
      BY <2>2 DEF IInv, KafkaHasTopic, PublishKafka
    <3>2. st[cur[r]] /= "absent"
      <4>1. status[cur[r]] \in {"pending", "failed", "published", "dead_letter"}
        BY <2>0, <3>0 DEF IInv, RelayOK, BatchIsRetriable, TypeOK, Retriable, Settled
      <4> QED
        BY <3>0, <4>1, PromiseCases
    <3>3. ASSUME NEW n \in Nat, kafka' = [kafka EXCEPT ![cur[r]] = @ + n]
          PROVE  hd' = hd \/ hd' = hd \union {cur[r]}
      <4>1. \A id \in Ids \ {cur[r]} : kafka'[id] = kafka[id]
        BY <3>0, <3>3
      <4>2. kafka'[cur[r]] = kafka[cur[r]] + n /\ kafka[cur[r]] \in Nat
        BY <3>0, <3>3
      <4>3. CASE n = 0
        BY <4>1, <4>2, <4>3
      <4>4. CASE n > 0
        BY <3>0, <4>1, <4>2, <4>4
      <4> QED
        BY <4>3, <4>4
    <3>4. \E n \in Nat : kafka' = [kafka EXCEPT ![cur[r]] = @ + n]
      BY <2>2, PublishAppends
    <3>5. hd' = hd \/ hd' = hd \union {cur[r]}
      <4> HIDE DEF hd
      <4> QED
        BY <3>3, <3>4
    <3>6. st' = st /\ cur[r] \in Streamed
      BY <3>0, <3>1
    <3>7. ASSUME hd' = hd \union {cur[r]} PROVE \E id \in Ids : Contract!HandOver(id)
      <4>1. PICK c \in Ids : c = cur[r]
        BY <3>0
      <4>2. Contract!HandOver(c)
        BY <3>2, <3>6, <3>7, <4>1 DEF Contract!HandOver
      <4> QED
        BY <4>2
    <3> QED
      BY <3>5, <3>6, <3>7
  <2>3. ASSUME NEW r \in Relays, Commit(r)
        PROVE  \E D, G \in SUBSET Ids : Contract!Settle(D, G)
    <3> DEFINE D == {id \in Ids : draft[r][id] = "published"}
               G == {id \in Ids : draft[r][id] = "dead_letter"}
    <3>1. \A id \in D \union G : st[id] = "accepted"
      <4>1. \A id \in D \union G : status[id] \in Retriable
        BY <2>3 DEF IInv, RelayOK, BatchIsSplit, BatchIsCurrent, Commit
      <4> QED
        BY <4>1, PromiseCases DEF Retriable
    <3>2. D \intersect G = {} /\ D \in SUBSET Ids /\ G \in SUBSET Ids
      OBVIOUS
    <3>3. D \intersect Streamed \subseteq hd
      BY DEF IInv, RelayOK, DispatchedReachedTopic
    <3>4. st' = [id \in Ids |-> CASE id \in D -> "delivered"
                                  [] id \in G -> "given_up"
                                  [] OTHER    -> st[id]]
      <4>1. ASSUME NEW id \in Ids
            PROVE  Promise(status'[id]) = CASE id \in D -> "delivered"
                                            [] id \in G -> "given_up"
                                            [] OTHER    -> st[id]
        <5>1. CASE draft[r][id] = "none"
          BY <2>3, <5>1 DEF Commit
        <5>2. CASE draft[r][id] = "failed"
          <6>1. status'[id] = "failed" /\ status[id] \in Retriable
            BY <2>3, <5>2 DEF Commit, IInv, RelayOK, BatchIsSplit, BatchIsCurrent
          <6> QED
            BY <5>2, <6>1, PromiseCases DEF Retriable
        <5>3. CASE draft[r][id] \in Settled
          BY <2>3, <5>3, PromiseCases DEF Commit, Settled
        <5> QED
          BY <2>0, <5>1, <5>2, <5>3 DEF TypeOK
      <4> QED
        BY <4>1
    <3>5. hd' = hd
      BY <2>3 DEF Commit, brokers
    <3> QED
      BY <3>1, <3>2, <3>3, <3>4, <3>5 DEF Contract!Settle
  <2>4. CASE UNCHANGED <<status, kafka>>
    BY <2>4
  <2>5. ASSUME NEW x \in Ids, Insert(x) PROVE Contract!Next
    BY <2>1, <2>5 DEF Contract!Next
  <2>6. ASSUME NEW r \in Relays, PublishKafka(r)
        PROVE  Contract!Next \/ (st' = st /\ hd' = hd)
    <3>1. CASE \E id \in Ids : Contract!HandOver(id)
      BY <3>1 DEF Contract!Next
    <3> QED
      BY <2>2, <2>6, <3>1
  <2>7. ASSUME NEW r \in Relays, Commit(r) PROVE Contract!Next
    BY <2>3, <2>7 DEF Contract!Next
  <2>8. \/ \E x \in Ids : Insert(x)
        \/ \E r \in Relays : PublishKafka(r) \/ Commit(r)
        \/ UNCHANGED <<status, kafka>>
    BY DEF Next, RelayStep, Fault, Poll, NextRecord, Unsupported, PublishRabbit,
           PublishDLQ, Update, RollBack, LoseTransaction, Crash, LoseAmqp, table,
           brokers, vars
  <2> QED
    BY <2>4, <2>5, <2>6, <2>7, <2>8
<1> QED
  BY <1>1, <1>2, Invariance, PTL DEF Spec, KeepsContract, Contract!Safety
=============================================================================
