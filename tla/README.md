# A verification project for CloudNative Job Finder

CloudNative Job Finder is a set of Go services (and a Python resume parser) that share
one PostgreSQL database and talk over HTTP, Kafka and RabbitMQ. This directory holds TLA+
models of its core, the TLC configurations that check them on small instances and TLAPS
proofs of their main properties for instances of every size. Paths are relative to the
repository, here `src/`.

- [The system](#the-system): components, state, interactions, what is hard
- [The modules](#the-modules): what each one models, and how it corresponds to the code
- [The runs](#the-runs): questions, bounds, fairness, results
- [The proofs](#the-proofs)
- [Disagreements between documents and code](#disagreements-between-documents-and-code)
- [What is not modelled](#what-is-not-modelled) and [what is left](#what-is-left)

## The system

A resume travels `resume-service` -> (`resume_uploaded`) -> `resume-parser` -> HTTP PUT to
`resume-service` -> (`resume_parsed`) -> `job-matcher` -> (`job_matches_generated`) ->
`scheduler` (mail). A job travels `job-scraper` -> (`job_scraped`) -> `job-processor` ->
(`job_indexed`) -> `job-matcher`. Reads of recommendations go through a Redis cache;
clicks come back as `user_interaction` and become features that the matcher reads.
All events but `user_interaction` and `user_features_updated` are inserted in the table
`outbox` and published by `outbox-relay`, to Kafka when the type has a topic and, by
default, to RabbitMQ too. Services run as one container each and are restarted when they
exit. There are no distributed transactions: every statement outside the relay's batch
and the matcher's rewrite commits on its own.

| Component | State | Operations | Hard part | Correct when |
|---|---|---|---|---|
| outbox + relay (`shared/outbox`, `services/outbox-relay`) | table `outbox`; per relay a transaction, a batch, one AMQP connection | Insert; RunOnce = poll, dispatch, update, commit | concurrent relays, crash or lost transaction mid-batch, publishes that leave several copies or fail after one, retry budget | a published row is in its topic; settled rows stay; every row settles; duplicates have a cause |
| Kafka client, `shared/idempotency` | committed offset, `processed_events` | Subscribe, consume loop, MarkIfNew, DLQ | repeated messages, rebalances, crashes between mark, work and commit | work at most once; no event lost without a known cause |
| job-matcher | `resume_job_matches`, mutex `app.mu`, `pipeline_states`, connections held | match one resume, match all | HTTP runs beside event runs, row locks, deadlocks, stale reads, a run that holds one connection and needs another | the last ranking is stored whole; nothing leaks; runs end |
| `shared/workflow` | `pipeline_states` | UpsertState, MarkFailure | several services write one row in any order; the counter is never reset | matched means that matches are stored; dead_letter is reached by real failures only |
| RabbitMQ client (`shared/queue`) | queues, unacknowledged messages | Publish, Subscribe | no confirms, transient messages, nack drops, no reconnection | a message is handled, known to be dropped, or gone with a broker or connection that failed |
| resume-service, resume-parser | `resumes`, MinIO objects | upload, list, delete, parsed update, parse | several stores without a transaction; delete during parsing | no row without object; a deleted resume leaves nothing; uploads get parsed, deleted, or lost in a known way |
| job-scraper, job-processor | `jobs`, Meilisearch index | scrape and upsert, process, reindex | lost updates between them; partial failures | keywords fit the text; sequential use is exact; one transport may fail |
| feature-aggregator | `user_job_features` | aggregate one interaction | counters and ratios in two statements | nothing counted twice; losses have a cause; ratios fit the counters |
| recommendation-service | Redis pages | read a page | cache filled from data older than the invalidation | staleness, also of a page cut short, bounded by the TTL and one request |
| scheduler | cron entries | scrape, match all, weekly mail, match mail | repeated announcements on two transports, overlapping runs, client timeouts | every mail is accounted for; silence means that each transport gave up or lost its loop |
| user-service, api-gateway, `shared/auth` | `users`, signed tokens | signup, login, profile, proxy | unique mail under concurrency, token of a user that changed | one account per address; a token leads to its own account |
| `shared/text`, `shared/bm25`, `shared/utils` | none | tokenise, rank, paginate | boundaries, ties | agree with their definitions |
| `shared/db` | pool of 20 connections | acquire, release | a run that holds one connection needs more | runs do not wait for each other for ever |

Interactions that matter: services -> outbox (INSERT in its own transaction, *not* in that
of the business write), outbox -> brokers (relay), brokers -> consumers, consumers ->
tables of others, scheduler -> matcher and scraper over HTTP, and everything through the
one database. `PROJECT.json` lists the hazards line by line with the properties that
watch them.

## The modules

| Module | Models | Uses |
|---|---|---|
| `Events` | event types, topics, outbox states (`shared/events/events.go`) | |
| `OutboxContract` | what the outbox promises: accepted, handed over, settled once | |
| `OutboxRelay` | `shared/outbox/outbox.go`, `services/outbox-relay` | `Events`; refines `OutboxContract` |
| `StreamConsumer` | `shared/stream/kafka.go`, `shared/idempotency` | |
| `QueueConsumer` | Subscribe of `shared/queue/rabbitmq.go`, the parser's connection loop | |
| `Workflow` | the two statements of `shared/workflow/workflow.go`, as operators | |
| `ResumeLifecycle` | one resume through `resume-service`, `resume-parser`, `job-matcher`, `recommendation-service` | `Workflow` |
| `JobIngestion` | one job through `job-scraper`, the relay and `job-processor` | |
| `MatchContract` | what the matcher promises to readers: a table replaced as a whole | |
| `MatchStore` | `services/job-matcher` on one resume, at row locks | `Workflow`; refines `MatchContract` |
| `MatchSweeps` | `matchAllResumes` over all resumes, `shared/db` pool, the triggers of `scheduler` | |
| `FeatureAggregator` | `services/feature-aggregator`, the gateway's handleTrackInteraction | |
| `RecommendationCache` | handleRecommendations with Redis and the gateway's timeout | |
| `Alerts` | the announcements `scheduler` mails, `shared/email` | |
| `Accounts` | `services/user-service`, the gateway's account routes and middleware, `shared/auth` | |
| `Ranking` | `shared/text`, the pure functions of `matching.go`, ParsePagination | |
| `OutboxRelayProofs`, `StreamConsumerProofs`, `QueueConsumerProofs`, `ResumeLifecycleProofs`, `JobIngestionProofs`, `FeatureAggregatorProofs` | theorems | each extends its component |
| `JobMatcherProofs` | theorems | extends `MatchStore`, `MatchSweeps`, `Ranking` |
| `UserFacingProofs` | theorems | extends `Alerts`, `Accounts`, `RecommendationCache` |
| `MC...` | model values, symmetry and tables for TLC | extend their component |

Operators named after another one and described as its *mutant* are deliberate errors
(a dropped lock, an off-by-one); nothing uses them. They document what each property is
able to notice: putting a mutant in the place of its original makes TLC find the property
violated. The map in `PROJECT.json` gives the lines of each definition.

In every module a step is a statement, a remote call or a broker's move, so that handlers
interleave wherever the code has an await or lets go of a lock. A call that fails may or
may not have had its effect. `faults` (`disruptions`, `userFaults`, `pageFaults`) counts
failed calls, crashes and lost connections up to a bound; what follows a fault is free.

**OutboxRelay.** `status`, `retryCount`, `createdAt` are the committed columns of the
table; what the open transaction of relay `r` has written is `draft[r]`, what its SELECT
returned is `batch[r]` and `read[r]`. The loop of `RunOnce` is split at every remote call:
`Poll` (Begin and the locking SELECT), `NextRecord`, `PublishKafka`, `PublishRabbit`,
`Unsupported` (the three outcomes of `dispatch`), `PublishDLQ`, `Update`, `Commit`.
`stage[r]` is the program counter. Row locks are not a variable of their own: a row is
locked while an open transaction has it in its batch. `tx[r] = "lost"` is a transaction
the server has dropped and the relay has not noticed: its locks are gone, the relay
publishes on until its next statement fails (`RollBack`). kafka-go repeats a write
inside one `WriteMessages` when the acknowledgement is late, without idempotence: a Kafka
publish that succeeds leaves one to `WriterAttempts` copies, one that fails up to as many.
A RabbitMQ publish that succeeds may have left no copy (no confirms). Relays of
`Mirror` have the RabbitMQ mirror on. `Crash` is the death and restart of the process,
`LoseAmqp` the end of its only AMQP connection.
`ORDER BY created_at LIMIT n` is `Selection`, where ties fall either way.

**OutboxContract.** The promise without mechanism. The mapping sends pending and failed to
accepted, published to delivered, dead_letter to given up, and a non-zero number of copies
to handed over.

**StreamConsumer.** One partition (`log`), one committed offset, group members with a
fetch position and a loop phase. `Assign` gives the partition to a member while its
previous owner may still believe it has it; `Mark` is MarkIfNew, whose INSERT may take
effect although the call returns an error; `Work` is the handler's own work, which may fail
half done. `PublishDLQ` may fail, and the offset is committed in any case. `LoopExits` is
the return of `consumeLoop` on a deadline or cancellation error. `interrupted` and
`unparked` are history: they record the two ways an event is given up.

**QueueConsumer.** One queue. `Publish` is not mandatory, so a message goes to `unrouted`
before the first `Subscribe` has bound the queue. `Push` is the broker's delivery within
the prefetch count into a consumer's buffer, `Take`, `Handle` and `Settle` the loop body,
with ack after success and a nack that drops after an error. `LoseConnection` closes the
channel and requeues what was unacknowledged; the loop notices at its next read (`Gone`) and, in
the Go services, has then `stopped` for good. Consumers in `Reconnecting` connect again by
themselves, as `run_consumer_forever` does; `Restart` is the container's restart.
`Publish` sets no DeliveryMode, so that `RestartBroker` brings the durable queue back
without its messages; those, and what a breaking connection of the publisher takes along,
have `perished`.

**ResumeLifecycle.** One process per handler (`pc`), one step per statement: `PutObject`,
`InsertRow`, `MarkUploaded`, `EnqueueUploaded` of handleUpload; `TakeUpload`, `SendParsed`,
`TakeAnswer` of the parser; `UpdateParsed`, `EnqueueParsed`, `MarkParsed` of
handleUpdateParsed, once per PUT request under way; `TakeParsed`, `MarkProcessed`,
`ReadResume`, `StoreMatches`, `Announce`, `EndRun` of a run; `Select` of the sweep;
`ReadPage`, `MarkRecommended` of a reader; `DeleteRow`, `RemoveObject` of handleDelete, with
the cascading foreign keys. The parser may time out (`PutTimesOut`) while its request is
still being served, and die before it acknowledges (`ParserDies`), so that a message is
parsed again beside an older request. Between outbox and handler an event may be repeated
(`Deliver`, whose attempt may fail half-way), given up or lost without a queue (`Loses`),
or forgotten by RabbitMQ (`BrokerRestarts`, `ParserDies`); `fate` records what became of
`resume_uploaded`, which travels over RabbitMQ alone. `FirstJob` is the first row of
`jobs`, without which a run ends well and stores nothing. The file is assumed to yield keywords: a resume without text gets an
empty list, which the sweep skips.

**JobIngestion.** Versions stand for the text of a posting. Scrapes (`FetchJob`,
`UpsertJob`, `EnqueueScraped`, `EndScrape`), the processJobs of both consumers and of
handleReindex (`ReadJob`, `UpdateJob`, `AddDocument`, `EnqueueIndexed`), and the relay's
`Deliver` share the row, the index and the outbox with no lock. An attempt of the relay
publishes to Kafka first and to RabbitMQ after that (`Attempts`); a row may be settled
without a copy on every transport (`DeliverLosing`), RabbitMQ may forget its messages
(`BrokerRestarts`), and a consumer loop may return for good (`LoopEnds`) until the
processor is restarted (`ProcessorDies`). `lost` has the transports a message was lost on. `job` says which version
the description and the keywords are of, and whether the description was cleaned.

**MatchStore.** A `version` stands for everything a run reads; `Score[v]` is any table of
scores, `Top[v]` the ranking the code stores for it (positive scores, score descending,
ties by id, cut at the limit). A run is `Read`, `BeginDelete`, `DeleteRow` for each row of
the statement's snapshot, `InsertRow` in ranking order, `Commit`, `Enqueue`,
`MarkMatched`. `deleted` and `written` are the uncommitted changes of a worker and also
its row locks. `Apply` is PostgreSQL at READ COMMITTED: a DELETE that waited skips rows
whose other version was deleted meanwhile, and does not see rows inserted after its
snapshot. `DeadlockVictim` is the deadlock detector. Event workers take `app.mu`,
HTTP workers do not. Row 0 of a score means that there is no row, as the code stores
positive scores only.

**MatchContract.** The same table as a reader is entitled to see it: `Replace` writes a whole
ranking in one step, `Announce` follows it, `Overlap` is the first run over HTTP. While
runs take `turns`, a ranking leaves no other row and is never an older one; afterwards rows
of others may stay. The mapping leaves out workers, locks and open transactions: `turns` is
`MutexOnly`, the end of a transaction is Replace, `Enqueue` is Announce.

**MatchSweeps.** The same runs seen from the pool: `List` keeps a connection while the
rows of its SELECT are open and each `Acquire` needs another one. Runs over HTTP
(`Trigger`) are cancelled by the client's timeout (`Cancel`); event runs (`Deliver`) take
the mutex first (`TakeMutex`, `holder`) and have no timeout of their own.

**FeatureAggregator.** `Take`, `Mark` (MarkIfNew), `Count` (the counter's upsert),
`Ratios` (the one UPDATE that recomputes all ratios from the row it finds), `Emit`; an
error goes to `Park` (the dead-letter topic of consumeLoop). Two members may have the same event after a rebalance.

**RecommendationCache.** The tables behind a page are a version that only grows. A request
is `Request` (redis.Get), `Count`, `ReadPage`, `SetAndServe`; `Cancel` is the gateway's
timeout, after which a SET may still arrive. The loop over the rows never asks
`rows.Err()`: `ReadPage` may end early and the page, then `cut`, is answered and cached
like any other. `overlapped` records that two requests were
served at once.

**Alerts.** `Announce` is the INSERT of a match run, `Dispatch` what the relay makes of it:
a copy on Kafka and, only after that, on RabbitMQ. `DispatchLosing`, `BrokerDown` and
`LoopReturns` are the ways a transport fails: a row given up or a copy without a queue, a
broker that forgets, a consume loop that has returned. `Mark` is MarkIfNew of the Kafka path
only; `Send` may fail before or after the mail has left. `taken` and `lost` are history.

**Accounts.** Addresses are spelled in several ways; `Normal` is the trimmed lower case
the handlers compute. Requests whose answer is lost are repeated. A token carries what
GenerateToken puts into it, and the middleware checks signature and expiry only.

**Ranking.** Tokenize, Unique, ExtractTopKeywords, the Jaccard `Similarity`, `Normalize`,
`Limit` and `Page` as operators, each with a reference definition; `input` is the input of
one call. `MCRecommendationCache` makes the calls before the cache has done anything. The
loops are folds over the text, whose state is the output slice; the map `freq` and its
sort are the one sequence of the words in the order of `Before`. A word is a number, so
that `<` is the order of strings, and `Lower` leads from each spelling to the one in lower
case without blanks around it; scores are those of a finite set of documents. rank_score
has ties and depends on the time, so that each query of a `Walk` has an order of its own.

## The runs

| Run | Question | States |
|---|---|---|
| `relay` | do budget, duplicates, dead letters and the contract hold with the mirror on? | 1 152 705 |
| `relay_progress` | is every row settled, with one dead AMQP connection, with batches of one? | 230 316 |
| `consumer` | work at most once, no loss without a cause, every message settled | 943 029 |
| `matches` | what do overlapping runs leave behind, what does the mutex add, is the contract kept, do runs end? | 418 027 |
| `resume` | do object, row, keywords, matches and state agree; are uploads and parsed resumes worked off? | 710 544 |
| `jobs` | do text, keywords and index agree; does a scraped job reach the index? | 1 055 139 |
| `queue` | is every message in a known place, repeated or gone only after disruptions, settled at last? | 264 514 |
| `features` | counted once, lost with a cause, ratios current | 238 467 |
| `recommendations` | how stale or incomplete can an answer be; are the pure functions right? | 4.9 M |
| `sweeps` | does anything leak, can the pool stay exhausted, do event runs end? | 32 896 |
| `alerts` | where does each mail come from, and when is there none? | 697 658 |
| `accounts` | one account per address, tokens lead to their own account | 160 132 |

All of them hold. The properties of a run are those of its `.cfg`.

*Bounds.* They are named constants and stand in guards; nothing else is cut.

- `relay`: two relays, two rows and a budget of two attempts suffice for every pair of
  actions to interleave, for a row to fail, be retried by the other relay and be
  dead-lettered, and for a batch to mix outcomes. One row has a type with a topic, one has
  not. `WriterAttempts` is 2 where copies are counted and 1 where they do not matter;
  kafka-go's default is 10, and the theorems hold for any number. `relay_progress` has a
  batch of one, where a row that keeps failing could starve the other, and one creation
  time: rows of one time are found in any order at every poll, which includes each order
  that different times would give. One of its relays mirrors, so that a dead AMQP connection
  and a type that only this relay can publish are part of it.
- `consumer`: three messages of two events and a disruption contain a duplicate, a
  rebalance while a message is handled and a crash of either member. More disruptions
  are covered by the proofs.
- `matches`: three jobs with a limit of two, two rankings that overlap in one row and
  order it differently give overlapping deletes, updates of the other's rows and
  deadlock; two event workers and one over HTTP do so with and without the mutex.
- `resume`: two faults and a retry budget of two (the code passes three; MarkFailure takes
  it as a parameter) let dead_letter be reached. One PUT at a time; the proofs hold for
  any number.
- `jobs`: two scrapes of two versions, both transports and the reindex, two faults: each
  transport can lose its message or its consumer.
- `queue`: three messages, a prefetch of two, two disruptions; one consumer of each kind.
  The parser-like one keeps the exemption for stopped loops out of reach here; what
  stopped loops cost is asked in `jobs` and `alerts`.
- `features`: three interactions, one of each kind, two members, two faults: a repeated
  delivery at the other member and a failure of either.
- `recommendations`: two readers, one page, two changes, a time of three ticks with a
  lifetime and a timeout of one, so that two entries and the request after them fit; one
  failed call; texts of up to three of six words, one blank and one another spelling; all
  scores up to three; three rows in every combination of orders, pages of up to two.
- `sweeps`: a pool of two, two triggers, two listeners, two resumes: the pool can be
  filled by runs of either kind that each want one more.
- `alerts`: three announcements, one of them without matches, two faults.
- `accounts`: two clients, two accounts, four spellings of three addresses, tokens of
  two ticks in three.

Symmetry is used where every property is a safety property and the permuted values occur
in no constant: relays in `relay`, readers, announcements, clients and accounts,
interactions and members. Runs with liveness use none.

*Fairness.* Weak fairness of the steps that code takes by itself, and nothing about
success, arrival of requests or absence of faults beyond their bound:

- relay: each relay's own steps. `Relay.Start` polls on a ticker for ever and every remote
  call returns, successfully or not; a relay that crashes before each commit makes no
  progress, hence the bound;
- Kafka consumer: each loop's steps, and the coordinator gives a partition nobody has to a
  running member. The liveness property exempts the case where all loops have returned,
  which the code allows;
- queue: the broker's pushes, each loop's steps and, for the parser only, its connection
  loop;
- matcher: each worker's steps, that is, Go's scheduler and PostgreSQL, which grants free
  locks and breaks deadlocks; in `sweeps` also the client's timeout, which ends runs over
  HTTP, and fair turns for the mutex and the pool;
- resume and job: each handler's statements, the relay's deliveries (a row that is settled
  otherwise is a fault and bounded), the parser, the consumers of job-processor until
  their loops return, and CRON_MATCH for the sweep. Nothing asks job-matcher's loops to
  take an event. Nobody has to read, delete, scrape, reindex or restart a service.

*Deadlock* is checked everywhere. Where a bounded instance has nothing left to do there is
an explicit stuttering step (`Waiting`, `Exhausted`, `Resting`, `Quiet`), whose guard says so.

What the runs say in short:

- A topic holds, for each failed attempt of a row, each crash or lost transaction and its
  success, at most as many copies as the Kafka writer makes attempts. A dead-letter copy
  may exist for a row that is retried (the copy precedes the commit), but only on the last
  attempt.
- MarkIfNew gives at most once, not exactly once. The events it loses are exactly those of
  a crash in the handler and of a handler error whose dead-letter publish fails.
- RabbitMQ repeats a message only after a lost connection or a restart, and drops it after
  one failed handling. It loses what its own restart finds in the queue; with the parser's
  reconnection each other message is settled.
- Overlapping match runs never lose a row of the ranking that committed last and never
  leave a row of a run that did not commit; they may leave too many. Under the mutex the
  table is exactly the last ranking.
- No interleaving of upload, parsing, matching, reading and deletion leaves rows of a
  deleted resume or a matched state without matches; a lost `resume_parsed`, or a run
  before the first job, is made up for by the sweep, a dropped or lost `resume_uploaded`
  by nothing.
- Overlapping processJobs may put an older text over a newer one, but never keywords of
  one version beside the cleaned text of another.
- The pool can be exhausted by runs that wait for each other only as long as one of them
  came over HTTP, and the client's timeout ends it.
- With both transports enabled two mails per announcement are the rule, as the RabbitMQ
  handler looks up no event id; one over Kafka at most. The second transport is no
  safeguard against the relay: a row given up for Kafka's sake never reaches RabbitMQ.
- A page cut short by an error among its rows is shown to everybody until its entry
  expires, but not longer.

## The proofs

Theorems hold for all values of the constants that satisfy the named assumption of the
module: any number of relays, rows, members, runs, resumes, requests and faults. None of
the invariants is inductive by itself; each module proves an invariant `IInv` in layers,
one lemma per layer and one step per action, and derives the rest. Every safety invariant
and every action property of the runs has its theorem.

Two modules of theorems extend several components each, whose names are disjoint for this
reason. Their components share no state, and each theorem is about the specification of one
of them: `Spec` of `MatchStore` and `Alerts`, `SweepSpec`, `AccountSpec` and `CacheSpec`.
TLC evaluates the assumption of each component in its run.

- **`OutboxRelayProofs`**: `TypeCorrect`, `PublishedIsSent`, `BudgetIsKept`,
  `ClaimsAreExclusive`, `SettledStaysSettled`, `RetriesAreCounted`, and `RelaysKeepContract`,
  the refinement of the safety part of `OutboxContract`. A row is published by a commit,
  and the commit knows only the relay's drafts; so `IInv` adds, for every relay, what the
  batch in progress guarantees (`RelayOK`): record, rest and drafts divide the batch; the
  rows of the batch are as the SELECT returned them while the transaction is open, which
  is where the locks enter; past the Kafka publish without an error, and in every draft
  that says published, the copy is in the topic; drafts agree with the counts they will be
  written with. `Insert` is Accept, `PublishKafka` is HandOver or invisible, `Commit` is
  Settle of the drafted rows, every other step is invisible. `DuplicatesArePaid` and
  `DeadLettersAreLast` need a second invariant, `CopyInv`: what any relay has read of a row
  is at most its retry count now (`ReadsArePast`, also for a transaction the server has
  dropped), and every copy of a row there is, or is still owed, is paid for
  (`CopiesPaid`). A relay owes a publish when the server has dropped its transaction and it
  has not published the row yet; a committed attempt, a fault and the row's success pay for
  one publish each, and so does the attempt that the holder of the lock is about to commit
  (`Spare`). So a fault is charged for the publish it may cause before that is made, and
  each publish for as many copies as the writer makes attempts.
- **`StreamConsumerProofs`**: `TypeCorrect`, `WorkHappensOnce`, `NoOtherLoss`. Work done was
  marked, and a marked event not yet worked on is at one member only (`WorkInv`);
  everything a member has passed is handled, interrupted or unparked (`LossInv`), which
  rests on the fact that every marked event is accounted for.
- **`QueueConsumerProofs`**: `TypeCorrect`, `MessagesHaveOnePlace`, `MessagesStay`,
  `AckFollowsWork`, `RepetitionsArePaid`. `PlaceInv` divides the messages among the places, those that
  perished being one;
  `RepeatInv` says that a message at a handler was tried at most once more than there were
  disruptions, one that waits at most as often.
- **`ResumeLifecycleProofs`**: `TypeCorrect`, `ListedHasObject`, `DeletedLeavesNothing`,
  `MatchedIsStored`, `RunsFindKeywords`, `LostUploadsHaveCause`, `FailuresBeforeDeath`, for
  any number of concurrent PUTs, faults and any retry budget. `TableInv` relates the
  tables, `WorkInv` says what each handler knows at each of its statements, `UploadInv`
  follows the upload event through outbox, queue, parser and request, and `BudgetInv`
  counts: retries written plus failures still to be reported are at most the failures that
  happened.
- **`JobIngestionProofs`**: `TypeCorrect`, `KeywordsAreOfTheText`, `IndexedJobsAreSearchable`,
  `SequentialUseIsExact`, under the assumption that no scraper has the name of a process.
  `SeenInv` bounds every version in flight by the source's, `RowInv` says what a processJob
  knows of its row; `QuietInv` follows the newest version, as long as nothing overlaps or
  fails, from the source through scrape, row and processJob into the index.
- **`FeatureAggregatorProofs`**: `TypeCorrect`, `InteractionsCountOnce`, `LossesHaveCause`,
  `RatiosAreCurrent`. `PlaceInv` and `MarkInv`: an event past its mark is at one member;
  `CountInv`: counters equal the events counted; `CauseInv`: what is marked and not counted
  is at work or has a cause.
- **`JobMatcherProofs`**: about `MatchStore`, `StoreIsRight`, `TableIsLastRanking`, the
  action property `RankingsOnlyGetNewer`, and `TableIsReplacedWhole`, the refinement of
  `MatchContract`. What a transaction will leave depends on what it
  holds, so the invariant says for every run that it has written nothing outside the
  ranking of its version and that a consumer past its lock has the mutex (`Placed`), and,
  for as long as all runs hold the mutex, that the one transaction has found every row
  there is and started from data no older than the last ranking (`Alone`). The end of a
  transaction is then one Replace (`EndIsReplace`): the rows kept are those the transaction
  has not deleted, none under the mutex. About `MatchSweeps`,
  `SweepsAreClean` and `StandstillNeedsTrigger`: the connections of a run are those its
  place in the loop calls for, and an event run past its lock has the mutex, so that of
  two waiting runs one came over HTTP, and a sweep has tried every resume that is not
  still to come (`PoolInv`). The pool counts the set `Out` of
  connections, which is finite because runs are. About `Ranking`, `FunctionsMatchReferences`,
  with one theorem per function: `PagesCoverEverything`, `UniqueKeepsFirst`,
  `KeywordsAreTheBest`, `SimilarityIsJaccard`, `NormalizingKeepsOrder`. They hold for
  texts, scores and row counts of any size. Pages cover everything only as far as the
  queries agree on the order: each place is on exactly one page (`PagesApart`,
  `RowHasPage`), and which row is in it may differ from query to query.
- **`UserFacingProofs`**: about `Alerts`, `TypeCorrect`, `MailsAreAccounted`,
  `SilenceIsTotalFailure`. `PlaceInv` says where copies are, `MailInv` that mails sent and
  due are covered by the copies taken and Kafka's mark, `SilenceInv` that for each
  announcement the relay still has it or each transport has delivered, still will, holds it
  for a loop that has returned, or has lost it. About `Accounts`, `AccountTypes`,
  `AddressesAreUnique`, `OwnersGetIn`, `ProfilesAreOwn`: `AddressInv` says that stored
  addresses are normal and unique, `TokenInv` what a token names and for how long. About
  `RecommendationCache`, `PagesAreRecent` and the action property `PagesOnlyGetNewer`: a version was
  current from one change to the next (`CurrentAt`), and `BoardInv` says since when what
  a request has read, an entry holds and the last answer showed was current, or cut short. For answers
  in order `TurnsInv` adds that, while requests take turns, an entry that can still be
  hit is at least as new as the last answer.

*Induction over data.* The library's induction theorems take an operator as a parameter,
which the provers cannot instantiate. `NaturalsByInduction` therefore states induction of a
set: one that has 0, and n + 1 with each n, has all natural numbers. It is proved from
the well-foundedness of the strict subset order on finite sets. A recursive function is
a CHOOSE among the solutions of its equation, so that each proof about one exhibits a
solution first: `FoldExists` builds the result of a fold over 1..n for one more position
at a time. After that, `FoldSteps` unrolls the loop into the rounds the code makes, and `Unique` and `Tokenize` are
followed round by round. The sort is not followed at all: `SortingIsPlacing` shows that a
strict order has one sorted sequence, in which a word stands behind those it is
beaten by, whatever algorithm finds it.

*Only model-checked* is liveness: `EveryRowSettles`, `EveryMessageSettles`, `RunsEnd`,
`UploadsSettle`, `SweepHeals`, `ScrapedIsIndexed`, `EventRunsEnd`, and the `Progress` part of
`OutboxContract`, which `EveryRowSettles` stands for: the prover has no rules for
fairness and ENABLED here. `TypeOK`, `ExclusiveClaim`, `SettledIsFinal`,
`RetryCountsOneByOne`, `IndexedIsSearchable`, `OnePlace`, `AckedWasDone`, `NeverOlder`
(which `MatchContract` contains) and `NobodyLockedOut` are proved and not among the runs' properties.

## Disagreements between documents and code

The models show where the code falls short of a sentence in the documents. No run expects a
violation; the properties state what does hold, with the exception named.

1. `Report.tex:66` says that consumers "process independently with retries and restart
   tolerance". The row of `processed_events` is committed before the work begins
   (`idempotency.go:17`), so a consumer that dies in between skips the event after its
   restart: `LossHasACause` has to exempt `interrupted`. With the RabbitMQ mirror on, the
   RabbitMQ copy of an outbox event can still trigger the work; `user_interaction` travels
   over Kafka only.
2. `docs/ARCHITECTURE.md:148-149` says that only the configured top N matches are persisted
   per resume. Two overlapping runs over different rankings, one of them started over HTTP
   and so without `app.mu`, leave the union of both: the DELETE of the second does not see
   the rows the first has not committed (`matching.go:131`). `ExactlyLastRanking` therefore
   asks for `MutexOnly`.
3. `README.md:91` says that each stored job emits `job_scraped`. scrapeAndStore inserts the
   outbox row in a statement of its own and only logs its error (`scraper_logic.go:59`); a
   job can be stored and not announced until the next scrape finds it again.
4. `docs/ARCHITECTURE.md:154` says that queue consumers "reconnect through process
   restarts". When the connection is lost the goroutine of Subscribe returns and nothing ends
   the process (`rabbitmq.go:124`): `EveryMessageSettles` has to exempt the case where the
   loop of every consumer has stopped. resume-parser alone connects again.

## What is not modelled

- Payloads, headers, trace ids, error texts, telemetry, logging.
- More than one Kafka partition: topics are created by the brokers with their default of
  one. Data loss of Kafka: `RequiredAcks` is
  all. (RabbitMQ's messages are transient, and lost in the models when it restarts.)
- A relay's decode and marshal errors: payloads come from `jsonb` and are never empty.
- BM25, the freshness term, the hybrid score and the rank expression of
  recommendation-service as numbers: they are floating point. Scores are any naturals
  given to `MatchStore`; what is done with them after that is in `MatchStore` and `Ranking`.
- The three reads of `matchResume` are one step: reads that straddle a change give a mix of
  two versions, which is one more version.
- The source adapters of job-scraper and the text extraction of resume-parser: HTTP, HTML
  and PDF parsing by libraries and regular expressions.
- The weekly mails of scheduler, which keep no record of what was sent, and the times of
  its cron entries: triggers may come at any moment. Its bootstrap is a trigger too;
  its contexts of two minutes are cut by the 15 seconds of its HTTP client, and a scrape
  that fails there skips the match run that follows.
- Password hashing, the welcome mail, the routes of api-gateway that only pass a request
  on, handleList, handleSearch and the health endpoints, which only read.
- Frontend, configuration, HTTP helpers, telemetry: stateless or pure I/O.
- The migration script that every service runs at its start: races over
  `CREATE TABLE IF NOT EXISTS` happen inside PostgreSQL's catalogue, and a service that
  loses one exits and is restarted.

## What is left

- The composition of `OutboxRelay`, `StreamConsumer` and `QueueConsumer` over the topic:
  each assumes of its neighbour what the other shows (copies may repeat, none is lost past
  the commit), but no module states it end to end.
- A refinement of an abstract consumer by `StreamConsumer` and `QueueConsumer`, which
  would give both transports one contract.
