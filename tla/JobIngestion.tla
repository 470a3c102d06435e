----------------------------- MODULE JobIngestion -----------------------------
(* One job posting between job-scraper and job-processor: scrapeAndStore and   *)
(* upsertJob write its row in jobs, the job_scraped event goes to the          *)
(* processor over Kafka and RabbitMQ, and processJob, called from both         *)
(* consumers and from handleReindex without any lock, reads the row, writes    *)
(* the cleaned description and its keywords back and adds the document to      *)
(* Meilisearch.                                                                *)
(*                                                                             *)
(* Title, company, location and URL make up the fingerprint, so what a later   *)
(* scrape changes is the description: a version number stands for its text.    *)
(* Meilisearch applies its tasks in the order they were added.                 *)
EXTENDS Integers, FiniteSets

CONSTANTS
    Scrapers,     \* runs of scrapeAndStore that may overlap
    Paths,        \* the transports that carry job_scraped
    MaxVersions,  \* bound: versions of the posting
    MaxRuns,      \* bound: scrapes of the posting and reindex calls
    MaxFaults     \* bound: failed calls and crashes

ASSUME IngestionAssumption ==
    /\ Paths \subseteq {"kafka", "rabbit"} /\ Paths /= {}
    /\ Scrapers \intersect {"kafka", "rabbit", "reindex"} = {}
    /\ MaxVersions \in Nat \ {0} /\ MaxRuns \in Nat /\ MaxFaults \in Nat

Processors == Paths \union {"reindex"}

VARIABLES
    site,       \* the version the source shows
    job,        \* the row of jobs: version of description and of keywords, cleaned or raw
    doc,        \* the version in the search index, 0 when there is no document
    scrape,     \* scrape[s]: where run s is and the version it is to write
    outbox,     \* unpublished job_scraped rows
    queue,      \* queue[p]: job_scraped messages waiting on transport p
    proc,       \* proc[p]: where a processJob is and the version it read
    stopped,    \* the transports whose consumer loop in job-processor has returned
    indexed,    \* a job_indexed event was enqueued
    \* history, not in the code
    fetched,    \* the version the last fetch saw
    lost,       \* the transports a job_scraped message was lost on
    overlapped, \* a processJob or another scrape was under way when the row was written
    runs, faults

vars == <<site, job, doc, scrape, outbox, queue, proc, stopped, indexed, fetched,
          lost, overlapped, runs, faults>>

Fault == faults < MaxFaults /\ faults' = faults + 1
Fine  == UNCHANGED faults

NoJob == [ver |-> 0, kw |-> 0, clean |-> FALSE]

Busy(p) == proc[p].at /= "idle"

\* Someone but x works on the row.
Others(x) ==
    \/ \E p \in Processors \ {x} : Busy(p)
    \/ \E s \in Scrapers \ {x} : scrape[s].at = "upsert"

-----------------------------------------------------------------------------
Init ==
    /\ site = 1 /\ job = NoJob /\ doc = 0
    /\ scrape = [s \in Scrapers |-> [at |-> "idle", ver |-> 0]]
    /\ outbox = 0 /\ queue = [p \in Paths |-> 0]
    /\ proc = [p \in Processors |-> [at |-> "idle", ver |-> 0]]
    /\ stopped = {} /\ indexed = FALSE
    /\ fetched = 0 /\ lost = {} /\ overlapped = FALSE /\ runs = 0 /\ faults = 0

\* The posting is edited at its source.
Edit ==
    /\ site < MaxVersions /\ site' = site + 1
    /\ UNCHANGED <<job, doc, scrape, outbox, queue, proc, stopped, indexed, lost,
                   overlapped, fetched, runs, faults>>

-----------------------------------------------------------------------------
(* job-scraper: scrapeAndStore, started by cron, bootstrap or hand *)

\* source.Fetch; a failing source is counted and skipped.
FetchJob(s) ==
    /\ scrape[s].at = "idle" /\ runs < MaxRuns /\ runs' = runs + 1
    /\ scrape' = [scrape EXCEPT ![s] = [at |-> "upsert", ver |-> site]] /\ fetched' = site
    /\ UNCHANGED <<site, job, doc, outbox, queue, proc, stopped, indexed, lost, overlapped, faults>>

\* Run s is done with the row, one way or the other.
Leave(s, to) == scrape' = [scrape EXCEPT ![s] = [at |-> to, ver |-> 0]]

\* Mutant of Upserted: ON CONFLICT DO NOTHING.
UpsertedOnce(s) ==
    IF job.ver = 0 THEN [job EXCEPT !.ver = scrape[s].ver] ELSE job

\* INSERT ... ON CONFLICT (fingerprint) DO UPDATE: the raw text, old keywords.
Upserted(s) == [job EXCEPT !.ver = scrape[s].ver, !.clean = FALSE]

UpsertJob(s) ==
    /\ scrape[s].at = "upsert"
    /\ \/ job' = Upserted(s) /\ Leave(s, "enqueue") /\ Fine
       \/ job' \in {job, Upserted(s)} /\ Leave(s, "idle") /\ Fault
    /\ overlapped' = (overlapped \/ Others(s))
    /\ UNCHANGED <<site, doc, outbox, queue, proc, stopped, indexed, lost, fetched, runs>>

\* outbox.Insert, a statement of its own; its error is logged.
EnqueueScraped(s) ==
    /\ scrape[s].at = "enqueue"
    /\ Leave(s, "stored")
    /\ \/ outbox' = outbox + 1 /\ Fine
       \/ UNCHANGED outbox /\ Fault
    /\ UNCHANGED <<site, job, doc, queue, proc, stopped, indexed, lost, overlapped, fetched, runs>>

\* The summary is written; the run is over.
EndScrape(s) ==
    /\ scrape[s].at = "stored" /\ Leave(s, "idle")
    /\ UNCHANGED <<site, job, doc, outbox, queue, proc, stopped, indexed, lost,
                   overlapped, fetched, runs, faults>>

\* The scraper dies, or the caller's timeout cancels the context of the run.
ScrapeCut(s) ==
    /\ scrape[s].at \in {"upsert", "enqueue"} /\ Fault
    /\ Leave(s, "idle")
    /\ UNCHANGED <<site, job, doc, outbox, queue, proc, stopped, indexed, lost,
                   overlapped, fetched, runs>>

ScrapeStep(s) == UpsertJob(s) \/ EnqueueScraped(s) \/ EndScrape(s)

\* What an attempt to publish leaves: Kafka comes first, and only after its
\* acknowledgement RabbitMQ.
Attempts == {{}, Paths \intersect {"kafka"}, Paths}

Publish(copies) == queue' = [p \in Paths |-> queue[p] + IF p \in copies THEN 1 ELSE 0]

\* The relay publishes the row and settles it, or the row stays for the next poll:
\* an attempt that failed half-way, or whose transaction did not commit.
Deliver ==
    /\ outbox > 0
    /\ \/ Publish(Paths) /\ outbox' = outbox - 1 /\ Fine
       \/ (\E copies \in Attempts : Publish(copies)) /\ UNCHANGED outbox /\ Fault
    /\ UNCHANGED <<site, job, doc, scrape, proc, stopped, indexed, lost, overlapped, fetched, runs>>

\* The row is settled without a copy on every transport: dead-lettered after
\* maxRetries attempts, or the RabbitMQ copy, neither mandatory nor confirmed,
\* reached no queue.
DeliverLosing ==
    /\ outbox > 0 /\ outbox' = outbox - 1 /\ Fault
    /\ \E copies \in Attempts : Publish(copies) /\ lost' = lost \union (Paths \ copies)
    /\ UNCHANGED <<site, job, doc, scrape, proc, stopped, indexed, overlapped, fetched, runs>>

\* RabbitMQ restarts: its messages are transient, and the channel of the consumer
\* closes.
BrokerRestarts ==
    /\ "rabbit" \in Paths /\ (queue["rabbit"] > 0 \/ "rabbit" \notin stopped) /\ Fault
    /\ queue' = [queue EXCEPT !["rabbit"] = 0] /\ stopped' = stopped \union {"rabbit"}
    /\ lost' = IF queue["rabbit"] > 0 \/ Busy("rabbit") THEN lost \union {"rabbit"} ELSE lost
    /\ UNCHANGED <<site, job, doc, scrape, outbox, proc, indexed, overlapped, fetched, runs>>

-----------------------------------------------------------------------------
(* job-processor: the two consumers, handleReindex and processJob *)

At(p, where) == proc' = [proc EXCEPT ![p].at = where]

TakeScraped(p) ==
    /\ ~Busy(p) /\ queue[p] > 0 /\ p \notin stopped
    /\ queue' = [queue EXCEPT ![p] = @ - 1]
    /\ At(p, "read")
    /\ UNCHANGED <<site, job, doc, scrape, outbox, stopped, indexed, lost, overlapped,
                   fetched, runs, faults>>

\* handleReindex reaches this job.
Reindex ==
    /\ ~Busy("reindex") /\ job.ver > 0 /\ runs < MaxRuns /\ runs' = runs + 1
    /\ At("reindex", "read")
    /\ UNCHANGED <<site, job, doc, scrape, outbox, queue, stopped, indexed, fetched,
                   lost, overlapped, faults>>

\* An error of processJob: Kafka dead-letters the message, RabbitMQ drops it, and
\* handleReindex goes on to the next job.
Lose(p)  == lost' = lost \union ({p} \intersect Paths)
Fails(p) == At(p, "idle") /\ Fault /\ Lose(p)

\* SELECT ... FROM jobs WHERE id.
ReadJob(p) ==
    /\ proc[p].at = "read"
    /\ \/ /\ proc' = [proc EXCEPT ![p] = [at |-> "update", ver |-> job.ver]]
          /\ UNCHANGED lost /\ Fine
       \/ Fails(p)
    /\ overlapped' = (overlapped \/ Others(p))
    /\ UNCHANGED <<site, job, doc, scrape, outbox, queue, stopped, indexed, fetched, runs>>

\* Mutant of Cleaned: the keywords of the raw text are kept.
CleanedText(p) == [job EXCEPT !.ver = proc[p].ver, !.clean = TRUE]

\* UPDATE jobs SET description, keywords: both from the version that was read.
Cleaned(p) == [ver |-> proc[p].ver, kw |-> proc[p].ver, clean |-> TRUE]

UpdateJob(p) ==
    /\ proc[p].at = "update"
    /\ \/ job' = Cleaned(p) /\ At(p, "index") /\ UNCHANGED lost /\ Fine
       \/ job' \in {job, Cleaned(p)} /\ Fails(p)
    /\ overlapped' = (overlapped \/ Others(p))
    /\ UNCHANGED <<site, doc, scrape, outbox, queue, stopped, indexed, fetched, runs>>

\* Mutant of AddDocument: the document is added by the consumer of job_indexed.
AddDocumentLater(p) ==
    /\ proc[p].at = "index" /\ At(p, "announce") /\ Fine
    /\ UNCHANGED <<site, job, doc, scrape, outbox, queue, stopped, indexed, lost,
                   overlapped, fetched, runs>>

\* meili AddDocuments; the task may have been taken although the call failed.
AddDocument(p) ==
    /\ proc[p].at = "index"
    /\ \/ doc' = proc[p].ver /\ At(p, "announce") /\ UNCHANGED lost /\ Fine
       \/ doc' \in {doc, proc[p].ver} /\ Fails(p)
    /\ UNCHANGED <<site, job, scrape, outbox, queue, stopped, indexed, overlapped, fetched, runs>>

\* outbox.Insert of job_indexed; its error is logged and the message acknowledged.
EnqueueIndexed(p) ==
    /\ proc[p].at = "announce" /\ At(p, "idle")
    /\ \/ indexed' = TRUE /\ Fine
       \/ UNCHANGED indexed /\ Fault
    /\ UNCHANGED <<site, job, doc, scrape, outbox, queue, stopped, lost, overlapped, fetched, runs>>

\* A consumer loop returns for good: RabbitMQ's when its channel closes, whose
\* unacknowledged message is requeued, Kafka's on a deadline error of its fetch.
LoopEnds(p) ==
    /\ p \notin stopped /\ stopped' = stopped \union {p} /\ Fault
    /\ p = "kafka" => ~Busy(p)
    /\ queue' = [queue EXCEPT ![p] = @ + IF Busy(p) THEN 1 ELSE 0]
    /\ UNCHANGED <<site, job, doc, scrape, outbox, proc, indexed, lost, overlapped, fetched, runs>>

\* The processor dies with all its work and starts again.  RabbitMQ delivers again,
\* if it still has the message; Kafka's copy was marked processed.
ProcessorDies ==
    /\ (\E p \in Processors : Busy(p)) \/ stopped /= {}
    /\ proc' = [p \in Processors |-> [proc[p] EXCEPT !.at = "idle"]] /\ stopped' = {} /\ Fault
    /\ \E back \in SUBSET ({p \in Paths \ stopped : Busy(p)} \ {"kafka"}) :
          /\ queue' = [p \in Paths |-> queue[p] + IF p \in back THEN 1 ELSE 0]
          /\ lost' = lost \union ({p \in Paths \ stopped : Busy(p)} \ back)
    /\ UNCHANGED <<site, job, doc, scrape, outbox, indexed, overlapped, fetched, runs>>

ProcessStep(p) == ReadJob(p) \/ UpdateJob(p) \/ AddDocument(p) \/ EnqueueIndexed(p)

-----------------------------------------------------------------------------
AtRest ==
    /\ outbox = 0
    /\ \A s \in Scrapers : scrape[s].at = "idle"
    /\ \A p \in Paths \ stopped : queue[p] = 0
    /\ \A p \in Processors : ~Busy(p)

\* Nothing is under way and no further run is due.
Resting == AtRest /\ runs = MaxRuns /\ UNCHANGED vars

Next ==
    \/ Edit \/ Deliver \/ DeliverLosing \/ BrokerRestarts \/ Reindex
    \/ \E s \in Scrapers : FetchJob(s) \/ ScrapeStep(s) \/ ScrapeCut(s)
    \/ \E p \in Paths : TakeScraped(p) \/ LoopEnds(p)
    \/ \E p \in Processors : ProcessStep(p)
    \/ ProcessorDies
    \/ Resting

\* Runs that started go on, the relay polls and a consumer consumes until its loop
\* returns; nobody has to edit, scrape, reindex or restart the processor.
Fairness ==
    /\ WF_vars(Deliver)
    /\ \A s \in Scrapers : WF_vars(ScrapeStep(s))
    /\ \A p \in Paths : WF_vars(TakeScraped(p) \/ ProcessStep(p))
    /\ WF_vars(ProcessStep("reindex"))

Spec == Init /\ [][Next]_vars /\ Fairness

-----------------------------------------------------------------------------
(* Types, invariants and liveness *)

Versions == 0..MaxVersions

\* Every variable keeps its type and versions are versions the source has shown.
TypeOK ==
    /\ site \in 1..MaxVersions /\ doc \in 0..site
    /\ job \in [ver : 0..site, kw : 0..site, clean : BOOLEAN]
    /\ scrape \in [Scrapers -> [at : {"idle", "upsert", "enqueue", "stored"}, ver : Versions]]
    /\ outbox \in Nat /\ queue \in [Paths -> Nat]
    /\ proc \in [Processors -> [at : {"idle", "read", "update", "index", "announce"},
                                ver : Versions]]
    /\ stopped \subseteq Paths /\ indexed \in BOOLEAN
    /\ fetched \in 0..site /\ lost \subseteq Paths /\ overlapped \in BOOLEAN
    /\ runs \in 0..MaxRuns /\ faults \in 0..MaxFaults

\* Cleaned text comes with its own keywords: however scrapes and processJobs
\* interleave, the matcher never scores a cleaned description by the keywords of
\* another version.
KeywordsFitText == job.clean => job.kw = job.ver

\* The matcher hears of job_indexed only when the index has the job.
IndexedIsSearchable == indexed => doc > 0

\* Sequential use is right: when no scrape or processJob met another one and
\* no call failed, the last fetched version is in the table, cleaned, and in the index.
\* (The code has no lock or version check, so overlapping runs may store and
\* index an older version over a newer one, or different ones.)
SequentialIsExact ==
    AtRest /\ faults = 0 /\ ~overlapped /\ job.ver > 0 =>
        job.ver = fetched /\ job.clean /\ doc = fetched

\* Liveness: an enqueued job_scraped event leads to a searchable job unless every
\* transport has lost a message or has no consumer any more: a loss on one is made
\* up for by the other, and the relay's and the processor's crashes lose nothing on
\* RabbitMQ but what the broker forgets.
ScrapedIsIndexed == outbox > 0 ~> (doc > 0 \/ Paths \subseteq lost \union stopped)
=============================================================================
