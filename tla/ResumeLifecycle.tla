---------------------------- MODULE ResumeLifecycle ----------------------------
(* The life of one resume across the services that touch it: handleUpload,    *)
(* handleUpdateParsed and handleDelete of resume-service, the single-threaded *)
(* consumer of resume-parser, the event runs and the scheduled runs of        *)
(* job-matcher, and the read path of recommendation-service.                  *)
(*                                                                            *)
(* Each handler is a process whose statements are separate steps: the object  *)
(* in MinIO, the rows of resumes, pipeline_states and resume_job_matches, and *)
(* the outbox rows are written one after the other, not in one transaction.   *)
(* A fault is a failed call (a write may have been applied all the same), a   *)
(* client that went away, a timeout or a crash of a service or a broker.  The *)
(* row locks of the match transaction are the subject of MatchStore; here a   *)
(* run stores at once.                                                        *)
EXTENDS Workflow

CONSTANTS
    Requests,   \* the PUT requests that can be under way at the same time
    MaxFaults   \* bound: faults

Handlers == {"upload", "parser", "event", "cron", "reader", "delete"}

ASSUME LifecycleAssumption ==
    /\ MaxFaults \in Nat
    /\ Requests \intersect (Handlers \union {"idle", "fetch"}) = {}

VARIABLES
    row,        \* the row of resumes: "none" yet, "stored" or "deleted"
    parsed,     \* its parsed_keywords are filled in
    object,     \* the file is in MinIO
    pipe,       \* its row of pipeline_states
    matched,    \* it has rows in resume_job_matches
    jobs,       \* the table jobs, which a scrape fills and nobody empties, has a row
    outbox,     \* outbox[t]: unpublished outbox rows of event type t
    queue,      \* queue[t]: messages of type t on their way to the consumer
    pc,         \* pc[p]: where handler or request p is; the parser can be in a request
    fate,       \* history: what became of resume_uploaded, one of Fates
    failures,   \* history: errors that were, or should be, reported by MarkFailure
    faults      \* faults so far

tables  == <<row, parsed, object, pipe, matched, jobs>>
events  == <<outbox, queue>>
history == <<fate, failures>>
vars    == <<tables, events, pc, history, faults>>

Types == {"uploaded", "parsed"}

\* "dropped": nacked by the parser; "lost": given up by the relay, or lost by
\* RabbitMQ, which keeps no promise about a transient, unconfirmed message.
Fates == {"none", "enqueued", "dropped", "lost"}

\* Event runs hold app.mu one at a time; scheduled and HTTP runs do not take it.
Runs == {"event", "cron"}

Goto(p, to) == pc' = [pc EXCEPT ![p] = to]
Step(p, from, to) == pc[p] = from /\ Goto(p, to)

Fault == faults < MaxFaults /\ faults' = faults + 1
Fine  == UNCHANGED faults

\* A statement on pipeline_states: its foreign key refuses it without a row of
\* resumes, it may fail, and every caller goes on whatever the outcome is.
PipeWrite(new) ==
    \/ pipe' = (IF row = "stored" THEN new ELSE pipe) /\ Fine
    \/ UNCHANGED pipe /\ Fault

\* Mutant of Mark: no foreign key on pipeline_states.
MarkUnbound(s) == pipe' = UpsertState(pipe, s) /\ Fine

Mark(s)    == PipeWrite(UpsertState(pipe, s))
ReportFail == PipeWrite(MarkFailure(pipe))

\* Adding n to the messages or rows of type t.
Add(f, t, n) == [f EXCEPT ![t] = @ + n]

-----------------------------------------------------------------------------
Init ==
    /\ row = "none" /\ pipe = NoPipelineRow
    /\ parsed = FALSE /\ object = FALSE /\ matched = FALSE /\ jobs = FALSE
    /\ outbox = [t \in Types |-> 0] /\ queue = [t \in Types |-> 0]
    /\ pc = [p \in Handlers \union Requests |->
                IF p = "upload" THEN "put" ELSE IF p \in Requests THEN "none" ELSE "idle"]
    /\ fate = "none" /\ failures = 0 /\ faults = 0

-----------------------------------------------------------------------------
(* resume-service: handleUpload *)

PutObject ==
    /\ \/ object' = TRUE /\ Step("upload", "put", "insert") /\ Fine
       \/ object' \in BOOLEAN /\ Step("upload", "put", "done") /\ Fault
    /\ UNCHANGED <<jobs, row, parsed, pipe, matched, events, history>>

InsertRow ==
    /\ \/ row' = "stored" /\ Step("upload", "insert", "state") /\ Fine
       \/ row' \in {"none", "stored"} /\ Step("upload", "insert", "done") /\ Fault
    /\ UNCHANGED <<jobs, parsed, object, pipe, matched, events, history>>

\* UpsertState before and after the event; its error is only logged.
MarkUploaded ==
    /\ Step("upload", "state", "enqueue") \/ Step("upload", "state2", "done")
    /\ Mark("uploaded")
    /\ UNCHANGED <<jobs, row, parsed, object, matched, events, history>>

\* outbox.Insert; without its answer the upload is over, its row there or not.
EnqueueUploaded ==
    /\ \/ Step("upload", "enqueue", "state2") /\ Fine
       \/ Step("upload", "enqueue", "done") /\ Fault
    /\ \/ outbox' = Add(outbox, "uploaded", 1) /\ fate' = "enqueued"
       \/ pc'["upload"] = "done" /\ UNCHANGED <<outbox, fate>>
    /\ UNCHANGED <<tables, queue, failures>>

UploadStep == PutObject \/ InsertRow \/ MarkUploaded \/ EnqueueUploaded

\* The service dies, or the client goes away, in the middle of handleUpload.
UploadAborted ==
    /\ pc["upload"] /= "done" /\ Goto("upload", "done") /\ Fault
    /\ UNCHANGED <<tables, events, history>>

-----------------------------------------------------------------------------
(* The outbox relay and the brokers: at least once, in any order. *)

\* Mutant of Deliver: the row is settled before the publish.
DeliverSettled(t) ==
    /\ outbox[t] > 0 /\ outbox' = Add(outbox, t, -1)
    /\ queue' \in {queue, Add(queue, t, 1)}
    /\ UNCHANGED <<tables, pc, history, faults>>

\* The copies of an event of type t: resume_uploaded has no topic and goes out
\* over RabbitMQ alone; resume_parsed goes to Kafka and is then mirrored.
Copies(t) == IF t = "parsed" THEN 2 ELSE 1

\* The relay publishes a row and settles it, or the row stays for the next poll:
\* an attempt that failed half-way, or whose transaction did not commit.
Deliver(t) ==
    /\ outbox[t] > 0
    /\ \/ outbox' = Add(outbox, t, -1) /\ queue' = Add(queue, t, Copies(t)) /\ Fine
       \/ UNCHANGED outbox /\ Fault /\ \E n \in 0..Copies(t) : queue' = Add(queue, t, n)
    /\ UNCHANGED <<tables, pc, history>>

\* The row is settled without a copy in every place: RabbitMQ had no queue for the
\* one of a publish that is neither mandatory nor confirmed, or the last of
\* maxRetries failed attempts, which may fail after a copy went out, dead-lettered it.
Loses(t) ==
    /\ outbox[t] > 0 /\ Fault
    /\ outbox' = Add(outbox, t, -1)
    /\ \E n \in 0..Copies(t) : queue' = Add(queue, t, n)
    /\ fate' = (IF t = "uploaded" THEN "lost" ELSE fate)
    /\ UNCHANGED <<tables, pc, failures>>

\* RabbitMQ restarts and forgets the messages, which are transient.  A mirrored
\* resume_parsed it forgets is one Loses never gave it.
BrokerRestarts ==
    /\ queue["uploaded"] > 0 /\ Fault
    /\ queue' = [queue EXCEPT !["uploaded"] = 0] /\ fate' = "lost"
    /\ UNCHANGED <<tables, outbox, pc, failures>>

-----------------------------------------------------------------------------
(* resume-parser: _on_message, one message at a time *)

TakeUpload ==
    /\ Step("parser", "idle", "fetch") /\ queue["uploaded"] > 0
    /\ queue' = Add(queue, "uploaded", -1)
    /\ UNCHANGED <<tables, outbox, history, faults>>

\* basic_nack without requeue: the message is gone.
Drop == Goto("parser", "idle") /\ fate' = "dropped"

\* get_object, then the PUT to resume-service.
SendParsed ==
    /\ pc["parser"] = "fetch"
    /\ \/ \E q \in Requests :
            /\ object /\ pc[q] \in {"none", "ok", "error"}
            /\ pc' = [pc EXCEPT ![q] = "update", !["parser"] = q]
            /\ UNCHANGED <<fate, faults>>
       \/ ~object /\ Drop /\ Fine
       \/ Drop /\ Fault
    /\ UNCHANGED <<tables, events, failures>>

\* The answer: 2xx is acknowledged, 4xx and 5xx raise and are nacked.
TakeAnswer ==
    /\ pc["parser"] \in Requests
    /\ \/ pc[pc["parser"]] = "ok" /\ Goto("parser", "idle") /\ UNCHANGED fate
       \/ pc[pc["parser"]] = "error" /\ Drop
    /\ UNCHANGED <<tables, events, failures, faults>>

\* requests.put gives up after 20 seconds; the handler may still be at work.
PutTimesOut ==
    /\ pc["parser"] \in Requests
    /\ Drop /\ Fault
    /\ UNCHANGED <<tables, events, failures>>

\* Mutant of ParserDies: the message was acknowledged when it was taken.
ParserDiesAcked ==
    /\ pc["parser"] /= "idle" /\ Goto("parser", "idle") /\ Fault
    /\ UNCHANGED <<tables, events, history>>

\* The parser or its connection dies and run_consumer_forever connects again: the
\* unacknowledged message is requeued, unless the broker has lost it meanwhile.
ParserDies ==
    /\ pc["parser"] /= "idle" /\ Goto("parser", "idle") /\ Fault
    /\ \/ queue' = Add(queue, "uploaded", 1) /\ UNCHANGED fate
       \/ UNCHANGED queue /\ fate' = "lost"
    /\ UNCHANGED <<tables, outbox, failures>>

ParserStep == TakeUpload \/ SendParsed \/ TakeAnswer

-----------------------------------------------------------------------------
(* resume-service: handleUpdateParsed *)

\* Mutant of UpdateParsed: the event is enqueued first.
UpdateParsedLate(q) ==
    /\ \/ /\ Step(q, "update", "enqueue")
          /\ outbox' = Add(outbox, "parsed", 1) /\ UNCHANGED parsed
       \/ Step(q, "enqueue", "state") /\ parsed' = (row = "stored") /\ UNCHANGED outbox
    /\ UNCHANGED <<jobs, row, object, pipe, matched, queue, history, faults>>

\* UPDATE resumes ... RETURNING user_id; no row is a 404.
UpdateParsed(q) ==
    /\ \/ row = "stored" /\ parsed' = TRUE /\ Step(q, "update", "enqueue") /\ Fine
       \/ row /= "stored" /\ UNCHANGED parsed /\ Step(q, "update", "error") /\ Fine
       \/ Step(q, "update", "error") /\ Fault /\ parsed' \in {parsed, row = "stored"}
    /\ UNCHANGED <<jobs, row, object, pipe, matched, events, history>>

\* outbox.Insert; without its answer it counts as failed, its row there or not.
EnqueueParsed(q) ==
    /\ \/ /\ Step(q, "enqueue", "state") /\ Fine
          /\ outbox' = Add(outbox, "parsed", 1) /\ UNCHANGED failures
       \/ /\ Step(q, "enqueue", "fail") /\ Fault
          /\ outbox' \in {outbox, Add(outbox, "parsed", 1)} /\ failures' = failures + 1
    /\ UNCHANGED <<tables, queue, fate>>

\* UpsertState, or MarkFailure when the event could not be enqueued; the answer
\* is 200 in both cases.
MarkParsed(q) ==
    /\ \/ Step(q, "state", "ok") /\ Mark("parsed")
       \/ Step(q, "fail", "ok") /\ ReportFail
    /\ UNCHANGED <<jobs, row, parsed, object, matched, events, history>>

\* The service dies, or notices that the parser has hung up.
PutAborted(q) ==
    /\ pc[q] \in {"update", "enqueue", "state", "fail"} /\ Goto(q, "error")
    /\ IF pc["parser"] = q THEN Fault ELSE Fine
    /\ UNCHANGED <<tables, events, history>>

PutStep(q) == UpdateParsed(q) \/ EnqueueParsed(q) \/ MarkParsed(q)

-----------------------------------------------------------------------------
(* job-matcher: handleKafkaEvent and handleRabbitEvent ("event"), and          *)
(* matchAllResumes ("cron")                                                    *)

\* The first scrape that brings something.
FirstJob ==
    /\ ~jobs /\ jobs' = TRUE
    /\ UNCHANGED <<row, parsed, object, pipe, matched, events, pc, history, faults>>

TakeParsed ==
    /\ Step("event", "idle", "processed") /\ queue["parsed"] > 0
    /\ queue' = Add(queue, "parsed", -1)
    /\ UNCHANGED <<tables, outbox, history, faults>>

MarkProcessed ==
    /\ Step("event", "processed", "read") /\ Mark("processed")
    /\ UNCHANGED <<jobs, row, parsed, object, matched, events, history>>

\* Mutant of Select: a sweep over the resumes whose event is still expected.
SelectByState ==
    /\ row = "stored" /\ parsed /\ pipe.state = "parsed" /\ Step("cron", "idle", "read")
    /\ UNCHANGED <<tables, events, history, faults>>

\* SELECT id FROM resumes WHERE jsonb_array_length(parsed_keywords) > 0.
Select ==
    /\ row = "stored" /\ parsed /\ Step("cron", "idle", "read")
    /\ UNCHANGED <<tables, events, history, faults>>

\* What an error of matchResume leads to: the event handlers call MarkFailure,
\* matchAllResumes only logs it.
RunFails(m) ==
    \/ m = "event" /\ Goto(m, "fail") /\ failures' = failures + 1
    \/ m = "cron" /\ Goto(m, "idle") /\ UNCHANGED failures

\* The resume, the jobs and the behaviour; without any job the run is over.
ReadResume(m) ==
    /\ pc[m] = "read"
    /\ \/ /\ row = "stored" /\ Goto(m, IF jobs THEN "store" ELSE "idle")
          /\ Fine /\ UNCHANGED failures
       \/ row /= "stored" /\ RunFails(m) /\ Fine
       \/ RunFails(m) /\ Fault
    /\ UNCHANGED <<tables, events, fate>>

\* Mutant of StoreMatches: the error of the commit is not looked at.
StoreUnchecked(m) ==
    /\ Step(m, "store", "enqueue")
    /\ \/ matched' = (row = "stored") /\ Fine
       \/ UNCHANGED matched /\ Fault
    /\ UNCHANGED <<jobs, row, parsed, object, pipe, events, history>>

\* The transaction; its foreign key refuses a resume that is gone.
StoreMatches(m) ==
    /\ pc[m] = "store"
    /\ \/ row = "stored" /\ matched' = TRUE /\ Goto(m, "enqueue") /\ Fine /\ UNCHANGED failures
       \/ row /= "stored" /\ RunFails(m) /\ UNCHANGED matched /\ Fine
       \/ RunFails(m) /\ matched' \in {matched, row = "stored"} /\ Fault
    /\ UNCHANGED <<jobs, row, parsed, object, pipe, events, fate>>

\* outbox.Insert of job_matches_generated; its failure is marked, not returned.
Announce(m) ==
    /\ \/ Step(m, "enqueue", "state") /\ UNCHANGED failures /\ Fine
       \/ Step(m, "enqueue", "fail") /\ failures' = failures + 1 /\ Fault
    /\ UNCHANGED <<tables, events, fate>>

EndRun(m) ==
    /\ \/ Step(m, "state", "idle") /\ Mark("matched")
       \/ Step(m, "fail", "idle") /\ ReportFail
    /\ UNCHANGED <<jobs, row, parsed, object, matched, events, history>>

\* The matcher dies: a RabbitMQ delivery comes back, a marked Kafka one does not.
RunDies(m) ==
    /\ pc[m] /= "idle" /\ Goto(m, "idle") /\ Fault
    /\ UNCHANGED queue \/ (m = "event" /\ queue' = Add(queue, "parsed", 1))
    /\ UNCHANGED <<tables, outbox, history>>

RunStep(m) == ReadResume(m) \/ StoreMatches(m) \/ Announce(m) \/ EndRun(m)

-----------------------------------------------------------------------------
(* recommendation-service: handleRecommendations; resume-service: handleDelete *)

\* Count and page, on a cache miss.
ReadPage ==
    /\ row /= "none" /\ Step("reader", "idle", "state")
    /\ UNCHANGED <<tables, events, history, faults>>

MarkRecommended ==
    /\ Step("reader", "state", "idle") /\ Mark("recommended")
    /\ UNCHANGED <<jobs, row, parsed, object, matched, events, history>>

\* Mutant of DeleteRow: the object goes first.
DeleteObjectFirst ==
    /\ row = "stored" /\ Step("delete", "idle", "remove") /\ object' = FALSE
    /\ UNCHANGED <<jobs, row, parsed, pipe, matched, events, history, faults>>

\* DELETE ... RETURNING object_key; the foreign keys take the other rows along.
\* An error, a statement applied without an answer included, is a 404.
DeleteRow ==
    /\ row = "stored"
    /\ row' = "deleted" /\ parsed' = FALSE /\ pipe' = NoPipelineRow /\ matched' = FALSE
    /\ \/ Step("delete", "idle", "remove") /\ Fine
       \/ Step("delete", "idle", "done") /\ Fault
    /\ UNCHANGED <<jobs, object, events, history>>

\* RemoveObject; its error is only logged.
RemoveObject ==
    /\ Step("delete", "remove", "done")
    /\ \/ object' = FALSE /\ Fine
       \/ UNCHANGED object /\ Fault
    /\ UNCHANGED <<jobs, row, parsed, pipe, matched, events, history>>

-----------------------------------------------------------------------------
AtRest ==
    /\ pc["upload"] = "done" /\ pc["delete"] /= "remove"
    /\ \A p \in Runs \union {"parser", "reader"} : pc[p] = "idle"
    /\ \A q \in Requests : pc[q] \in {"none", "ok", "error"}
    /\ \A t \in Types : outbox[t] = 0 /\ queue[t] = 0

\* Nothing is left to do but requests of the user.
Resting == AtRest /\ UNCHANGED vars

Next ==
    \/ UploadStep \/ UploadAborted
    \/ \E t \in Types : Deliver(t) \/ Loses(t)
    \/ BrokerRestarts
    \/ ParserStep \/ PutTimesOut \/ ParserDies
    \/ \E q \in Requests : PutStep(q) \/ PutAborted(q)
    \/ FirstJob \/ TakeParsed \/ MarkProcessed \/ Select
    \/ \E m \in Runs : RunStep(m) \/ RunDies(m)
    \/ ReadPage \/ MarkRecommended \/ DeleteRow \/ RemoveObject
    \/ Resting

\* Handlers run on, the relay polls, the parser consumes and CRON_MATCH fires; the
\* loops of job-matcher may return for good, so that none has to take an event, and
\* nobody has to read or delete, nor a scrape to bring a job.
Fairness ==
    /\ WF_vars(UploadStep) /\ WF_vars(ParserStep)
    /\ \A t \in Types : WF_vars(Deliver(t))
    /\ \A q \in Requests : WF_vars(PutStep(q))
    /\ WF_vars(MarkProcessed \/ RunStep("event"))
    /\ WF_vars(Select \/ RunStep("cron"))

Spec == Init /\ [][Next]_vars /\ Fairness

-----------------------------------------------------------------------------
(* Types and invariants *)

Places ==
    [upload |-> {"put", "insert", "state", "enqueue", "state2", "done"},
     parser |-> {"idle", "fetch"} \union Requests,
     event  |-> {"idle", "processed", "read", "store", "enqueue", "state", "fail"},
     cron   |-> {"idle", "read", "store", "enqueue", "state", "fail"},
     reader |-> {"idle", "state"},
     delete |-> {"idle", "remove", "done"}]

\* Every variable keeps its type; pipeline_states only holds states its CHECK
\* constraint lists.
TypeOK ==
    /\ row \in {"none", "stored", "deleted"}
    /\ parsed \in BOOLEAN /\ object \in BOOLEAN /\ matched \in BOOLEAN /\ jobs \in BOOLEAN
    /\ pipe \in [state : States, retries : Nat]
    /\ outbox \in [Types -> Nat] /\ queue \in [Types -> Nat]
    /\ DOMAIN pc = Handlers \union Requests
    /\ \A p \in Handlers : pc[p] \in Places[p]
    /\ \A q \in Requests : pc[q] \in {"none", "update", "enqueue", "state", "fail", "ok", "error"}
    /\ fate \in Fates /\ failures \in Nat /\ faults \in 0..MaxFaults

\* A listed resume can be downloaded: while its row is there, so is its object,
\* whichever of upload and delete fails or dies at whichever statement.
RowHasObject == row = "stored" => object

\* A deleted resume leaves no row behind, however late the parser's request, the
\* matcher or a reader writes.
GoneLeavesNothing == row /= "stored" => pipe = NoPipelineRow /\ ~matched /\ ~parsed

\* Who finds the state matched finds matches and keywords in the tables.
MatchedMeansStored == pipe.state = "matched" => matched /\ parsed

\* A run that an event started finds the keywords the event tells of, unless the
\* resume has been deleted since.
EventsFindKeywords ==
    (pc["event"] /= "idle" \/ queue["parsed"] > 0 \/ outbox["parsed"] > 0)
        => parsed \/ row = "deleted"

\* The pipeline reaches dead_letter by maxRetries failures of this resume, and every
\* failure it counts has happened: stale and repeated deliveries count nothing twice.
DeadLetterIsEarned ==
    /\ pipe.state = "dead_letter" => failures >= FailureLimit
    /\ pipe.retries <= failures

\* The ways an upload is lost: when nothing is going on, a resume without keywords
\* had its upload cut short before the event was enqueued, or the parser dropped
\* the message, the relay gave the event up, or RabbitMQ lost it.  A crash of the
\* parser or the relay and a repeated delivery are none of them.
UnparsedHasCause == AtRest /\ row = "stored" /\ ~parsed => fate /= "enqueued"

\* Liveness: no resume_uploaded event stays on its way for ever; it comes to keywords,
\* to a deleted resume or to one of those losses, however often the parser and the
\* relay die.
UploadsSettle == []<>(fate = "enqueued" => parsed \/ row = "deleted")

\* Liveness: no parsed resume stays without matches for ever once there are jobs: the
\* scheduled sweep makes up for any lost resume_parsed event, and for a run that came
\* before the first job.
SweepHeals == []<>(row = "stored" /\ parsed /\ jobs => matched)
=============================================================================
