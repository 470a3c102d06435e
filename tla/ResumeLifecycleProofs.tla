------------------------- MODULE ResumeLifecycleProofs -------------------------
(* Proofs about ResumeLifecycle, for any number of requests and faults.        *)
EXTENDS ResumeLifecycle, FiniteSetTheorems, TLAPS

PutPlaces == {"none", "update", "enqueue", "state", "fail", "ok", "error"}

\* The conjuncts of TypeOK about program counters.
PlaceOK ==
    /\ DOMAIN pc = Handlers \union Requests
    /\ \A p \in Handlers : pc[p] \in Places[p]
    /\ \A q \in Requests : pc[q] \in PutPlaces

-----------------------------------------------------------------------------
(* Type correctness.                                                           *)

\* A handler or a request that goes to one of its places leaves the others alone.
LEMMA GotoPlace ==
    ASSUME PlaceOK, NEW p \in Handlers \union Requests, NEW to, Goto(p, to),
           p \in Handlers => to \in Places[p],
           p \in Requests => to \in PutPlaces
    PROVE  PlaceOK'
BY LifecycleAssumption DEF PlaceOK, Goto

LEMMA UpsertType ==
    ASSUME pipe \in [state : States, retries : Nat], NEW s \in States
    PROVE  /\ UpsertState(pipe, s) \in [state : States, retries : Nat]
           /\ UpsertState(pipe, s).state = s
           /\ UpsertState(pipe, s).retries = pipe.retries
BY DEF UpsertState

LEMMA FailureType ==
    ASSUME pipe \in [state : States, retries : Nat]
    PROVE  /\ MarkFailure(pipe) \in [state : States, retries : Nat]
           /\ MarkFailure(pipe).state \in {"failed", "dead_letter"}
           /\ MarkFailure(pipe).state = "dead_letter" => MarkFailure(pipe).retries >= FailureLimit
           /\ MarkFailure(pipe).retries <= pipe.retries + 1
BY WorkflowAssumption DEF MarkFailure, States

LEMMA PipeType ==
    ASSUME TypeOK, NEW new \in [state : States, retries : Nat], PipeWrite(new)
    PROVE  pipe' \in [state : States, retries : Nat] /\ faults' \in 0..MaxFaults
BY LifecycleAssumption DEF TypeOK, PipeWrite, Fine, Fault

LEMMA MarkType ==
    ASSUME TypeOK, NEW s \in States, Mark(s)
    PROVE  pipe' \in [state : States, retries : Nat] /\ faults' \in 0..MaxFaults
<1>1. UpsertState(pipe, s) \in [state : States, retries : Nat]
  BY UpsertType DEF TypeOK
<1> QED
  BY <1>1, PipeType DEF Mark

LEMMA ReportType ==
    ASSUME TypeOK, ReportFail
    PROVE  pipe' \in [state : States, retries : Nat] /\ faults' \in 0..MaxFaults
<1>1. MarkFailure(pipe) \in [state : States, retries : Nat]
  BY FailureType DEF TypeOK
<1> QED
  BY <1>1, PipeType DEF ReportFail

\* The tables, the events and the history, without the program counters.
DataOK ==
    /\ row \in {"none", "stored", "deleted"}
    /\ parsed \in BOOLEAN /\ object \in BOOLEAN /\ matched \in BOOLEAN /\ jobs \in BOOLEAN
    /\ pipe \in [state : States, retries : Nat]
    /\ outbox \in [Types -> Nat] /\ queue \in [Types -> Nat]
    /\ fate \in Fates /\ failures \in Nat /\ faults \in 0..MaxFaults

LEMMA TypeParts == TypeOK <=> DataOK /\ PlaceOK
BY DEF TypeOK, DataOK, PlaceOK, PutPlaces

LEMMA FaultType ==
    ASSUME DataOK, Fine \/ Fault
    PROVE  faults' \in 0..MaxFaults
BY LifecycleAssumption DEF DataOK, Fine, Fault

\* Adding messages or rows, or taking one that is there.
LEMMA AddType ==
    ASSUME DataOK, NEW t \in Types
    PROVE  /\ Add(outbox, t, 1) \in [Types -> Nat]
           /\ \A n \in Nat : Add(queue, t, n) \in [Types -> Nat]
           /\ outbox[t] > 0 => Add(outbox, t, -1) \in [Types -> Nat]
           /\ queue[t] > 0 => Add(queue, t, -1) \in [Types -> Nat]
BY DEF Add, DataOK

LEMMA StepData == TypeOK /\ [Next]_vars => DataOK'
<1> SUFFICES ASSUME TypeOK, [Next]_vars PROVE DataOK'
  OBVIOUS
<1>t. DataOK /\ PlaceOK
  BY TypeParts
<1>s. {"uploaded", "parsed", "processed", "matched", "recommended"} \subseteq States
  BY DEF States
<1>a. "uploaded" \in Types /\ "parsed" \in Types
  BY DEF Types
<1> USE <1>t, <1>s, <1>a DEF DataOK
<1>1. CASE PutObject \/ InsertRow
  BY <1>1, FaultType DEF PutObject, InsertRow, events, history
<1>2. CASE MarkUploaded
  BY <1>2, MarkType DEF MarkUploaded, events, history
<1>3. CASE EnqueueUploaded
  <2>1. Add(outbox, "uploaded", 1) \in [Types -> Nat]
    BY AddType
  <2> QED
    BY <1>3, <2>1, FaultType DEF EnqueueUploaded, tables, Fates
<1>4. CASE UploadAborted
  BY <1>4, FaultType DEF UploadAborted, tables, events, history
<1>5. ASSUME NEW t \in Types, Deliver(t) \/ Loses(t) PROVE DataOK'
  <2>1. /\ Add(outbox, t, -1) \in [Types -> Nat] /\ Copies(t) \in Nat
        /\ \A n \in Nat : Add(queue, t, n) \in [Types -> Nat]
    BY <1>5, AddType DEF Deliver, Loses, Copies
  <2>2. outbox' \in [Types -> Nat] /\ queue' \in [Types -> Nat] /\ fate' \in Fates
    <3>1. outbox' \in {outbox, Add(outbox, t, -1)}
      BY <1>5 DEF Deliver, Loses
    <3>2. \E n \in Nat : queue' = Add(queue, t, n)
      BY <1>5, <2>1 DEF Deliver, Loses
    <3>3. fate' \in {fate, "lost"}
      BY <1>5 DEF Deliver, Loses, history
    <3> QED
      BY <2>1, <3>1, <3>2, <3>3 DEF Fates
  <2> QED
    BY <1>5, <2>2, FaultType DEF Deliver, Loses, tables, history
<1>21. CASE BrokerRestarts
  BY <1>21, FaultType DEF BrokerRestarts, tables, Fates
<1>22. CASE FirstJob
  BY <1>22 DEF FirstJob, events, history
<1>6. CASE TakeUpload
  <2>1. Add(queue, "uploaded", -1) \in [Types -> Nat]
    BY <1>6, AddType DEF TakeUpload
  <2> QED
    BY <1>6, <2>1 DEF TakeUpload, tables, history
<1>7. CASE SendParsed \/ TakeAnswer \/ PutTimesOut
  BY <1>7, FaultType DEF SendParsed, TakeAnswer, PutTimesOut, Drop, tables, events, Fine, Fates
<1>8. CASE ParserDies
  <2>1. Add(queue, "uploaded", 1) \in [Types -> Nat]
    BY AddType
  <2> QED
    BY <1>8, <2>1, FaultType DEF ParserDies, tables, Fates
<1>9. ASSUME NEW q \in Requests, UpdateParsed(q) PROVE DataOK'
  BY <1>9, FaultType DEF UpdateParsed, events, history
<1>10. ASSUME NEW q \in Requests, EnqueueParsed(q) PROVE DataOK'
  <2>1. Add(outbox, "parsed", 1) \in [Types -> Nat]
    BY AddType
  <2> QED
    BY <1>10, <2>1, FaultType DEF EnqueueParsed, tables
<1>11. ASSUME NEW q \in Requests, MarkParsed(q) PROVE DataOK'
  BY <1>11, MarkType, ReportType DEF MarkParsed, events, history
<1>12. ASSUME NEW q \in Requests, PutAborted(q) PROVE DataOK'
  BY <1>12, FaultType DEF PutAborted, tables, events, history
<1>13. CASE TakeParsed
  <2>1. Add(queue, "parsed", -1) \in [Types -> Nat]
    BY <1>13, AddType DEF TakeParsed
  <2> QED
    BY <1>13, <2>1 DEF TakeParsed, tables, history
<1>14. CASE MarkProcessed \/ MarkRecommended
  BY <1>14, MarkType DEF MarkProcessed, MarkRecommended, events, history
<1>15. CASE Select \/ ReadPage
  BY <1>15 DEF Select, ReadPage, tables, events, history
<1>16. ASSUME NEW m \in Runs, ReadResume(m) \/ StoreMatches(m) \/ Announce(m) PROVE DataOK'
  <2>1. CASE ReadResume(m)
    BY <2>1, FaultType DEF ReadResume, RunFails, tables, events
  <2>2. CASE StoreMatches(m)
    <3>1. matched' \in BOOLEAN
      BY <2>2 DEF StoreMatches
    <3>2. failures' \in Nat /\ faults' \in 0..MaxFaults
      BY <2>2, FaultType DEF StoreMatches, RunFails
    <3> QED
      BY <2>2, <3>1, <3>2 DEF StoreMatches, events
  <2>3. CASE Announce(m)
    BY <2>3, FaultType DEF Announce, tables, events
  <2> QED
    BY <1>16, <2>1, <2>2, <2>3
<1>17. ASSUME NEW m \in Runs, EndRun(m) PROVE DataOK'
  BY <1>17, MarkType, ReportType DEF EndRun, events, history
<1>18. ASSUME NEW m \in Runs, RunDies(m) PROVE DataOK'
  <2>1. Add(queue, "parsed", 1) \in [Types -> Nat]
    BY AddType
  <2> QED
    BY <1>18, <2>1, FaultType DEF RunDies, tables, history
<1>19. CASE DeleteRow \/ RemoveObject
  <2>1. NoPipelineRow \in [state : States, retries : Nat]
    BY DEF NoPipelineRow, States
  <2> QED
    BY <1>19, <2>1, FaultType DEF DeleteRow, RemoveObject, events, history
<1>20. CASE UNCHANGED vars
  BY <1>20 DEF vars, tables, events, history
<1> QED
  BY <1>1, <1>2, <1>3, <1>4, <1>5, <1>6, <1>7, <1>8, <1>9, <1>10, <1>11, <1>12, <1>13,
     <1>14, <1>15, <1>16, <1>17, <1>18, <1>19, <1>20, <1>21, <1>22
     DEF Next, UploadStep, ParserStep, PutStep, RunStep, Resting

LEMMA StepPlaces == TypeOK /\ [Next]_vars => PlaceOK'
<1> SUFFICES ASSUME TypeOK, [Next]_vars PROVE PlaceOK'
  OBVIOUS
<1>t. DataOK /\ PlaceOK
  BY TypeParts
<1>p. /\ Places["upload"] = {"put", "insert", "state", "enqueue", "state2", "done"}
      /\ Places["parser"] = {"idle", "fetch"} \union Requests
      /\ Places["event"] = {"idle", "processed", "read", "store", "enqueue", "state", "fail"}
      /\ Places["cron"] = {"idle", "read", "store", "enqueue", "state", "fail"}
      /\ Places["reader"] = {"idle", "state"}
      /\ Places["delete"] = {"idle", "remove", "done"}
      /\ \A m \in Runs : {"idle", "read", "store", "enqueue", "state", "fail"} \subseteq Places[m]
  BY DEF Places, Runs
<1>h. /\ {"upload", "parser", "event", "cron", "reader", "delete"} \subseteq Handlers
      /\ Runs \subseteq Handlers /\ Requests \intersect Handlers = {}
      /\ "upload" \notin Requests /\ "parser" \notin Requests /\ "reader" \notin Requests
      /\ "delete" \notin Requests /\ \A m \in Runs : m \notin Requests
  BY LifecycleAssumption DEF Handlers, Runs
<1> USE <1>t, <1>p, <1>h DEF Step
<1>1. CASE UploadStep \/ UploadAborted
  BY <1>1, GotoPlace DEF UploadStep, PutObject, InsertRow, MarkUploaded, EnqueueUploaded, UploadAborted
<1>2. CASE TakeUpload \/ TakeAnswer \/ PutTimesOut \/ ParserDies
  BY <1>2, GotoPlace DEF TakeUpload, TakeAnswer, PutTimesOut, ParserDies, Drop
<1>3. CASE SendParsed
  <2>1. CASE Drop
    BY <2>1, GotoPlace DEF Drop
  <2>2. ASSUME NEW q \in Requests, pc' = [pc EXCEPT ![q] = "update", !["parser"] = q]
        PROVE  PlaceOK'
    BY <2>2 DEF PlaceOK, PutPlaces
  <2> QED
    BY <1>3, <2>1, <2>2 DEF SendParsed
<1>4. ASSUME NEW q \in Requests, PutStep(q) \/ PutAborted(q) PROVE PlaceOK'
  BY <1>4, GotoPlace DEF PutStep, UpdateParsed, EnqueueParsed, MarkParsed, PutAborted, PutPlaces
<1>5. CASE TakeParsed \/ MarkProcessed
  BY <1>5, GotoPlace DEF TakeParsed, MarkProcessed
<1>6. CASE Select
  BY <1>6, GotoPlace DEF Select
<1>7. ASSUME NEW m \in Runs, RunStep(m) \/ RunDies(m) PROVE PlaceOK'
  BY <1>7, GotoPlace DEF RunStep, ReadResume, StoreMatches, Announce, EndRun, RunDies, RunFails
<1>8. CASE ReadPage \/ MarkRecommended
  BY <1>8, GotoPlace DEF ReadPage, MarkRecommended
<1>9. CASE DeleteRow \/ RemoveObject
  BY <1>9, GotoPlace DEF DeleteRow, RemoveObject
<1>10. ASSUME UNCHANGED pc PROVE PlaceOK'
  BY <1>10 DEF PlaceOK
<1>11. ASSUME NEW t \in Types, Deliver(t) \/ Loses(t) PROVE UNCHANGED pc
  BY <1>11 DEF Deliver, Loses
<1>12. CASE BrokerRestarts \/ FirstJob
  BY <1>12, <1>10 DEF BrokerRestarts, FirstJob
<1> QED
  BY <1>1, <1>2, <1>3, <1>4, <1>5, <1>6, <1>7, <1>8, <1>9, <1>10, <1>11, <1>12
     DEF Next, ParserStep, Resting, vars

LEMMA StepType == TypeOK /\ [Next]_vars => TypeOK'
<1> SUFFICES ASSUME TypeOK, [Next]_vars PROVE TypeOK'
  OBVIOUS
<1>1. DataOK' /\ PlaceOK'
  BY StepData, StepPlaces
<1> QED
  BY <1>1 DEF TypeOK, DataOK, PlaceOK, PutPlaces

-----------------------------------------------------------------------------
(* Frames: what a step leaves alone.                                           *)

Processes == Handlers \union Requests

LEMMA GotoFrame ==
    ASSUME PlaceOK, NEW p \in Processes, NEW to, Goto(p, to)
    PROVE  pc'[p] = to /\ \A r \in Processes \ {p} : pc'[r] = pc[r]
BY DEF PlaceOK, Goto, Processes

LEMMA Distinct ==
    /\ Handlers \subseteq Processes /\ Requests \subseteq Processes
    /\ Handlers \intersect Requests = {}
    /\ Handlers = {"upload", "parser", "event", "cron", "reader", "delete"}
    /\ Runs = {"event", "cron"} /\ Types = {"uploaded", "parsed"}
    /\ "idle" \notin Requests /\ "fetch" \notin Requests
BY LifecycleAssumption DEF Processes, Handlers, Runs, Types

\* A write to pipeline_states touches no row of a resume that is not there.
LEMMA MarkFrame ==
    ASSUME TypeOK, NEW s \in States, Mark(s)
    PROVE  /\ row /= "stored" => pipe' = pipe
           /\ pipe'.state \in {pipe.state, s} /\ pipe'.retries = pipe.retries
<1>1. UpsertState(pipe, s).state = s /\ UpsertState(pipe, s).retries = pipe.retries
  BY UpsertType DEF TypeOK
<1> QED
  BY <1>1 DEF Mark, PipeWrite

LEMMA ReportFrame ==
    ASSUME TypeOK, ReportFail
    PROVE  /\ row /= "stored" => pipe' = pipe
           /\ pipe' = pipe \/ pipe' = MarkFailure(pipe)
           /\ pipe'.state = "matched" => pipe' = pipe
<1>1. MarkFailure(pipe).state \in {"failed", "dead_letter"}
  BY FailureType DEF TypeOK
<1> QED
  BY <1>1 DEF ReportFail, PipeWrite

LEMMA AddFrame ==
    ASSUME DataOK, NEW t \in Types, NEW n \in Int
    PROVE  /\ Add(outbox, t, n)[t] = outbox[t] + n /\ Add(queue, t, n)[t] = queue[t] + n
           /\ \A u \in Types \ {t} : Add(outbox, t, n)[u] = outbox[u] /\ Add(queue, t, n)[u] = queue[u]
BY DEF Add, DataOK

-----------------------------------------------------------------------------
(* Row, object and what hangs on the row.                                      *)

TableInv ==
    /\ RowHasObject /\ GoneLeavesNothing
    /\ pc["upload"] \in {"put", "insert"} => row = "none"
    /\ pc["upload"] = "insert" => object
    /\ pc["delete"] = "remove" => row = "deleted"

LEMMA StepTable == TypeOK /\ TableInv /\ [Next]_vars => TableInv'
<1> SUFFICES ASSUME TypeOK, TableInv, [Next]_vars PROVE TableInv'
  OBVIOUS
<1>t. DataOK /\ PlaceOK
  BY TypeParts
<1>s. {"uploaded", "parsed", "processed", "matched", "recommended"} \subseteq States
  BY DEF States
<1> USE <1>t, Distinct DEF TableInv, RowHasObject, GoneLeavesNothing, Step
<1>1. CASE PutObject
  <2>1. pc["upload"] = "put" /\ pc'["upload"] \in {"insert", "done"} /\ pc'["delete"] = pc["delete"]
    BY <1>1, GotoFrame DEF PutObject
  <2>2. pc'["upload"] = "insert" => object'
    BY <1>1, GotoFrame DEF PutObject
  <2> QED
    BY <1>1, <2>1, <2>2 DEF PutObject
<1>2. CASE InsertRow
  <2>1. pc["upload"] = "insert" /\ pc'["upload"] \in {"state", "done"} /\ pc'["delete"] = pc["delete"]
    BY <1>2, GotoFrame DEF InsertRow
  <2> QED
    BY <1>2, <2>1 DEF InsertRow
<1>3. CASE MarkUploaded \/ EnqueueUploaded \/ UploadAborted
  <2>1. pc'["upload"] \notin {"put", "insert"} /\ pc'["delete"] = pc["delete"]
    BY <1>3, GotoFrame DEF MarkUploaded, EnqueueUploaded, UploadAborted
  <2>2. row /= "stored" => pipe' = pipe
    BY <1>3, <1>s, MarkFrame DEF MarkUploaded, EnqueueUploaded, UploadAborted, tables
  <2> QED
    BY <1>3, <2>1, <2>2 DEF MarkUploaded, EnqueueUploaded, UploadAborted, tables
<1>4. ASSUME NEW t \in Types, Deliver(t) \/ Loses(t) PROVE TableInv'
  BY <1>4 DEF Deliver, Loses, tables
<1>12. CASE BrokerRestarts \/ FirstJob
  BY <1>12 DEF BrokerRestarts, FirstJob, tables
<1>5. CASE ParserStep \/ PutTimesOut \/ ParserDies
  <2>1. pc'["upload"] = pc["upload"] /\ pc'["delete"] = pc["delete"]
    <3>1. CASE TakeUpload \/ TakeAnswer \/ PutTimesOut \/ ParserDies \/ Drop
      BY <3>1, GotoFrame DEF TakeUpload, TakeAnswer, PutTimesOut, ParserDies, Drop
    <3>2. CASE \E q \in Requests : pc' = [pc EXCEPT ![q] = "update", !["parser"] = q]
      BY <3>2 DEF PlaceOK
    <3> QED
      BY <1>5, <3>1, <3>2 DEF ParserStep, SendParsed
  <2> QED
    BY <1>5, <2>1 DEF ParserStep, TakeUpload, SendParsed, TakeAnswer, PutTimesOut, ParserDies, tables
<1>6. ASSUME NEW q \in Requests, PutStep(q) \/ PutAborted(q) PROVE TableInv'
  <2>1. pc'["upload"] = pc["upload"] /\ pc'["delete"] = pc["delete"]
    BY <1>6, GotoFrame DEF PutStep, UpdateParsed, EnqueueParsed, MarkParsed, PutAborted
  <2>2. row /= "stored" => pipe' = pipe
    BY <1>6, <1>s, MarkFrame, ReportFrame
       DEF PutStep, UpdateParsed, EnqueueParsed, MarkParsed, PutAborted, tables
  <2>3. row /= "stored" => (parsed' => parsed)
    BY <1>6 DEF PutStep, UpdateParsed, EnqueueParsed, MarkParsed, PutAborted, tables
  <2> QED
    BY <1>6, <2>1, <2>2, <2>3 DEF PutStep, UpdateParsed, EnqueueParsed, MarkParsed, PutAborted, tables
<1>7. CASE TakeParsed \/ MarkProcessed \/ Select \/ ReadPage \/ MarkRecommended
  <2>1. pc'["upload"] = pc["upload"] /\ pc'["delete"] = pc["delete"]
    BY <1>7, GotoFrame DEF TakeParsed, MarkProcessed, Select, ReadPage, MarkRecommended
  <2>2. row /= "stored" => pipe' = pipe
    BY <1>7, <1>s, MarkFrame
       DEF TakeParsed, MarkProcessed, Select, ReadPage, MarkRecommended, tables
  <2> QED
    BY <1>7, <2>1, <2>2 DEF TakeParsed, MarkProcessed, Select, ReadPage, MarkRecommended, tables
<1>8. ASSUME NEW m \in Runs, RunStep(m) \/ RunDies(m) PROVE TableInv'
  <2>1. pc'["upload"] = pc["upload"] /\ pc'["delete"] = pc["delete"]
    BY <1>8, GotoFrame DEF RunStep, ReadResume, StoreMatches, Announce, EndRun, RunDies, RunFails
  <2>2. row /= "stored" => pipe' = pipe /\ (matched' => matched)
    BY <1>8, <1>s, MarkFrame, ReportFrame
       DEF RunStep, ReadResume, StoreMatches, Announce, EndRun, RunDies, tables
  <2> QED
    BY <1>8, <2>1, <2>2 DEF RunStep, ReadResume, StoreMatches, Announce, EndRun, RunDies, tables
<1>9. CASE DeleteRow
  <2>1. pc'["upload"] = pc["upload"]
    BY <1>9, GotoFrame DEF DeleteRow
  <2> QED
    BY <1>9, <2>1 DEF DeleteRow
<1>10. CASE RemoveObject
  <2>1. pc'["upload"] = pc["upload"] /\ pc["delete"] = "remove" /\ pc'["delete"] = "done"
    BY <1>10, GotoFrame DEF RemoveObject
  <2> QED
    BY <1>10, <2>1 DEF RemoveObject
<1>11. CASE UNCHANGED vars
  BY <1>11 DEF vars, tables
<1> QED
  BY <1>1, <1>2, <1>3, <1>4, <1>5, <1>6, <1>7, <1>8, <1>9, <1>10, <1>11, <1>12
     DEF Next, UploadStep, Resting

-----------------------------------------------------------------------------
(* Keywords and matches.                                                       *)

HasKeywords == parsed \/ row = "deleted"
HasMatches  == matched \/ row = "deleted"

\* A run is only ever started for a resume with keywords, and goes on to announce
\* only what it has stored; a request goes on only when the UPDATE found the row.
WorkInv ==
    /\ MatchedMeansStored /\ EventsFindKeywords
    /\ pc["cron"] /= "idle" => HasKeywords
    /\ \A m \in Runs : pc[m] \in {"enqueue", "state"} => HasMatches
    /\ \A q \in Requests : pc[q] \in {"enqueue", "state", "fail", "ok"} => HasKeywords

\* Once a resume has keywords or matches, it has them until it is deleted.
LEMMA Lasting ==
    ASSUME TypeOK, TableInv, [Next]_vars
    PROVE  (HasKeywords => HasKeywords') /\ (HasMatches => HasMatches')
<1> USE DEF HasKeywords, HasMatches
<1>1. CASE UploadStep \/ UploadAborted
  BY <1>1 DEF UploadStep, PutObject, InsertRow, MarkUploaded, EnqueueUploaded, UploadAborted,
              tables, Step, TableInv
<1>2. CASE UNCHANGED <<row, parsed, matched>>
  BY <1>2
<1>3. ASSUME NEW q \in Requests, UpdateParsed(q)
      PROVE (HasKeywords => HasKeywords') /\ (HasMatches => HasMatches')
  <2>1. row' = row /\ matched' = matched
    BY <1>3 DEF UpdateParsed
  <2>2. parsed => row = "stored"
    BY DEF TableInv, GoneLeavesNothing
  <2>3. parsed => parsed'
    BY <1>3, <2>2 DEF UpdateParsed
  <2> QED
    BY <2>1, <2>3
<1>4. ASSUME NEW m \in Runs, StoreMatches(m)
      PROVE (HasKeywords => HasKeywords') /\ (HasMatches => HasMatches')
  <2>1. row' = row /\ parsed' = parsed
    BY <1>4 DEF StoreMatches
  <2>2. matched => row = "stored"
    BY DEF TableInv, GoneLeavesNothing
  <2>3. matched => matched'
    BY <1>4, <2>2 DEF StoreMatches
  <2> QED
    BY <2>1, <2>3
<1>5. CASE DeleteRow
  BY <1>5 DEF DeleteRow
<1>6. ASSUME NEW t \in Types, Deliver(t) \/ Loses(t) PROVE UNCHANGED <<row, parsed, matched>>
  BY <1>6 DEF Deliver, Loses, tables
<1>7. ASSUME NEW q \in Requests, EnqueueParsed(q) \/ MarkParsed(q) \/ PutAborted(q)
      PROVE UNCHANGED <<row, parsed, matched>>
  BY <1>7 DEF EnqueueParsed, MarkParsed, PutAborted, tables
<1>8. ASSUME NEW m \in Runs, ReadResume(m) \/ Announce(m) \/ EndRun(m) \/ RunDies(m)
      PROVE UNCHANGED <<row, parsed, matched>>
  BY <1>8 DEF ReadResume, Announce, EndRun, RunDies, tables
<1>9. ASSUME ParserStep \/ PutTimesOut \/ ParserDies \/ BrokerRestarts \/ FirstJob \/ TakeParsed \/ MarkProcessed \/ Select
             \/ ReadPage \/ MarkRecommended \/ RemoveObject \/ UNCHANGED vars
      PROVE UNCHANGED <<row, parsed, matched>>
  BY <1>9 DEF ParserStep, TakeUpload, SendParsed, TakeAnswer, PutTimesOut, ParserDies,
              BrokerRestarts, FirstJob, TakeParsed,
              MarkProcessed, Select, ReadPage, MarkRecommended, RemoveObject, vars, tables
<1> QED
  BY <1>1, <1>2, <1>3, <1>4, <1>5, <1>6, <1>7, <1>8, <1>9 DEF Next, PutStep, RunStep, Resting

\* The part of the invariant about who is where.
PlaceInv ==
    /\ EventsFindKeywords
    /\ pc["cron"] /= "idle" => HasKeywords
    /\ \A m \in Runs : pc[m] \in {"enqueue", "state"} => HasMatches
    /\ \A q \in Requests : pc[q] \in {"enqueue", "state", "fail", "ok"} => HasKeywords

LEMMA StepPlaceInv == TypeOK /\ TableInv /\ PlaceInv /\ [Next]_vars => PlaceInv'
<1> SUFFICES ASSUME TypeOK, TableInv, PlaceInv, [Next]_vars PROVE PlaceInv'
  OBVIOUS
<1>t. DataOK /\ PlaceOK
  BY TypeParts
<1>l. (HasKeywords => HasKeywords') /\ (HasMatches => HasMatches')
  BY Lasting
<1>e. EventsFindKeywords' <=>
        (pc'["event"] /= "idle" \/ queue'["parsed"] > 0 \/ outbox'["parsed"] > 0 => HasKeywords')
  BY DEF EventsFindKeywords, HasKeywords
<1>f. pc["event"] /= "idle" \/ queue["parsed"] > 0 \/ outbox["parsed"] > 0 => HasKeywords
  BY DEF PlaceInv, EventsFindKeywords, HasKeywords
<1>n. outbox["parsed"] \in Nat /\ queue["parsed"] \in Nat
  BY <1>t, Distinct DEF DataOK
<1> USE <1>t, <1>l, <1>e, <1>f, <1>n, Distinct DEF PlaceInv, Step
<1>1. CASE UploadStep \/ UploadAborted
  <2>1. \A r \in Processes \ {"upload"} : pc'[r] = pc[r]
    BY <1>1, GotoFrame DEF UploadStep, PutObject, InsertRow, MarkUploaded, EnqueueUploaded, UploadAborted
  <2>2. queue' = queue /\ outbox'["parsed"] = outbox["parsed"]
    BY <1>1, AddFrame DEF UploadStep, PutObject, InsertRow, MarkUploaded, EnqueueUploaded,
                          UploadAborted, events
  <2> QED
    BY <2>1, <2>2
<1>2. ASSUME NEW t \in Types, Deliver(t) \/ Loses(t) PROVE PlaceInv'
  <2>1. pc' = pc /\ outbox[t] > 0
    BY <1>2 DEF Deliver, Loses
  <2>2. t /= "parsed" => queue'["parsed"] = queue["parsed"] /\ outbox'["parsed"] = outbox["parsed"]
    <3>1. Copies(t) \in Nat
      BY DEF Copies
    <3> QED
      BY <1>2, <3>1, AddFrame DEF Deliver, Loses
  <2>3. queue'["parsed"] > 0 \/ outbox'["parsed"] > 0 => queue["parsed"] > 0 \/ outbox["parsed"] > 0
    BY <2>1, <2>2
  <2> QED
    BY <2>1, <2>3
<1>14. CASE BrokerRestarts \/ FirstJob
  BY <1>14 DEF BrokerRestarts, FirstJob, DataOK, events
<1>3. CASE ParserStep \/ PutTimesOut \/ ParserDies
  <2>1. /\ pc'["event"] = pc["event"] /\ pc'["cron"] = pc["cron"]
        /\ \A q \in Requests : pc'[q] \in {pc[q], "update"}
    <3>1. CASE TakeUpload \/ TakeAnswer \/ PutTimesOut \/ ParserDies \/ Drop
      BY <3>1, GotoFrame DEF TakeUpload, TakeAnswer, PutTimesOut, ParserDies, Drop
    <3>2. CASE \E q \in Requests : pc' = [pc EXCEPT ![q] = "update", !["parser"] = q]
      BY <3>2 DEF PlaceOK
    <3> QED
      BY <1>3, <3>1, <3>2 DEF ParserStep, SendParsed
  <2>2. queue'["parsed"] = queue["parsed"] /\ outbox' = outbox
    BY <1>3, AddFrame DEF ParserStep, TakeUpload, SendParsed, TakeAnswer, PutTimesOut, ParserDies, events
  <2> QED
    BY <2>1, <2>2
<1>4. ASSUME NEW q \in Requests, UpdateParsed(q) PROVE PlaceInv'
  <2>1. /\ pc'[q] \in {"enqueue", "error"} /\ \A r \in Processes \ {q} : pc'[r] = pc[r]
        /\ pc'[q] = "enqueue" => parsed'
    BY <1>4, GotoFrame DEF UpdateParsed
  <2>2. UNCHANGED events
    BY <1>4 DEF UpdateParsed
  <2>3. pc'[q] = "enqueue" => HasKeywords'
    BY <2>1 DEF HasKeywords
  <2> QED
    BY <2>1, <2>2, <2>3 DEF events
<1>5. ASSUME NEW q \in Requests, EnqueueParsed(q) PROVE PlaceInv'
  <2>1. /\ pc[q] = "enqueue" /\ \A r \in Processes \ {q} : pc'[r] = pc[r]
        /\ queue' = queue
    BY <1>5, GotoFrame DEF EnqueueParsed
  <2>2. HasKeywords
    BY <2>1
  <2> QED
    BY <2>1, <2>2
<1>6. ASSUME NEW q \in Requests, MarkParsed(q) \/ PutAborted(q) PROVE PlaceInv'
  <2>1. /\ pc'[q] = "error" \/ pc[q] \in {"state", "fail"}
        /\ \A r \in Processes \ {q} : pc'[r] = pc[r]
    BY <1>6, GotoFrame DEF MarkParsed, PutAborted
  <2>2. UNCHANGED events
    BY <1>6 DEF MarkParsed, PutAborted
  <2> QED
    BY <2>1, <2>2 DEF events
<1>7. CASE TakeParsed
  <2>1. /\ queue["parsed"] > 0 /\ pc'["event"] = "processed" /\ outbox' = outbox
        /\ \A r \in Processes \ {"event"} : pc'[r] = pc[r]
    BY <1>7, GotoFrame DEF TakeParsed
  <2> QED
    BY <2>1
<1>8. CASE MarkProcessed
  <2>1. /\ pc["event"] = "processed" /\ pc'["event"] = "read" /\ UNCHANGED events
        /\ \A r \in Processes \ {"event"} : pc'[r] = pc[r]
    BY <1>8, GotoFrame DEF MarkProcessed
  <2> QED
    BY <2>1 DEF events
<1>9. CASE Select
  <2>1. /\ pc'["cron"] = "read" /\ UNCHANGED events /\ parsed
        /\ \A r \in Processes \ {"cron"} : pc'[r] = pc[r]
    BY <1>9, GotoFrame DEF Select
  <2>2. HasKeywords
    BY <2>1 DEF HasKeywords
  <2> QED
    BY <2>1, <2>2 DEF events
<1>10. ASSUME NEW m \in Runs, RunStep(m) PROVE PlaceInv'
  <2>1. /\ pc[m] /= "idle" /\ \A r \in Processes \ {m} : pc'[r] = pc[r]
        /\ UNCHANGED events
    BY <1>10, GotoFrame DEF RunStep, ReadResume, StoreMatches, Announce, EndRun, RunFails
  <2>2. pc'[m] \in {"enqueue", "state"} => HasMatches'
    <3>1. CASE ReadResume(m) \/ EndRun(m)
      BY <3>1, GotoFrame DEF ReadResume, EndRun, RunFails
    <3>2. CASE StoreMatches(m)
      <4>1. pc'[m] = "enqueue" => matched'
        BY <3>2, GotoFrame DEF StoreMatches, RunFails
      <4>2. pc'[m] /= "state"
        BY <3>2, GotoFrame DEF StoreMatches, RunFails
      <4> QED
        BY <4>1, <4>2 DEF HasMatches
    <3>3. CASE Announce(m)
      <4>1. pc[m] = "enqueue"
        BY <3>3 DEF Announce
      <4> QED
        BY <4>1
    <3> QED
      BY <1>10, <3>1, <3>2, <3>3 DEF RunStep
  <2>3. HasKeywords
    BY <2>1
  <2> QED
    BY <2>1, <2>2, <2>3 DEF events
<1>11. ASSUME NEW m \in Runs, RunDies(m) PROVE PlaceInv'
  <2>1. /\ pc[m] /= "idle" /\ pc'[m] = "idle" /\ \A r \in Processes \ {m} : pc'[r] = pc[r]
        /\ outbox' = outbox
    BY <1>11, GotoFrame DEF RunDies
  <2>2. HasKeywords
    BY <2>1
  <2> QED
    BY <2>1, <2>2
<1>12. CASE ReadPage \/ MarkRecommended \/ DeleteRow \/ RemoveObject
  <2>1. /\ \A r \in Processes \ {"reader", "delete"} : pc'[r] = pc[r]
        /\ UNCHANGED events
    BY <1>12, GotoFrame DEF ReadPage, MarkRecommended, DeleteRow, RemoveObject
  <2> QED
    BY <2>1 DEF events
<1>13. CASE UNCHANGED vars
  BY <1>13 DEF vars, events
<1> QED
  BY <1>1, <1>2, <1>3, <1>4, <1>5, <1>6, <1>7, <1>8, <1>9, <1>10, <1>11, <1>12, <1>13, <1>14
     DEF Next, PutStep, Resting

\* Only a run that has stored its matches writes the state matched.
LEMMA MatchedOrigin ==
    ASSUME TypeOK, [Next]_vars, pipe'.state = "matched", pipe.state /= "matched"
    PROVE  \E m \in Runs : pc[m] = "state"
<1>s. {"uploaded", "parsed", "processed", "matched", "recommended"} \subseteq States
  BY DEF States
<1>1. CASE UploadStep \/ MarkProcessed \/ MarkRecommended \/ DeleteRow
  BY <1>1, <1>s, MarkFrame
     DEF UploadStep, PutObject, InsertRow, MarkUploaded, EnqueueUploaded, MarkProcessed,
         MarkRecommended, DeleteRow, NoPipelineRow, tables
<1>2. ASSUME NEW q \in Requests, PutStep(q) PROVE FALSE
  BY <1>2, <1>s, MarkFrame, ReportFrame DEF PutStep, UpdateParsed, EnqueueParsed, MarkParsed, tables
<1>3. ASSUME NEW m \in Runs, EndRun(m) PROVE pc[m] = "state"
  BY <1>3, ReportFrame DEF EndRun, Step
<1>4. ASSUME NEW m \in Runs, ReadResume(m) \/ StoreMatches(m) \/ Announce(m) \/ RunDies(m)
      PROVE pipe' = pipe
  BY <1>4 DEF ReadResume, StoreMatches, Announce, RunDies, tables
<1>5. ASSUME NEW t \in Types, Deliver(t) \/ Loses(t) PROVE pipe' = pipe
  BY <1>5 DEF Deliver, Loses, tables
<1>6. ASSUME NEW q \in Requests, PutAborted(q) PROVE pipe' = pipe
  BY <1>6 DEF PutAborted, tables
<1>7. ASSUME UploadAborted \/ ParserStep \/ PutTimesOut \/ ParserDies \/ BrokerRestarts
             \/ FirstJob \/ TakeParsed \/ Select \/ ReadPage \/ RemoveObject \/ UNCHANGED vars
      PROVE pipe' = pipe
  BY <1>7 DEF UploadAborted, ParserStep, TakeUpload, SendParsed, TakeAnswer, PutTimesOut, ParserDies,
              BrokerRestarts, FirstJob, TakeParsed, Select, ReadPage, RemoveObject, vars, tables
<1> QED
  BY <1>1, <1>2, <1>3, <1>4, <1>5, <1>6, <1>7 DEF Next, RunStep, Resting

LEMMA StepWork == TypeOK /\ TableInv /\ WorkInv /\ [Next]_vars => WorkInv'
<1> SUFFICES ASSUME TypeOK, TableInv, WorkInv, [Next]_vars PROVE WorkInv'
  OBVIOUS
<1>1. PlaceInv'
  BY StepPlaceInv DEF WorkInv, PlaceInv
<1>2. TableInv'
  BY StepTable
<1>3. (HasKeywords => HasKeywords') /\ (HasMatches => HasMatches')
  BY Lasting
<1>4. ASSUME pipe'.state = "matched" PROVE matched' /\ parsed'
  <2>1. row' = "stored"
    BY <1>2, <1>4 DEF TableInv, GoneLeavesNothing, NoPipelineRow
  <2>2. HasKeywords /\ HasMatches
    <3>1. CASE pipe.state = "matched"
      BY <3>1 DEF WorkInv, MatchedMeansStored, HasKeywords, HasMatches
    <3>2. CASE pipe.state /= "matched"
      <4>1. PICK m \in Runs : pc[m] = "state"
        BY <1>4, <3>2, MatchedOrigin
      <4> QED
        BY <4>1, Distinct DEF WorkInv, EventsFindKeywords, HasKeywords
    <3> QED
      BY <3>1, <3>2
  <2> QED
    BY <1>3, <2>1, <2>2 DEF HasKeywords, HasMatches
<1> QED
  BY <1>1, <1>4 DEF WorkInv, PlaceInv, MatchedMeansStored

-----------------------------------------------------------------------------
(* Uploads.                                                                    *)

\* A resume_uploaded event that was enqueued is on its way until its resume has
\* keywords, is deleted, or the event has another fate.
UploadInv ==
    /\ pc["upload"] \in {"put", "insert", "state", "enqueue"} => fate /= "enqueued"
    /\ fate = "enqueued" /\ ~HasKeywords
          => outbox["uploaded"] > 0 \/ queue["uploaded"] > 0 \/ pc["parser"] /= "idle"

LEMMA StepUpload == TypeOK /\ TableInv /\ WorkInv /\ UploadInv /\ [Next]_vars => UploadInv'
<1> SUFFICES ASSUME TypeOK, TableInv, WorkInv, UploadInv, [Next]_vars PROVE UploadInv'
  OBVIOUS
<1>t. DataOK /\ PlaceOK
  BY TypeParts
<1>l. HasKeywords => HasKeywords'
  BY Lasting
<1>n. outbox["uploaded"] \in Nat /\ queue["uploaded"] \in Nat
  BY <1>t, Distinct DEF DataOK
<1> USE <1>t, <1>l, <1>n, Distinct DEF UploadInv, Step
<1>1. CASE PutObject \/ InsertRow \/ MarkUploaded \/ UploadAborted
  <2>1. /\ pc'["upload"] \in {"put", "insert", "state", "enqueue"}
             => pc["upload"] \in {"put", "insert", "state", "enqueue"}
        /\ pc'["parser"] = pc["parser"]
    BY <1>1, GotoFrame DEF PutObject, InsertRow, MarkUploaded, UploadAborted
  <2>2. UNCHANGED <<events, history>>
    BY <1>1 DEF PutObject, InsertRow, MarkUploaded, UploadAborted
  <2> QED
    BY <2>1, <2>2 DEF events, history
<1>2. CASE EnqueueUploaded
  <2>1. pc["upload"] = "enqueue" /\ pc'["upload"] \in {"state2", "done"}
    BY <1>2, GotoFrame DEF EnqueueUploaded
  <2>2. outbox'["uploaded"] > 0 \/ (fate' = fate /\ outbox' = outbox)
    BY <1>2, AddFrame DEF EnqueueUploaded
  <2>3. queue' = queue /\ pc'["parser"] = pc["parser"]
    BY <1>2, GotoFrame DEF EnqueueUploaded
  <2> QED
    BY <2>1, <2>2, <2>3
<1>3. ASSUME NEW t \in Types, Deliver(t) \/ Loses(t) PROVE UploadInv'
  <2>0. Copies(t) \in Nat /\ (t = "uploaded" => Copies(t) = 1) /\ pc' = pc
    BY <1>3 DEF Copies, Deliver, Loses
  <2>1. CASE Deliver(t)
    <3>1. outbox["uploaded"] > 0 \/ queue["uploaded"] > 0
            => outbox'["uploaded"] > 0 \/ queue'["uploaded"] > 0
      BY <2>0, <2>1, AddFrame DEF Deliver
    <3> QED
      BY <2>0, <2>1, <3>1 DEF Deliver, history
  <2>2. CASE Loses(t) /\ t = "uploaded"
    <3>1. fate' = "lost"
      BY <2>2 DEF Loses
    <3> QED
      BY <2>0, <3>1
  <2>3. CASE Loses(t) /\ t /= "uploaded"
    <3>1. outbox'["uploaded"] = outbox["uploaded"] /\ queue'["uploaded"] = queue["uploaded"]
      BY <2>0, <2>3, AddFrame DEF Loses
    <3> QED
      BY <2>0, <2>3, <3>1 DEF Loses
  <2> QED
    BY <1>3, <2>1, <2>2, <2>3
<1>13. CASE BrokerRestarts
  BY <1>13 DEF BrokerRestarts
<1>14. CASE FirstJob
  BY <1>14 DEF FirstJob, events, history
<1>4. CASE Drop
  BY <1>4, GotoFrame DEF Drop
<1>5. CASE TakeUpload
  <2>1. pc'["parser"] = "fetch" /\ pc'["upload"] = pc["upload"]
    BY <1>5, GotoFrame DEF TakeUpload
  <2> QED
    BY <1>5, <2>1 DEF TakeUpload, history
<1>6. ASSUME NEW q \in Requests, pc' = [pc EXCEPT ![q] = "update", !["parser"] = q],
             UNCHANGED fate
      PROVE  UploadInv'
  <2>1. pc'["parser"] = q /\ pc'["upload"] = pc["upload"]
    BY <1>6 DEF PlaceOK
  <2> QED
    BY <1>6, <2>1
<1>7. CASE TakeAnswer /\ ~Drop
  <2>1. /\ pc["parser"] \in Requests /\ pc[pc["parser"]] = "ok" /\ fate' = fate
        /\ pc'["upload"] = pc["upload"]
    BY <1>7, GotoFrame DEF TakeAnswer
  <2>2. HasKeywords
    BY <2>1 DEF WorkInv
  <2> QED
    BY <2>1, <2>2
<1>8. CASE ParserDies
  <2>1. pc'["upload"] = pc["upload"] /\ outbox' = outbox
    BY <1>8, GotoFrame DEF ParserDies
  <2>2. (queue'["uploaded"] > 0 /\ fate' = fate) \/ fate' = "lost"
    BY <1>8, AddFrame DEF ParserDies
  <2> QED
    BY <1>8, <2>1, <2>2
<1>9. ASSUME NEW q \in Requests, PutStep(q) \/ PutAborted(q) PROVE UploadInv'
  <2>1. pc'["parser"] = pc["parser"] /\ pc'["upload"] = pc["upload"]
    BY <1>9, GotoFrame DEF PutStep, UpdateParsed, EnqueueParsed, MarkParsed, PutAborted
  <2>2. UNCHANGED <<queue, fate>> /\ outbox'["uploaded"] = outbox["uploaded"]
    BY <1>9, AddFrame DEF PutStep, UpdateParsed, EnqueueParsed, MarkParsed, PutAborted, events, history
  <2> QED
    BY <2>1, <2>2
<1>10. CASE TakeParsed \/ MarkProcessed \/ Select \/ ReadPage \/ MarkRecommended \/ DeleteRow \/ RemoveObject
  <2>1. pc'["parser"] = pc["parser"] /\ pc'["upload"] = pc["upload"]
    BY <1>10, GotoFrame DEF TakeParsed, MarkProcessed, Select, ReadPage, MarkRecommended, DeleteRow, RemoveObject
  <2>2. UNCHANGED <<outbox, fate>> /\ queue'["uploaded"] = queue["uploaded"]
    BY <1>10, AddFrame DEF TakeParsed, MarkProcessed, Select, ReadPage, MarkRecommended, DeleteRow,
                           RemoveObject, events, history
  <2> QED
    BY <2>1, <2>2
<1>11. ASSUME NEW m \in Runs, RunStep(m) \/ RunDies(m) PROVE UploadInv'
  <2>1. pc'["parser"] = pc["parser"] /\ pc'["upload"] = pc["upload"]
    BY <1>11, GotoFrame DEF RunStep, ReadResume, StoreMatches, Announce, EndRun, RunDies, RunFails
  <2>2. UNCHANGED <<outbox, fate>> /\ queue'["uploaded"] = queue["uploaded"]
    BY <1>11, AddFrame DEF RunStep, ReadResume, StoreMatches, Announce, EndRun, RunDies, events, history
  <2> QED
    BY <2>1, <2>2
<1>12. CASE UNCHANGED vars
  BY <1>12 DEF vars, events, history
<1> QED
  BY <1>1, <1>2, <1>3, <1>4, <1>5, <1>6, <1>7, <1>8, <1>9, <1>10, <1>11, <1>12, <1>13, <1>14
     DEF Next, UploadStep, ParserStep, SendParsed, PutTimesOut, Resting

-----------------------------------------------------------------------------
(* The retry budget of pipeline_states.                                        *)

\* Who has had an error it is about to report by MarkFailure.
Reporting == {p \in Runs \union Requests : pc[p] = "fail"}

\* Failures are counted before they are reported, and each is reported once.
BudgetInv ==
    /\ IsFiniteSet(Reporting)
    /\ pipe.retries + Cardinality(Reporting) <= failures
    /\ pipe.state = "dead_letter" => pipe.retries >= FailureLimit

LEMMA ReportingFrame ==
    ASSUME PlaceOK, NEW p \in Processes, NEW to, Goto(p, to)
    PROVE  /\ to /= "fail" => Reporting' = Reporting \ {p}
           /\ Reporting' \subseteq Reporting \union {p}
BY GotoFrame, Distinct DEF Reporting

\* A step that makes nobody report.
LEMMA BudgetNone ==
    ASSUME TypeOK, DataOK', BudgetInv, Reporting' \subseteq Reporting, failures <= failures',
           pipe'.retries <= pipe.retries,
           pipe'.state = "dead_letter" => pipe' = pipe
    PROVE  BudgetInv'
<1>1. /\ IsFiniteSet(Reporting') /\ Cardinality(Reporting') <= Cardinality(Reporting)
      /\ Cardinality(Reporting) \in Nat /\ Cardinality(Reporting') \in Nat
  BY FS_Subset, FS_CardinalityType DEF BudgetInv
<1>2. pipe.retries \in Nat /\ pipe'.retries \in Nat /\ failures \in Nat /\ failures' \in Nat
  BY DEF TypeOK, DataOK
<1> QED
  BY <1>1, <1>2 DEF BudgetInv

\* A failure that its handler will report, or not.
LEMMA BudgetFailure ==
    ASSUME TypeOK, DataOK', BudgetInv, NEW p, Reporting' \subseteq Reporting \union {p},
           failures' = failures + 1, pipe' = pipe
    PROVE  BudgetInv'
<1>c. IsFiniteSet(Reporting) /\ Cardinality(Reporting) \in Nat
  BY FS_CardinalityType DEF BudgetInv
<1>a. /\ IsFiniteSet(Reporting \union {p})
      /\ Cardinality(Reporting \union {p})
            = Cardinality(Reporting) + (IF p \in Reporting THEN 0 ELSE 1)
  BY <1>c, FS_AddElement
<1>1. /\ IsFiniteSet(Reporting \union {p}) /\ Cardinality(Reporting) \in Nat
      /\ Cardinality(Reporting \union {p}) <= Cardinality(Reporting) + 1
  BY <1>c, <1>a
<1>2. /\ IsFiniteSet(Reporting') /\ Cardinality(Reporting') <= Cardinality(Reporting \union {p})
      /\ Cardinality(Reporting') \in Nat /\ Cardinality(Reporting \union {p}) \in Nat
  BY <1>1, FS_Subset, FS_CardinalityType
<1>3. pipe.retries \in Nat /\ failures \in Nat
  BY DEF TypeOK
<1> QED
  BY <1>1, <1>2, <1>3 DEF BudgetInv

\* A report.
LEMMA BudgetReport ==
    ASSUME TypeOK, DataOK', BudgetInv, NEW p \in Reporting, Reporting' = Reporting \ {p},
           failures' = failures, ReportFail
    PROVE  BudgetInv'
<1>1. /\ IsFiniteSet(Reporting') /\ Cardinality(Reporting) \in Nat
      /\ Cardinality(Reporting') = Cardinality(Reporting) - 1
  BY FS_RemoveElement, FS_CardinalityType DEF BudgetInv
<1>2. pipe.retries \in Nat /\ pipe'.retries \in Nat /\ failures \in Nat
  BY DEF TypeOK, DataOK
<1>3. /\ pipe'.retries <= pipe.retries + 1
      /\ pipe'.state = "dead_letter" => pipe'.retries >= FailureLimit
  BY <1>2, FailureType DEF ReportFail, PipeWrite, TypeOK, BudgetInv
<1> QED
  BY <1>1, <1>2, <1>3 DEF BudgetInv

LEMMA StepBudget == TypeOK /\ BudgetInv /\ [Next]_vars => BudgetInv'
<1> SUFFICES ASSUME TypeOK, BudgetInv, [Next]_vars PROVE BudgetInv'
  OBVIOUS
<1>t. DataOK /\ PlaceOK /\ DataOK'
  BY TypeParts, StepData
<1>s. {"uploaded", "parsed", "processed", "matched", "recommended"} \subseteq States
  BY DEF States
<1>n. pipe.retries \in Nat /\ failures \in Nat
  BY <1>t DEF DataOK
<1>k. ASSUME Reporting' \subseteq Reporting, UNCHANGED <<pipe, failures>> PROVE BudgetInv'
  BY <1>k, <1>t, <1>n, BudgetNone
<1>m. ASSUME Reporting' \subseteq Reporting, NEW s \in States \ {"dead_letter"}, Mark(s), UNCHANGED failures
      PROVE  BudgetInv'
  <2>1. pipe'.retries = pipe.retries /\ (pipe' = pipe \/ pipe'.state = s)
    BY <1>m, UpsertType DEF Mark, PipeWrite, TypeOK
  <2> QED
    BY <1>m, <1>t, <1>n, <2>1, BudgetNone
<1> USE <1>t, <1>s, Distinct DEF Step
<1>1. CASE PutObject \/ InsertRow \/ EnqueueUploaded \/ UploadAborted
  BY <1>1, <1>k, ReportingFrame
     DEF PutObject, InsertRow, EnqueueUploaded, UploadAborted, history, tables
<1>2. CASE MarkUploaded
  BY <1>2, <1>m, ReportingFrame DEF MarkUploaded, history
<1>3. ASSUME NEW t \in Types, Deliver(t) \/ Loses(t) PROVE BudgetInv'
  BY <1>3, <1>k DEF Deliver, Loses, history, tables, Reporting
<1>15. CASE BrokerRestarts \/ FirstJob
  BY <1>15, <1>k DEF BrokerRestarts, FirstJob, history, tables, Reporting
<1>4. CASE ParserStep \/ PutTimesOut \/ ParserDies
  <2>1. UNCHANGED <<pipe, failures>>
    BY <1>4 DEF ParserStep, TakeUpload, SendParsed, TakeAnswer, PutTimesOut, ParserDies, tables, history
  <2>2. Reporting' \subseteq Reporting
    <3>1. CASE TakeUpload \/ TakeAnswer \/ PutTimesOut \/ ParserDies \/ Drop
      BY <3>1, ReportingFrame DEF TakeUpload, TakeAnswer, PutTimesOut, ParserDies, Drop
    <3>2. CASE \E q \in Requests : pc' = [pc EXCEPT ![q] = "update", !["parser"] = q]
      BY <3>2 DEF PlaceOK, Reporting
    <3> QED
      BY <1>4, <3>1, <3>2 DEF ParserStep, SendParsed
  <2> QED
    BY <2>1, <2>2, <1>k
<1>5. ASSUME NEW q \in Requests, UpdateParsed(q) \/ PutAborted(q) PROVE BudgetInv'
  BY <1>5, <1>k, ReportingFrame DEF UpdateParsed, PutAborted, tables, history
<1>6. ASSUME NEW q \in Requests, EnqueueParsed(q) PROVE BudgetInv'
  <2>1. CASE failures' = failures
    BY <1>6, <2>1, <1>k, <1>n, ReportingFrame DEF EnqueueParsed, tables
  <2>2. CASE failures' = failures + 1
    BY <1>6, <2>2, BudgetFailure, ReportingFrame DEF EnqueueParsed, tables
  <2> QED
    BY <1>6, <2>1, <2>2 DEF EnqueueParsed
<1>7. ASSUME NEW q \in Requests, MarkParsed(q) PROVE BudgetInv'
  <2>1. Reporting' = Reporting \ {q} /\ failures' = failures
    BY <1>7, ReportingFrame DEF MarkParsed, history
  <2>2. CASE pc[q] = "fail"
    BY <1>7, <2>1, <2>2, BudgetReport DEF MarkParsed, Reporting
  <2>3. CASE pc[q] /= "fail"
    BY <1>7, <2>1, <2>3, <1>m DEF MarkParsed
  <2> QED
    BY <2>2, <2>3
<1>8. CASE TakeParsed \/ Select \/ ReadPage \/ RemoveObject
  BY <1>8, <1>k, ReportingFrame DEF TakeParsed, Select, ReadPage, RemoveObject, tables, history
<1>9. CASE MarkProcessed \/ MarkRecommended
  BY <1>9, <1>m, ReportingFrame DEF MarkProcessed, MarkRecommended, history
<1>10. CASE DeleteRow
  <2>1. Reporting' \subseteq Reporting /\ pipe' = NoPipelineRow /\ failures' = failures
    BY <1>10, ReportingFrame DEF DeleteRow, history
  <2>2. pipe'.retries = 0 /\ pipe'.state = "none"
    BY <2>1 DEF NoPipelineRow
  <2> QED
    BY <1>n, <2>1, <2>2, BudgetNone
<1>11. ASSUME NEW m \in Runs, ReadResume(m) \/ StoreMatches(m) \/ Announce(m) PROVE BudgetInv'
  <2>1. /\ UNCHANGED pipe /\ failures' \in {failures, failures + 1}
        /\ \E to : Goto(m, to) /\ (failures' = failures => to /= "fail")
    BY <1>11, <1>n DEF ReadResume, StoreMatches, Announce, RunFails, tables
  <2>2. CASE failures' = failures
    BY <2>1, <2>2, <1>k, ReportingFrame
  <2>3. CASE failures' = failures + 1
    BY <2>1, <2>3, BudgetFailure, ReportingFrame
  <2> QED
    BY <2>1, <2>2, <2>3
<1>12. ASSUME NEW m \in Runs, EndRun(m) PROVE BudgetInv'
  <2>1. Reporting' = Reporting \ {m} /\ failures' = failures
    BY <1>12, ReportingFrame DEF EndRun, history
  <2>2. CASE pc[m] = "fail"
    BY <1>12, <2>1, <2>2, BudgetReport DEF EndRun, Reporting
  <2>3. CASE pc[m] /= "fail"
    BY <1>12, <2>1, <2>3, <1>m DEF EndRun
  <2> QED
    BY <2>2, <2>3
<1>13. ASSUME NEW m \in Runs, RunDies(m) PROVE BudgetInv'
  BY <1>13, <1>k, ReportingFrame DEF RunDies, tables, history
<1>14. CASE UNCHANGED vars
  BY <1>14, <1>k DEF vars, tables, history, Reporting
<1> QED
  BY <1>1, <1>2, <1>3, <1>4, <1>5, <1>6, <1>7, <1>8, <1>9, <1>10, <1>11, <1>12, <1>13, <1>14, <1>15
     DEF Next, UploadStep, PutStep, RunStep, Resting

-----------------------------------------------------------------------------
(* The inductive invariant and what follows from it.                           *)

IInv == TypeOK /\ TableInv /\ WorkInv /\ UploadInv /\ BudgetInv

LEMMA InitInv == Init => IInv
<1> SUFFICES ASSUME Init PROVE IInv
  OBVIOUS
<1>p. /\ pc["upload"] = "put"
      /\ \A p \in Handlers \ {"upload"} : pc[p] = "idle"
      /\ \A q \in Requests : pc[q] = "none"
  BY Distinct, LifecycleAssumption DEF Init
<1>r. pipe = [state |-> "none", retries |-> 0]
  BY DEF Init, NoPipelineRow
<1>1. TypeOK
  <2>1. PlaceOK
    BY <1>p, Distinct DEF Init, PlaceOK, Places, Handlers, PutPlaces
  <2>2. DataOK
    <3>1. pipe \in [state : States, retries : Nat]
      BY <1>r DEF States
    <3>2. parsed \in BOOLEAN /\ object \in BOOLEAN /\ matched \in BOOLEAN /\ jobs \in BOOLEAN
      BY DEF Init
    <3>3. /\ row \in {"none", "stored", "deleted"}
          /\ outbox \in [Types -> Nat] /\ queue \in [Types -> Nat]
          /\ fate \in Fates /\ failures \in Nat /\ faults \in 0..MaxFaults
      BY LifecycleAssumption DEF Init, Fates
    <3> QED
      BY <3>1, <3>2, <3>3 DEF DataOK
  <2> QED
    BY <2>1, <2>2, TypeParts
<1>2. TableInv
  BY <1>p, <1>r, Distinct DEF Init, TableInv, RowHasObject, GoneLeavesNothing, Handlers, NoPipelineRow
<1>3. WorkInv
  <2>1. outbox["parsed"] = 0 /\ queue["parsed"] = 0
    BY DEF Init, Types
  <2> QED
    BY <1>p, <1>r, <2>1, Distinct DEF WorkInv, MatchedMeansStored, EventsFindKeywords, Runs, Handlers
<1>4. UploadInv
  BY DEF Init, UploadInv
<1>5. BudgetInv
  <2>1. Reporting = {}
    BY <1>p, Distinct DEF Reporting, Runs, Handlers
  <2>2. IsFiniteSet(Reporting) /\ Cardinality(Reporting) = 0
    BY <2>1, FS_EmptySet
  <2> QED
    BY <1>r, <2>2 DEF BudgetInv, Init
<1> QED
  BY <1>1, <1>2, <1>3, <1>4, <1>5 DEF IInv

LEMMA Invariance == Spec => []IInv
<1>1. IInv /\ [Next]_vars => IInv'
  BY StepType, StepTable, StepWork, StepUpload, StepBudget DEF IInv
<1> QED
  BY InitInv, <1>1, PTL DEF Spec

\* Every variable keeps its type, and pipeline_states the states of its CHECK.
THEOREM TypeCorrect == Spec => []TypeOK
<1>1. IInv => TypeOK
  BY DEF IInv
<1> QED
  BY Invariance, <1>1, PTL

\* A listed resume can be downloaded, whichever of upload and delete fails or dies
\* at whichever statement.
THEOREM ListedHasObject == Spec => []RowHasObject
<1>1. IInv => RowHasObject
  BY DEF IInv, TableInv
<1> QED
  BY Invariance, <1>1, PTL

\* No late statement of the parser, the matcher or a reader leaves anything of a
\* deleted resume behind.
THEOREM DeletedLeavesNothing == Spec => []GoneLeavesNothing
<1>1. IInv => GoneLeavesNothing
  BY DEF IInv, TableInv
<1> QED
  BY Invariance, <1>1, PTL

\* The state matched is only ever read together with matches and keywords.
THEOREM MatchedIsStored == Spec => []MatchedMeansStored
<1>1. IInv => MatchedMeansStored
  BY DEF IInv, WorkInv
<1> QED
  BY Invariance, <1>1, PTL

\* A run started by resume_parsed finds the keywords the event tells of.
THEOREM RunsFindKeywords == Spec => []EventsFindKeywords
<1>1. IInv => EventsFindKeywords
  BY DEF IInv, WorkInv
<1> QED
  BY Invariance, <1>1, PTL

\* No crash of the parser or the relay and no repeated delivery loses an upload: at
\* rest, a resume without keywords was never announced, had its message dropped by
\* the parser or its event given up by the relay, or RabbitMQ lost the message.
THEOREM LostUploadsHaveCause == Spec => []UnparsedHasCause
<1>1. IInv => UnparsedHasCause
  <2> SUFFICES ASSUME IInv, AtRest, row = "stored", ~parsed, fate = "enqueued" PROVE FALSE
    BY DEF UnparsedHasCause
  <2>1. outbox["uploaded"] = 0 /\ queue["uploaded"] = 0 /\ pc["parser"] = "idle"
    BY DEF AtRest, Types
  <2>2. ~HasKeywords
    BY DEF HasKeywords
  <2> QED
    BY <2>1, <2>2 DEF IInv, UploadInv
<1> QED
  BY Invariance, <1>1, PTL

\* Only maxRetries failures of this resume make a dead letter, however often deliveries
\* are repeated and handlers die.
THEOREM FailuresBeforeDeath == Spec => []DeadLetterIsEarned
<1>1. IInv => DeadLetterIsEarned
  <2> SUFFICES ASSUME IInv PROVE DeadLetterIsEarned
    OBVIOUS
  <2>1. Cardinality(Reporting) \in Nat
    BY FS_CardinalityType DEF IInv, BudgetInv
  <2>2. pipe.retries \in Nat /\ failures \in Nat
    BY DEF IInv, TypeOK
  <2> QED
    BY <2>1, <2>2, WorkflowAssumption DEF IInv, BudgetInv, DeadLetterIsEarned
<1> QED
  BY Invariance, <1>1, PTL
=============================================================================
