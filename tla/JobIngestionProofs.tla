--------------------------- MODULE JobIngestionProofs ---------------------------
(* Proofs about JobIngestion, for any scrapers, transports and bounds.           *)
EXTENDS JobIngestion, TLAPS

-----------------------------------------------------------------------------
(* The inductive invariant.                                                      *)

\* No run works on a version the source has not shown yet.
SeenInv ==
    /\ \A s \in Scrapers : scrape[s].ver <= site
    /\ \A p \in Processors : proc[p].ver <= site

\* Whoever was told of the job finds its row; whoever indexes it has read a version.
RowInv ==
    /\ \A s \in Scrapers : scrape[s].at = "upsert" => scrape[s].ver > 0
    /\ \A s \in Scrapers : scrape[s].at = "enqueue" => job.ver > 0
    /\ outbox > 0 => job.ver > 0
    /\ \A p \in Paths : queue[p] > 0 => job.ver > 0
    /\ \A p \in Processors :
          /\ Busy(p) => job.ver > 0
          /\ proc[p].at \in {"update", "index"} => proc[p].ver > 0
          /\ proc[p].at = "announce" => doc > 0

\* No call has failed and nobody has met anybody else at the row.
Quiet == faults = 0 /\ ~overlapped

\* The posting is still on its way to the index.
Underway ==
    \/ outbox > 0
    \/ \E s \in Scrapers : scrape[s].at = "enqueue"
    \/ \E p \in Paths : queue[p] > 0
    \/ \E p \in Processors : proc[p].at \in {"read", "update", "index"}

\* The text that was fetched last is in the row, or among those that wait for it.
ScrapesInOrder ==
    (\A s \in Scrapers : scrape[s].at = "upsert" => scrape[s].ver /= fetched)
        => job.ver = fetched /\ \A s \in Scrapers : scrape[s].at /= "upsert"

\* The row a processJob has read has not changed since, nor has the index once it is told.
ProcessCurrent ==
    \A p \in Processors :
        /\ proc[p].at \in {"update", "index", "announce"} => proc[p].ver = job.ver
        /\ proc[p].at \in {"index", "announce"} => job.clean
        /\ proc[p].at = "announce" => doc = job.ver

\* What has not reached the index will.
NothingForgotten == job.ver > 0 => Underway \/ (job.clean /\ doc = job.ver)

AllQuiet == ScrapesInOrder /\ ProcessCurrent /\ NothingForgotten /\ stopped = {}

QuietInv == Quiet => AllQuiet

IInv == TypeOK /\ SeenInv /\ RowInv /\ KeywordsFitText /\ IndexedIsSearchable /\ QuietInv

ScrapePlaces == {"idle", "upsert", "enqueue", "stored"}
ProcPlaces   == {"idle", "read", "update", "index", "announce"}

-----------------------------------------------------------------------------
(* Lemmas.                                                                       *)

LEMMA Records ==
    ASSUME TypeOK
    PROVE  /\ \A s \in Scrapers : /\ scrape[s].at \in ScrapePlaces /\ scrape[s].ver \in Versions
                                  /\ scrape[s].ver \in Nat
                                  /\ scrape[s] = [at |-> scrape[s].at, ver |-> scrape[s].ver]
           /\ \A p \in Processors : /\ proc[p].at \in ProcPlaces /\ proc[p].ver \in Versions
                                    /\ proc[p].ver \in Nat
                                    /\ proc[p] = [at |-> proc[p].at, ver |-> proc[p].ver]
           /\ job.ver \in 0..site /\ job.kw \in 0..site /\ job.clean \in BOOLEAN
           /\ site \in Nat /\ site <= MaxVersions /\ Versions = 0..MaxVersions
BY IngestionAssumption DEF TypeOK, ScrapePlaces, ProcPlaces, Versions

\* A scraper goes to a place; the other scrapers stay where they are.
LEMMA ScrapeFrame ==
    ASSUME TypeOK, NEW s \in Scrapers, NEW to \in ScrapePlaces, Leave(s, to)
    PROVE  /\ scrape' \in [Scrapers -> [at : ScrapePlaces, ver : Versions]]
           /\ scrape'[s].at = to /\ scrape'[s].ver = 0
           /\ \A u \in Scrapers \ {s} : scrape'[u] = scrape[u]
<1>1. scrape \in [Scrapers -> [at : ScrapePlaces, ver : Versions]]
  BY DEF TypeOK, ScrapePlaces
<1>2. [at |-> to, ver |-> 0] \in [at : ScrapePlaces, ver : Versions]
  BY IngestionAssumption DEF Versions
<1>3. scrape' = [scrape EXCEPT ![s] = [at |-> to, ver |-> 0]]
  BY DEF Leave
<1> QED
  BY <1>1, <1>2, <1>3

\* The same for a processJob.
LEMMA ProcFrame ==
    ASSUME TypeOK, NEW p \in Processors, NEW to \in ProcPlaces, At(p, to)
    PROVE  /\ proc' \in [Processors -> [at : ProcPlaces, ver : Versions]]
           /\ proc'[p].at = to /\ proc'[p].ver = proc[p].ver
           /\ \A q \in Processors \ {p} : proc'[q] = proc[q]
<1>1. proc \in [Processors -> [at : ProcPlaces, ver : Versions]]
  BY DEF TypeOK, ProcPlaces
<1>2. proc'[p] = [proc[p] EXCEPT !.at = to] /\ \A q \in Processors \ {p} : proc'[q] = proc[q]
  BY <1>1 DEF At
<1>3. [proc[p] EXCEPT !.at = to] = [at |-> to, ver |-> proc[p].ver]
  BY <1>1
<1> QED
  BY <1>1, <1>2, <1>3 DEF At

\* When the processor dies, all its work is over.
LEMMA DeadFrame ==
    ASSUME TypeOK, ProcessorDies
    PROVE  /\ proc' \in [Processors -> [at : ProcPlaces, ver : Versions]]
           /\ \A p \in Processors : proc'[p].at = "idle" /\ proc'[p].ver = proc[p].ver
<1>1. proc \in [Processors -> [at : ProcPlaces, ver : Versions]] /\ "idle" \in ProcPlaces
  BY DEF TypeOK, ProcPlaces
<1>2. \A p \in Processors : proc'[p] = [proc[p] EXCEPT !.at = "idle"]
  BY DEF ProcessorDies
<1>3. \A p \in Processors : [proc[p] EXCEPT !.at = "idle"] = [at |-> "idle", ver |-> proc[p].ver]
  BY <1>1
<1>4. proc' = [p \in Processors |-> [at |-> "idle", ver |-> proc[p].ver]]
  BY <1>3 DEF ProcessorDies
<1> QED
  BY <1>1, <1>4

LEMMA FaultType ==
    ASSUME TypeOK, Fine \/ Fault
    PROVE  faults' \in 0..MaxFaults
BY IngestionAssumption DEF TypeOK, Fine, Fault

\* What a scrape writes.
LEMMA UpsertedRow ==
    ASSUME TypeOK, SeenInv, NEW s \in Scrapers
    PROVE  /\ Upserted(s) \in [ver : 0..site, kw : 0..site, clean : BOOLEAN]
           /\ Upserted(s).ver = scrape[s].ver /\ ~Upserted(s).clean
<1>1. job \in [ver : 0..site, kw : 0..site, clean : BOOLEAN] /\ scrape[s].ver \in 0..site
  <2>1. scrape[s].ver \in Nat /\ site \in Nat /\ scrape[s].ver <= site
    BY Records DEF SeenInv
  <2>2. job \in [ver : 0..site, kw : 0..site, clean : BOOLEAN]
    BY DEF TypeOK
  <2> QED
    BY <2>1, <2>2
<1>2. Upserted(s) \in [ver : 0..site, kw : 0..site, clean : BOOLEAN]
  BY <1>1 DEF Upserted
<1>3. Upserted(s).ver = scrape[s].ver
  BY <1>1 DEF Upserted
<1>4. ~Upserted(s).clean
  BY <1>1 DEF Upserted
<1> QED
  BY <1>2, <1>3, <1>4

\* What a processJob writes.
LEMMA CleanedRow ==
    ASSUME TypeOK, SeenInv, NEW p \in Processors
    PROVE  /\ Cleaned(p) \in [ver : 0..site, kw : 0..site, clean : BOOLEAN]
           /\ Cleaned(p).ver = proc[p].ver /\ Cleaned(p).kw = proc[p].ver
<1>1. proc[p].ver \in 0..site
  <2>1. proc[p].ver \in Nat /\ site \in Nat /\ proc[p].ver <= site
    BY Records DEF SeenInv
  <2> QED
    BY <2>1
<1> QED
  BY <1>1 DEF Cleaned

LEMMA InitInv == Init => IInv
<1> SUFFICES ASSUME Init PROVE IInv
  OBVIOUS
<1>1. /\ \A s \in Scrapers : scrape[s].at = "idle" /\ scrape[s].ver = 0
      /\ \A p \in Processors : proc[p].at = "idle" /\ proc[p].ver = 0
      /\ job.ver = 0 /\ job.kw = 0 /\ job.clean = FALSE
      /\ site = 1 /\ outbox = 0 /\ \A p \in Paths : queue[p] = 0
  BY DEF Init, NoJob
<1>2. TypeOK
  <2>1. indexed \in BOOLEAN /\ overlapped \in BOOLEAN
    BY DEF Init
  <2>2. job \in [ver : 0..site, kw : 0..site, clean : BOOLEAN]
    BY DEF Init, NoJob
  <2>3. /\ scrape \in [Scrapers -> [at : {"idle", "upsert", "enqueue", "stored"}, ver : Versions]]
        /\ proc \in [Processors -> [at : {"idle", "read", "update", "index", "announce"},
                                    ver : Versions]]
    BY IngestionAssumption DEF Init, Versions
  <2> QED
    BY <2>1, <2>2, <2>3, IngestionAssumption DEF Init, TypeOK
<1>3. SeenInv /\ RowInv
  BY <1>1 DEF SeenInv, RowInv, Busy
<1>4. KeywordsFitText
  BY <1>1 DEF KeywordsFitText
<1>5. IndexedIsSearchable
  BY DEF Init, IndexedIsSearchable
<1>6. QuietInv
  BY <1>1 DEF Init, QuietInv, AllQuiet, ScrapesInOrder, ProcessCurrent, NothingForgotten
<1> QED
  BY <1>2, <1>3, <1>4, <1>5, <1>6 DEF IInv

-----------------------------------------------------------------------------
(* Type correctness.                                                             *)

LEMMA StepType == TypeOK /\ SeenInv /\ [Next]_vars => TypeOK' /\ SeenInv'
<1> SUFFICES ASSUME TypeOK, SeenInv, [Next]_vars PROVE TypeOK' /\ SeenInv'
  OBVIOUS
<1>r. /\ site \in Nat /\ site >= 1 /\ site <= MaxVersions /\ Versions = 0..MaxVersions
      /\ site \in Versions /\ job.ver \in 0..site /\ job.ver \in Versions
  BY Records, IngestionAssumption DEF TypeOK
<1>1. CASE Edit
  <2>1. site' \in 1..MaxVersions /\ 0..site \subseteq 0..site' /\ site <= site'
    BY <1>1, <1>r, IngestionAssumption DEF Edit
  <2>2. job' \in [ver : 0..site', kw : 0..site', clean : BOOLEAN] /\ doc' \in 0..site'
    BY <1>1, <2>1 DEF Edit, TypeOK
  <2>3. \A n \in Versions : n <= site => n <= site'
    BY <1>r, <2>1
  <2> QED
    BY <1>1, <2>1, <2>2, <2>3, Records DEF Edit, TypeOK, SeenInv, Versions
<1>u. ASSUME NEW copies, Publish(copies) PROVE queue' \in [Paths -> Nat]
  BY <1>u DEF Publish, TypeOK
<1>2. CASE Deliver \/ DeliverLosing
  <2>1. queue' \in [Paths -> Nat]
    BY <1>2, <1>u DEF Deliver, DeliverLosing
  <2>2. outbox' \in Nat /\ faults' \in 0..MaxFaults
    BY <1>2, FaultType DEF Deliver, DeliverLosing, TypeOK
  <2>3. lost' \subseteq Paths
    BY <1>2 DEF Deliver, DeliverLosing, TypeOK
  <2> QED
    BY <1>2, <2>1, <2>2, <2>3 DEF Deliver, DeliverLosing, TypeOK, SeenInv, Versions
<1>15. CASE BrokerRestarts
  BY <1>15, FaultType DEF BrokerRestarts, TypeOK, SeenInv, Versions
<1>16. ASSUME NEW p \in Paths, LoopEnds(p) PROVE TypeOK' /\ SeenInv'
  <2>1. queue' \in [Paths -> Nat]
    BY <1>16 DEF LoopEnds, TypeOK
  <2>2. stopped' \subseteq Paths /\ faults' \in 0..MaxFaults
    BY <1>16, FaultType DEF LoopEnds, TypeOK
  <2> QED
    BY <1>16, <2>1, <2>2 DEF LoopEnds, TypeOK, SeenInv, Versions
<1>3. ASSUME NEW s \in Scrapers, FetchJob(s) PROVE TypeOK' /\ SeenInv'
  <2>1. /\ scrape' \in [Scrapers -> [at : {"idle", "upsert", "enqueue", "stored"}, ver : Versions]]
        /\ \A u \in Scrapers : scrape'[u] = scrape[u] \/ scrape'[u].ver = site
    BY <1>3, <1>r DEF FetchJob, TypeOK
  <2>2. runs' \in 0..MaxRuns /\ fetched' \in 0..site
    BY <1>3, <1>r, IngestionAssumption DEF FetchJob, TypeOK
  <2> QED
    BY <1>3, <1>r, <2>1, <2>2 DEF FetchJob, TypeOK, SeenInv, Versions
<1>4. ASSUME NEW s \in Scrapers, UpsertJob(s) PROVE TypeOK' /\ SeenInv'
  <2>1. /\ scrape' \in [Scrapers -> [at : ScrapePlaces, ver : Versions]]
        /\ \A u \in Scrapers : scrape'[u].ver \in {scrape[u].ver, 0}
    BY <1>4, ScrapeFrame DEF UpsertJob, ScrapePlaces
  <2>2. job' \in [ver : 0..site, kw : 0..site, clean : BOOLEAN]
    BY <1>4, UpsertedRow DEF UpsertJob, TypeOK
  <2>3. overlapped' \in BOOLEAN
    BY <1>4 DEF UpsertJob, TypeOK
  <2>4. faults' \in 0..MaxFaults
    BY <1>4, FaultType DEF UpsertJob
  <2> QED
    BY <1>4, <2>1, <2>2, <2>3, <2>4 DEF UpsertJob, TypeOK, SeenInv, ScrapePlaces, Versions
<1>5. ASSUME NEW s \in Scrapers, EnqueueScraped(s) PROVE TypeOK' /\ SeenInv'
  <2>1. /\ scrape' \in [Scrapers -> [at : ScrapePlaces, ver : Versions]]
        /\ \A u \in Scrapers : scrape'[u].ver \in {scrape[u].ver, 0}
    BY <1>5, ScrapeFrame DEF EnqueueScraped, ScrapePlaces
  <2>2. outbox' \in Nat /\ faults' \in 0..MaxFaults
    BY <1>5, FaultType DEF EnqueueScraped, TypeOK
  <2> QED
    BY <1>5, <2>1, <2>2 DEF EnqueueScraped, TypeOK, SeenInv, ScrapePlaces, Versions
<1>6. ASSUME NEW s \in Scrapers, EndScrape(s) \/ ScrapeCut(s) PROVE TypeOK' /\ SeenInv'
  <2>1. /\ scrape' \in [Scrapers -> [at : ScrapePlaces, ver : Versions]]
        /\ \A u \in Scrapers : scrape'[u].ver \in {scrape[u].ver, 0}
    BY <1>6, ScrapeFrame DEF EndScrape, ScrapeCut, ScrapePlaces
  <2>2. faults' \in 0..MaxFaults
    BY <1>6, FaultType DEF EndScrape, ScrapeCut, Fine
  <2> QED
    BY <1>6, <2>1, <2>2 DEF EndScrape, ScrapeCut, TypeOK, SeenInv, ScrapePlaces, Versions
<1>l. ASSUME NEW p \in Processors, Lose(p) PROVE lost' \subseteq Paths
  BY <1>l DEF Lose, TypeOK
<1>p. ASSUME NEW p \in Processors, NEW to \in ProcPlaces, At(p, to)
      PROVE  /\ proc' \in [Processors -> [at : {"idle", "read", "update", "index", "announce"},
                                          ver : Versions]]
             /\ \A q \in Processors : proc'[q].ver = proc[q].ver
  BY <1>p, ProcFrame DEF ProcPlaces
<1>7. ASSUME NEW p \in Paths, TakeScraped(p) PROVE TypeOK' /\ SeenInv'
  <2>1. p \in Processors /\ "read" \in ProcPlaces
    BY DEF Processors, ProcPlaces
  <2>2. queue' \in [Paths -> Nat]
    BY <1>7 DEF TakeScraped, TypeOK
  <2> QED
    BY <1>7, <1>p, <2>1, <2>2 DEF TakeScraped, TypeOK, SeenInv, Versions
<1>8. CASE Reindex
  <2>1. "reindex" \in Processors /\ "read" \in ProcPlaces
    BY DEF Processors, ProcPlaces
  <2>2. runs' \in 0..MaxRuns
    BY <1>8, IngestionAssumption DEF Reindex, TypeOK
  <2> QED
    BY <1>8, <1>p, <2>1, <2>2 DEF Reindex, TypeOK, SeenInv, Versions
<1>9. ASSUME NEW p \in Processors, ReadJob(p) PROVE TypeOK' /\ SeenInv'
  <2>1. /\ proc' \in [Processors -> [at : {"idle", "read", "update", "index", "announce"},
                                     ver : Versions]]
        /\ \A q \in Processors : proc'[q].ver = proc[q].ver \/ proc'[q].ver = job.ver
    <3>1. CASE proc' = [proc EXCEPT ![p] = [at |-> "update", ver |-> job.ver]]
      BY <1>r, <3>1 DEF TypeOK
    <3>2. CASE Fails(p)
      BY <1>p, <3>2 DEF Fails, ProcPlaces
    <3> QED
      BY <1>9, <3>1, <3>2 DEF ReadJob
  <2>2. lost' \subseteq Paths /\ faults' \in 0..MaxFaults
    BY <1>9, <1>l, FaultType DEF ReadJob, Fails, TypeOK
  <2>3. overlapped' \in BOOLEAN
    BY <1>9 DEF ReadJob, TypeOK
  <2> QED
    BY <1>9, <1>r, <2>1, <2>2, <2>3 DEF ReadJob, TypeOK, SeenInv, Versions
<1>10. ASSUME NEW p \in Processors, UpdateJob(p) PROVE TypeOK' /\ SeenInv'
  <2>1. \E to \in {"index", "idle"} : At(p, to)
    BY <1>10 DEF UpdateJob, Fails
  <2>2. lost' \subseteq Paths /\ faults' \in 0..MaxFaults
    BY <1>10, <1>l, FaultType DEF UpdateJob, Fails, TypeOK
  <2>3. overlapped' \in BOOLEAN
    BY <1>10 DEF UpdateJob, TypeOK
  <2>4. job' \in [ver : 0..site, kw : 0..site, clean : BOOLEAN]
    BY <1>10, CleanedRow DEF UpdateJob, TypeOK
  <2>5. {"index", "idle"} \subseteq ProcPlaces
    BY DEF ProcPlaces
  <2> QED
    BY <1>10, <1>p, <2>1, <2>2, <2>3, <2>4, <2>5 DEF UpdateJob, TypeOK, SeenInv, Versions
<1>11. ASSUME NEW p \in Processors, AddDocument(p) PROVE TypeOK' /\ SeenInv'
  <2>1. \E to \in {"announce", "idle"} : At(p, to)
    BY <1>11 DEF AddDocument, Fails
  <2>2. lost' \subseteq Paths /\ faults' \in 0..MaxFaults
    BY <1>11, <1>l, FaultType DEF AddDocument, Fails, TypeOK
  <2>3. doc' \in 0..site
    <3>1. proc[p].ver \in 0..site
      <4>1. proc[p].ver \in Nat /\ site \in Nat /\ proc[p].ver <= site
        BY Records DEF SeenInv
      <4> QED
        BY <4>1
    <3> QED
      BY <1>11, <3>1 DEF AddDocument, TypeOK
  <2>5. {"announce", "idle"} \subseteq ProcPlaces
    BY DEF ProcPlaces
  <2> QED
    BY <1>11, <1>p, <2>1, <2>2, <2>3, <2>5 DEF AddDocument, TypeOK, SeenInv, Versions
<1>12. ASSUME NEW p \in Processors, EnqueueIndexed(p) PROVE TypeOK' /\ SeenInv'
  <2>1. At(p, "idle") /\ "idle" \in ProcPlaces
    BY <1>12 DEF EnqueueIndexed, ProcPlaces
  <2>2. indexed' \in BOOLEAN
    BY <1>12 DEF EnqueueIndexed, TypeOK
  <2>3. faults' \in 0..MaxFaults
    BY <1>12, FaultType DEF EnqueueIndexed
  <2> QED
    BY <1>12, <1>p, <2>1, <2>2, <2>3 DEF EnqueueIndexed, TypeOK, SeenInv, Versions
<1>13. CASE ProcessorDies
  <2>1. /\ proc' \in [Processors -> [at : {"idle", "read", "update", "index", "announce"},
                                     ver : Versions]]
        /\ \A q \in Processors : proc'[q].ver = proc[q].ver
    BY <1>13, DeadFrame DEF ProcPlaces
  <2>2. queue' \in [Paths -> Nat]
    BY <1>13 DEF ProcessorDies, TypeOK
  <2>3. lost' \subseteq Paths /\ stopped' \subseteq Paths /\ faults' \in 0..MaxFaults
    BY <1>13, FaultType DEF ProcessorDies, TypeOK
  <2> QED
    BY <1>13, <2>1, <2>2, <2>3 DEF ProcessorDies, TypeOK, SeenInv, Versions
<1>14. CASE UNCHANGED vars
  BY <1>14 DEF vars, TypeOK, SeenInv, Versions
<1> QED
  BY <1>1, <1>2, <1>3, <1>4, <1>5, <1>6, <1>7, <1>8, <1>9, <1>10, <1>11, <1>12, <1>13, <1>14, <1>15, <1>16
     DEF Next, ScrapeStep, ProcessStep, Resting

-----------------------------------------------------------------------------
(* Rows and documents.                                                           *)

\* Nothing empties the row or the index again.
LEMMA Lasting ==
    ASSUME TypeOK, SeenInv, RowInv, [Next]_vars
    PROVE  (job.ver > 0 => job'.ver > 0) /\ (doc > 0 => doc' > 0)
<1>1. ASSUME NEW s \in Scrapers, UpsertJob(s) PROVE job.ver > 0 => job'.ver > 0
  BY <1>1, UpsertedRow DEF UpsertJob, RowInv
<1>2. ASSUME NEW p \in Processors, UpdateJob(p) PROVE job.ver > 0 => job'.ver > 0
  BY <1>2, CleanedRow DEF UpdateJob, RowInv
<1>3. ASSUME NEW p \in Processors, AddDocument(p) PROVE doc > 0 => doc' > 0
  BY <1>3 DEF AddDocument, RowInv
<1>4. \/ UNCHANGED job
      \/ \E s \in Scrapers : UpsertJob(s)
      \/ \E p \in Processors : UpdateJob(p)
  BY DEF Next, Edit, Deliver, DeliverLosing, BrokerRestarts, LoopEnds, Reindex, FetchJob, ScrapeStep, EnqueueScraped, EndScrape, ScrapeCut,
         TakeScraped, ProcessStep, ReadJob, AddDocument, EnqueueIndexed, ProcessorDies, Resting, vars
<1>5. UNCHANGED doc \/ \E p \in Processors : AddDocument(p)
  BY DEF Next, Edit, Deliver, DeliverLosing, BrokerRestarts, LoopEnds, Reindex, FetchJob, ScrapeStep, UpsertJob, EnqueueScraped, EndScrape,
         ScrapeCut, TakeScraped, ProcessStep, ReadJob, UpdateJob, EnqueueIndexed, ProcessorDies,
         Resting, vars
<1> QED
  BY <1>1, <1>2, <1>3, <1>4, <1>5

LEMMA StepRow == TypeOK /\ SeenInv /\ RowInv /\ [Next]_vars => RowInv'
<1> SUFFICES ASSUME TypeOK, SeenInv, RowInv, [Next]_vars PROVE RowInv'
  OBVIOUS
<1>l. (job.ver > 0 => job'.ver > 0) /\ (doc > 0 => doc' > 0)
  BY Lasting
<1> USE <1>l DEF RowInv, Busy
\* A scraper goes on, the others and the processors stay.
<1>s. ASSUME NEW s \in Scrapers, NEW to \in ScrapePlaces, Leave(s, to),
             UNCHANGED <<proc, queue>>, to /= "upsert", to = "enqueue" => job'.ver > 0,
             outbox' > 0 => job'.ver > 0
      PROVE  RowInv'
  BY <1>s, ScrapeFrame
\* A processJob goes on, the others and the scrapers stay.
<1>p. ASSUME NEW p \in Processors, NEW to \in ProcPlaces, At(p, to), UNCHANGED <<scrape, outbox>>,
             to /= "idle" => job'.ver > 0, to \in {"update", "index"} => proc[p].ver > 0,
             to = "announce" => doc' > 0, \A q \in Paths : queue'[q] > 0 => job'.ver > 0
      PROVE  RowInv'
  BY <1>p, ProcFrame
<1>1. CASE Edit \/ UNCHANGED vars
  BY <1>1 DEF Edit, vars
<1>2. CASE Deliver \/ DeliverLosing
  <2>1. outbox \in Nat /\ outbox > 0 /\ job.ver > 0 /\ UNCHANGED <<job, doc, scrape, proc>>
    BY <1>2 DEF Deliver, DeliverLosing, TypeOK
  <2> QED
    BY <2>1
<1>13. CASE BrokerRestarts
  <2>1. \A q \in Paths : queue'[q] > 0 => queue[q] > 0
    BY <1>13 DEF BrokerRestarts, TypeOK
  <2> QED
    BY <1>13, <2>1 DEF BrokerRestarts
<1>14. ASSUME NEW p \in Paths, LoopEnds(p) PROVE RowInv'
  <2>1. \A q \in Paths : queue'[q] > 0 => queue[q] > 0 \/ (q = p /\ Busy(p))
    BY <1>14 DEF LoopEnds, TypeOK
  <2>2. p \in Processors
    BY DEF Processors
  <2> QED
    BY <1>14, <2>1, <2>2 DEF LoopEnds
<1>3. ASSUME NEW s \in Scrapers, FetchJob(s) PROVE RowInv'
  <2>1. /\ scrape'[s] = [at |-> "upsert", ver |-> site] /\ site > 0
        /\ \A u \in Scrapers \ {s} : scrape'[u] = scrape[u]
    BY <1>3, IngestionAssumption DEF FetchJob, TypeOK
  <2> QED
    BY <1>3, <2>1 DEF FetchJob
<1>4. ASSUME NEW s \in Scrapers, UpsertJob(s) PROVE RowInv'
  <2>1. {"enqueue", "idle"} \subseteq ScrapePlaces
    BY DEF ScrapePlaces
  <2>2. CASE job' = Upserted(s) /\ Leave(s, "enqueue")
    <3>1. job'.ver > 0
      BY <1>4, <2>2, UpsertedRow DEF UpsertJob
    <3> QED
      BY <1>4, <1>s, <2>1, <2>2, <3>1 DEF UpsertJob
  <2>3. CASE Leave(s, "idle")
    BY <1>4, <1>s, <2>1, <2>3 DEF UpsertJob
  <2> QED
    BY <1>4, <2>2, <2>3 DEF UpsertJob
<1>5. ASSUME NEW s \in Scrapers, EnqueueScraped(s) \/ EndScrape(s) \/ ScrapeCut(s) PROVE RowInv'
  <2>1. {"stored", "idle"} \subseteq ScrapePlaces
    BY DEF ScrapePlaces
  <2>2. outbox' > 0 => job'.ver > 0
    <3>1. CASE EnqueueScraped(s)
      BY <3>1 DEF EnqueueScraped
    <3>2. CASE EndScrape(s) \/ ScrapeCut(s)
      BY <3>2 DEF EndScrape, ScrapeCut
    <3> QED
      BY <1>5, <3>1, <3>2
  <2>3. UNCHANGED <<proc, queue>>
    BY <1>5 DEF EnqueueScraped, EndScrape, ScrapeCut
  <2>4. \E to \in {"stored", "idle"} : Leave(s, to)
    BY <1>5 DEF EnqueueScraped, EndScrape, ScrapeCut
  <2> QED
    BY <1>s, <2>1, <2>2, <2>3, <2>4
<1>6. ASSUME NEW p \in Paths, TakeScraped(p) PROVE RowInv'
  <2>1. p \in Processors /\ "read" \in ProcPlaces /\ At(p, "read") /\ UNCHANGED <<scrape, outbox>>
    BY <1>6 DEF TakeScraped, Processors, ProcPlaces
  <2>2. \A q \in Paths : queue'[q] > 0 => queue[q] > 0
    BY <1>6 DEF TakeScraped, TypeOK
  <2>3. queue[p] > 0
    BY <1>6 DEF TakeScraped
  <2> QED
    BY <1>p, <2>1, <2>2, <2>3
<1>7. CASE Reindex
  <2>1. "reindex" \in Processors /\ "read" \in ProcPlaces
    BY DEF Processors, ProcPlaces
  <2> QED
    BY <1>7, <1>p, <2>1 DEF Reindex
<1>8. ASSUME NEW p \in Processors, ReadJob(p) PROVE RowInv'
  <2>1. CASE proc' = [proc EXCEPT ![p] = [at |-> "update", ver |-> job.ver]]
    <3>1. /\ proc'[p].at = "update" /\ proc'[p].ver = job.ver /\ job.ver > 0
          /\ \A q \in Processors \ {p} : proc'[q] = proc[q]
      BY <1>8, <2>1 DEF ReadJob, TypeOK
    <3> QED
      BY <1>8, <3>1 DEF ReadJob
  <2>2. CASE Fails(p)
    <3>1. "idle" \in ProcPlaces
      BY DEF ProcPlaces
    <3> QED
      BY <1>8, <1>p, <2>2, <3>1 DEF ReadJob, Fails
  <2> QED
    BY <1>8, <2>1, <2>2 DEF ReadJob
<1>9. ASSUME NEW p \in Processors, UpdateJob(p) PROVE RowInv'
  <2>1. {"index", "idle"} \subseteq ProcPlaces
    BY DEF ProcPlaces
  <2>2. \E to \in {"index", "idle"} : At(p, to)
    BY <1>9 DEF UpdateJob, Fails
  <2>3. proc[p].ver > 0 /\ job.ver > 0 /\ UNCHANGED <<scrape, outbox, queue>>
    BY <1>9 DEF UpdateJob
  <2> QED
    BY <1>p, <2>1, <2>2, <2>3
<1>10. ASSUME NEW p \in Processors, AddDocument(p) PROVE RowInv'
  <2>1. {"announce", "idle"} \subseteq ProcPlaces
    BY DEF ProcPlaces
  <2>2. \E to \in {"announce", "idle"} : At(p, to) /\ (to = "announce" => doc' = proc[p].ver)
    BY <1>10 DEF AddDocument, Fails
  <2>3. proc[p].ver > 0 /\ job.ver > 0 /\ UNCHANGED <<scrape, outbox, queue>>
    BY <1>10 DEF AddDocument
  <2> QED
    BY <1>p, <2>1, <2>2, <2>3
<1>11. ASSUME NEW p \in Processors, EnqueueIndexed(p) PROVE RowInv'
  <2>1. "idle" \in ProcPlaces
    BY DEF ProcPlaces
  <2> QED
    BY <1>11, <1>p, <2>1 DEF EnqueueIndexed
<1>12. CASE ProcessorDies
  <2>1. \A p \in Processors : proc'[p].at = "idle"
    BY <1>12, DeadFrame
  <2>2. \A q \in Paths : q \in Processors /\ (queue'[q] > 0 => queue[q] > 0 \/ Busy(q))
    BY <1>12 DEF ProcessorDies, TypeOK, Processors
  <2>3. UNCHANGED <<job, doc, scrape, outbox>>
    BY <1>12 DEF ProcessorDies
  <2> QED
    BY <2>1, <2>2, <2>3
<1> QED
  BY <1>1, <1>2, <1>3, <1>4, <1>5, <1>6, <1>7, <1>8, <1>9, <1>10, <1>11, <1>12, <1>13, <1>14
     DEF Next, ScrapeStep, ProcessStep, Resting

\* A write is a raw text, or a cleaned one with the keywords of the same version.
LEMMA StepKeywords == TypeOK /\ SeenInv /\ KeywordsFitText /\ [Next]_vars => KeywordsFitText'
<1> SUFFICES ASSUME TypeOK, SeenInv, KeywordsFitText, [Next]_vars PROVE KeywordsFitText'
  OBVIOUS
<1>1. ASSUME NEW s \in Scrapers, UpsertJob(s) PROVE KeywordsFitText'
  BY <1>1, UpsertedRow DEF UpsertJob, KeywordsFitText
<1>2. ASSUME NEW p \in Processors, UpdateJob(p) PROVE KeywordsFitText'
  BY <1>2, CleanedRow DEF UpdateJob, KeywordsFitText
<1>3. CASE UNCHANGED job
  BY <1>3 DEF KeywordsFitText
<1> QED
  BY <1>1, <1>2, <1>3
     DEF Next, Edit, Deliver, DeliverLosing, BrokerRestarts, LoopEnds, Reindex, FetchJob, ScrapeStep, EnqueueScraped, EndScrape, ScrapeCut,
         TakeScraped, ProcessStep, ReadJob, AddDocument, EnqueueIndexed, ProcessorDies, Resting, vars

\* job_indexed is enqueued by a processJob that has added its document.
LEMMA StepIndexed ==
    TypeOK /\ SeenInv /\ RowInv /\ IndexedIsSearchable /\ [Next]_vars => IndexedIsSearchable'
<1> SUFFICES ASSUME TypeOK, SeenInv, RowInv, IndexedIsSearchable, [Next]_vars
             PROVE  IndexedIsSearchable'
  OBVIOUS
<1>l. doc > 0 => doc' > 0
  BY Lasting
<1>1. ASSUME NEW p \in Processors, EnqueueIndexed(p) PROVE doc > 0
  BY <1>1 DEF EnqueueIndexed, RowInv
<1>2. UNCHANGED indexed \/ \E p \in Processors : EnqueueIndexed(p)
  BY DEF Next, Edit, Deliver, DeliverLosing, BrokerRestarts, LoopEnds, Reindex, FetchJob, ScrapeStep, UpsertJob, EnqueueScraped, EndScrape,
         ScrapeCut, TakeScraped, ProcessStep, ReadJob, UpdateJob, AddDocument, ProcessorDies,
         Resting, vars
<1> QED
  BY <1>l, <1>1, <1>2 DEF IndexedIsSearchable

-----------------------------------------------------------------------------
(* Sequential use.                                                               *)

\* A step after which all is still quiet began quietly and had no failure.
LEMMA QuietBefore ==
    ASSUME TypeOK, [Next]_vars, Quiet'
    PROVE  Quiet /\ UNCHANGED faults /\ (Fault <=> FALSE)
<1>1. faults \in Nat /\ faults' = 0 /\ ~overlapped' /\ overlapped \in BOOLEAN
  BY IngestionAssumption DEF TypeOK, Quiet
<1>2. ~Fault
  BY <1>1 DEF Fault
<1>3. UNCHANGED faults
  BY <1>2 DEF Next, Edit, Deliver, DeliverLosing, BrokerRestarts, LoopEnds, Reindex, FetchJob, ScrapeStep, UpsertJob, EnqueueScraped,
              EndScrape, ScrapeCut, TakeScraped, ProcessStep, ReadJob, UpdateJob, AddDocument,
              EnqueueIndexed, ProcessorDies, Fails, Resting, vars, Fine
<1>4. ~overlapped
  BY <1>1 DEF Next, Edit, Deliver, DeliverLosing, BrokerRestarts, LoopEnds, Reindex, FetchJob, ScrapeStep, UpsertJob, EnqueueScraped,
              EndScrape, ScrapeCut, TakeScraped, ProcessStep, ReadJob, UpdateJob, AddDocument,
              EnqueueIndexed, ProcessorDies, Resting, vars
<1> QED
  BY <1>1, <1>2, <1>3, <1>4 DEF Quiet

\* The order of scrapes, of processJobs and of what is under way, kept by each step.
LEMMA StepQuiet ==
    TypeOK /\ SeenInv /\ RowInv /\ QuietInv /\ [Next]_vars => QuietInv'
<1> SUFFICES ASSUME TypeOK, SeenInv, RowInv, QuietInv, [Next]_vars, Quiet'
             PROVE  AllQuiet'
  BY DEF QuietInv, AllQuiet
<1>q. Quiet /\ ~Fault /\ ~overlapped'
  BY QuietBefore DEF Quiet
<1>i. ScrapesInOrder /\ ProcessCurrent /\ NothingForgotten /\ stopped = {}
  BY <1>q DEF QuietInv, AllQuiet
<1> USE DEF AllQuiet
<1>r. /\ \A s \in Scrapers : scrape[s].at \in ScrapePlaces /\ scrape[s].ver \in Nat
      /\ \A p \in Processors : proc[p].at \in ProcPlaces /\ proc[p].ver \in Nat
      /\ job.ver \in Nat /\ site \in Nat /\ job.ver <= site /\ doc \in Nat
      /\ outbox \in Nat /\ queue \in [Paths -> Nat]
  BY Records, IngestionAssumption DEF TypeOK
<1>1. CASE Edit \/ UNCHANGED vars
  BY <1>1, <1>i DEF Edit, vars, ScrapesInOrder, ProcessCurrent, NothingForgotten, Underway
<1>2. CASE Deliver
  <2>1. UNCHANGED <<job, doc, scrape, proc, fetched, stopped>> /\ \A p \in Paths : queue'[p] > 0
    BY <1>2, <1>q, <1>r DEF Deliver, Publish
  <2>2. \E p \in Paths : TRUE
    BY IngestionAssumption
  <2> QED
    BY <2>1, <2>2, <1>i DEF ScrapesInOrder, ProcessCurrent, NothingForgotten, Underway
<1>3. ASSUME NEW s \in Scrapers, FetchJob(s)
      PROVE  AllQuiet'
  <2>1. /\ scrape'[s].at = "upsert" /\ scrape'[s].ver = site /\ scrape[s].at = "idle"
        /\ \A u \in Scrapers \ {s} : scrape'[u] = scrape[u]
        /\ UNCHANGED <<job, doc, outbox, queue, proc, stopped>>
    BY <1>3 DEF FetchJob, TypeOK
  <2>2. ScrapesInOrder'
    BY <1>3, <2>1 DEF FetchJob, ScrapesInOrder
  <2>3. ProcessCurrent'
    BY <2>1, <1>i DEF ProcessCurrent
  <2>4. NothingForgotten'
    BY <2>1, <1>i DEF NothingForgotten, Underway
  <2> QED
    BY <2>1, <2>2, <2>3, <2>4, <1>i
<1>4. ASSUME NEW s \in Scrapers, UpsertJob(s)
      PROVE  AllQuiet'
  <2>1. /\ scrape[s].at = "upsert" /\ ~Others(s)
        /\ UNCHANGED <<doc, outbox, queue, proc, stopped, fetched>>
        /\ job' = Upserted(s) /\ Leave(s, "enqueue")
    BY <1>4, <1>q DEF UpsertJob
  <2>2. /\ scrape'[s].at = "enqueue"
        /\ \A u \in Scrapers \ {s} : scrape'[u] = scrape[u]
    BY <2>1, ScrapeFrame DEF ScrapePlaces
  <2>3. \A u \in Scrapers \ {s} : scrape[u].at /= "upsert"
    BY <2>1 DEF Others
  <2>4. job'.ver = scrape[s].ver /\ scrape[s].ver = fetched
    BY <2>1, <2>3, <1>i, UpsertedRow DEF ScrapesInOrder
  <2>5. \A p \in Processors : proc[p].at = "idle"
    <3>1. s \notin Processors
      BY IngestionAssumption DEF Processors
    <3> QED
      BY <2>1, <3>1 DEF Others, Busy
  <2>6. ScrapesInOrder'
    BY <2>1, <2>2, <2>3, <2>4 DEF ScrapesInOrder
  <2>7. ProcessCurrent'
    BY <2>1, <2>5 DEF ProcessCurrent
  <2>8. NothingForgotten'
    BY <2>2 DEF NothingForgotten, Underway
  <2> QED
    BY <2>1, <2>6, <2>7, <2>8, <1>i
<1>5. ASSUME NEW s \in Scrapers, EnqueueScraped(s) \/ EndScrape(s) \/ ScrapeCut(s)
      PROVE  AllQuiet'
  <2>1. /\ UNCHANGED <<job, doc, queue, proc, stopped, fetched>>
        /\ scrape[s].at \in {"enqueue", "stored"}
        /\ \E to \in {"stored", "idle"} : Leave(s, to)
        /\ scrape[s].at = "enqueue" => outbox' = outbox + 1
        /\ scrape[s].at = "stored" => UNCHANGED outbox
    BY <1>5, <1>q DEF EnqueueScraped, EndScrape, ScrapeCut
  <2>2. /\ scrape'[s].at \in {"stored", "idle"}
        /\ \A u \in Scrapers \ {s} : scrape'[u] = scrape[u]
    BY <2>1, ScrapeFrame DEF ScrapePlaces
  <2>3. ScrapesInOrder'
    BY <2>1, <2>2, <1>i DEF ScrapesInOrder
  <2>4. ProcessCurrent'
    BY <2>1, <1>i DEF ProcessCurrent
  <2>5. NothingForgotten'
    BY <2>1, <2>2, <1>i, <1>r DEF NothingForgotten, Underway
  <2> QED
    BY <2>1, <2>3, <2>4, <2>5, <1>i
<1>6. ASSUME NEW p \in Processors, At(p, "read"),
             UNCHANGED <<job, doc, scrape, outbox, fetched, stopped>>
      PROVE  AllQuiet'
  <2>1. proc'[p].at = "read" /\ \A q \in Processors \ {p} : proc'[q] = proc[q]
    BY <1>6, ProcFrame DEF ProcPlaces
  <2> QED
    BY <1>6, <2>1, <1>i DEF ScrapesInOrder, ProcessCurrent, NothingForgotten, Underway
<1>7. ASSUME NEW p \in Processors, ReadJob(p)
      PROVE  AllQuiet'
  <2>1. /\ proc' = [proc EXCEPT ![p] = [at |-> "update", ver |-> job.ver]]
        /\ UNCHANGED <<job, doc, scrape, outbox, queue, fetched, stopped>>
    BY <1>7, <1>q DEF ReadJob, Fails
  <2>2. /\ proc'[p].at = "update" /\ proc'[p].ver = job.ver
        /\ \A q \in Processors \ {p} : proc'[q] = proc[q]
    BY <2>1 DEF TypeOK
  <2> QED
    BY <2>1, <2>2, <1>i DEF ScrapesInOrder, ProcessCurrent, NothingForgotten, Underway
<1>8. ASSUME NEW p \in Processors, UpdateJob(p)
      PROVE  AllQuiet'
  <2>1. /\ proc[p].at = "update" /\ ~Others(p) /\ job' = Cleaned(p) /\ At(p, "index")
        /\ UNCHANGED <<doc, scrape, outbox, queue, fetched, stopped>>
    BY <1>8, <1>q DEF UpdateJob, Fails
  <2>2. /\ proc'[p].at = "index" /\ proc'[p].ver = proc[p].ver
        /\ \A q \in Processors \ {p} : proc'[q] = proc[q]
    BY <2>1, ProcFrame DEF ProcPlaces
  <2>3. job'.ver = job.ver /\ job'.ver = proc[p].ver /\ job'.clean
    BY <2>1, <1>i DEF Cleaned, ProcessCurrent
  <2>4. \A q \in Processors \ {p} : proc[q].at = "idle"
    BY <2>1 DEF Others, Busy
  <2>5. ScrapesInOrder'
    BY <2>1, <2>3, <1>i DEF ScrapesInOrder
  <2>6. ProcessCurrent'
    BY <2>2, <2>3, <2>4 DEF ProcessCurrent
  <2>7. NothingForgotten'
    BY <2>2 DEF NothingForgotten, Underway
  <2> QED
    BY <2>1, <2>5, <2>6, <2>7, <1>i
<1>9. ASSUME NEW p \in Processors, AddDocument(p)
      PROVE  AllQuiet'
  <2>1. /\ proc[p].at = "index" /\ doc' = proc[p].ver /\ At(p, "announce")
        /\ UNCHANGED <<job, scrape, outbox, queue, fetched, stopped>>
    BY <1>9, <1>q DEF AddDocument, Fails
  <2>2. /\ proc'[p].at = "announce" /\ proc'[p].ver = proc[p].ver
        /\ \A q \in Processors \ {p} : proc'[q] = proc[q]
    BY <2>1, ProcFrame DEF ProcPlaces
  <2>3. doc' = job.ver /\ job.clean
    BY <2>1, <1>i DEF ProcessCurrent
  <2> QED
    BY <2>1, <2>2, <2>3, <1>i DEF ScrapesInOrder, ProcessCurrent, NothingForgotten
<1>10. ASSUME NEW p \in Processors, EnqueueIndexed(p)
       PROVE  AllQuiet'
  <2>1. /\ proc[p].at = "announce" /\ At(p, "idle")
        /\ UNCHANGED <<job, doc, scrape, outbox, queue, fetched, stopped>>
    BY <1>10 DEF EnqueueIndexed
  <2>2. proc'[p].at = "idle" /\ \A q \in Processors \ {p} : proc'[q] = proc[q]
    BY <2>1, ProcFrame DEF ProcPlaces
  <2> QED
    BY <2>1, <2>2, <1>i DEF ScrapesInOrder, ProcessCurrent, NothingForgotten
<1>11. ASSUME NEW p \in Paths, TakeScraped(p)
       PROVE  AllQuiet'
  BY <1>11, <1>6 DEF TakeScraped, Processors
<1>12. CASE Reindex
  BY <1>12, <1>6 DEF Reindex, Processors
<1>13. ~ProcessorDies /\ ~DeliverLosing /\ ~BrokerRestarts /\ \A p \in Paths : ~LoopEnds(p)
  BY <1>q DEF ProcessorDies, DeliverLosing, BrokerRestarts, LoopEnds
<1> QED
  BY <1>1, <1>2, <1>3, <1>4, <1>5, <1>7, <1>8, <1>9, <1>10, <1>11, <1>12, <1>13
     DEF Next, ScrapeStep, ProcessStep, Resting

-----------------------------------------------------------------------------
(* The theorems.                                                                 *)

LEMMA Invariance == Spec => []IInv
<1>1. IInv /\ [Next]_vars => IInv'
  BY StepType, StepRow, StepKeywords, StepIndexed, StepQuiet DEF IInv
<1> QED
  BY InitInv, <1>1, PTL DEF Spec

\* Every variable keeps its type; the table and the index hold versions the source has
\* shown.
THEOREM TypeCorrect == Spec => []TypeOK
<1>1. IInv => TypeOK
  BY DEF IInv
<1> QED
  BY Invariance, <1>1, PTL

\* A cleaned description always stands beside its own keywords.
THEOREM KeywordsAreOfTheText == Spec => []KeywordsFitText
<1>1. IInv => KeywordsFitText
  BY DEF IInv
<1> QED
  BY Invariance, <1>1, PTL

\* The matcher never hears of a job the index does not have.
THEOREM IndexedJobsAreSearchable == Spec => []IndexedIsSearchable
<1>1. IInv => IndexedIsSearchable
  BY DEF IInv
<1> QED
  BY Invariance, <1>1, PTL

\* When no scrape or processJob met another one at the row and no call failed, the last
\* fetched text is in the table, cleaned, and in the index once nothing is under way.
THEOREM SequentialUseIsExact == Spec => []SequentialIsExact
<1>1. IInv => SequentialIsExact
  <2> SUFFICES ASSUME IInv, AtRest, Quiet, job.ver > 0
               PROVE  job.ver = fetched /\ job.clean /\ doc = fetched
    BY DEF SequentialIsExact, Quiet
  <2>1. ScrapesInOrder /\ NothingForgotten /\ stopped = {}
    BY DEF IInv, QuietInv, AllQuiet
  <2>2. ~Underway
    BY <2>1 DEF Underway, AtRest, Busy
  <2> QED
    BY <2>1, <2>2 DEF ScrapesInOrder, NothingForgotten, AtRest
<1> QED
  BY Invariance, <1>1, PTL
=============================================================================
