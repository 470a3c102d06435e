-------------------------- MODULE RecommendationCache --------------------------
(* handleRecommendations of recommendation-service: a page is looked up in     *)
(* Redis, and on a miss counted and read from PostgreSQL by two statements and *)
(* cached for cacheTTL.  Nothing removes a cached page when the matches        *)
(* change.  The table is abstracted to a version that every match run, feature *)
(* update or deletion increases; an answer is known by the versions its total  *)
(* and its items come from, and by being cut short: when the connection fails  *)
(* the loop over the rows ends, nobody asks rows.Err() why, and the answer has *)
(* the rows that came, or none.  Time is counted in ticks.                     *)
EXTENDS Integers

CONSTANTS
    Pages,       \* cache keys: user, resume, limit and offset after ParsePagination
    Readers,     \* requests served at the same time
    CacheTTL,    \* CACHE_TTL
    Timeout,     \* the gateway's httpClient gives up and cancels the request
    MaxVersion, MaxTicks, MaxPageFaults   \* bounds: changes, ticks, failed calls

ASSUME CacheAssumption ==
    /\ CacheTTL \in Nat \ {0} /\ Timeout \in Nat \ {0}
    /\ MaxVersion \in Nat /\ MaxTicks \in Nat /\ MaxPageFaults \in Nat

VARIABLES
    ticks,
    version,     \* of the tables the page is read from
    cache,       \* cache[p]: what Redis has for page p
    serving,     \* where request r is
    page,        \* the page it asks for
    started,     \* when it began
    found,       \* [total, items, cut] as read so far
    \* history
    changed,     \* changed[v]: when version v was replaced
    cutAt,       \* cutAt[p]: when a read of p was last cut short, -1 if never
    last,        \* last[p]: the last answer given for p, and when
    overlapped,  \* two requests have been served at the same time
    pageFaults

cacheVars == <<ticks, version, cache, serving, page, started, found, changed, cutAt, last, overlapped,
               pageFaults>>

Versions == 0..MaxVersion
Absent   == [total |-> 0, items |-> 0, cut |-> FALSE, until |-> 0]   \* expired, or never set

MoveTo(r, to) == serving' = [serving EXCEPT ![r] = to]
PageFault == pageFaults < MaxPageFaults /\ pageFaults' = pageFaults + 1
PageFine  == UNCHANGED pageFaults

Fresh(p) == cache[p].until > ticks

-----------------------------------------------------------------------------
CacheInit ==
    /\ ticks = 0 /\ version = 0
    /\ cache = [p \in Pages |-> Absent]
    /\ serving = [r \in Readers |-> "idle"]
    /\ page \in [Readers -> Pages] /\ started = [r \in Readers |-> 0]
    /\ found = [r \in Readers |-> [total |-> 0, items |-> 0, cut |-> FALSE]]
    /\ changed = [v \in Versions |-> -1] /\ cutAt = [p \in Pages |-> -1]
    /\ last = [p \in Pages |-> [total |-> 0, items |-> 0, cut |-> FALSE, time |-> 0]]
    /\ overlapped = FALSE /\ pageFaults = 0

\* job-matcher, feature-aggregator or resume-service changes what a page shows.
Change ==
    /\ version < MaxVersion /\ version' = version + 1
    /\ changed' = [changed EXCEPT ![version] = ticks]
    /\ UNCHANGED <<ticks, cache, serving, page, started, found, cutAt, last,
                  pageFaults, overlapped>>

Serve(r, p, a) ==
    /\ last' = [last EXCEPT ![p] = [total |-> a.total, items |-> a.items, cut |-> a.cut,
                                   time |-> ticks]]
    /\ MoveTo(r, "idle")

\* redis.Get: a hit is the answer; a miss and an error go on to the database.
Request(r, p) ==
    /\ serving[r] = "idle"
    /\ page' = [page EXCEPT ![r] = p] /\ started' = [started EXCEPT ![r] = ticks]
    /\ overlapped' = (overlapped \/ \E q \in Readers : serving[q] /= "idle")
    /\ \/ Fresh(p) /\ Serve(r, p, cache[p]) /\ PageFine
       \/ ~Fresh(p) /\ MoveTo(r, "count") /\ UNCHANGED last /\ PageFine
       \/ MoveTo(r, "count") /\ UNCHANGED last /\ PageFault
    /\ UNCHANGED <<ticks, version, cache, found, changed, cutAt>>

\* SELECT COUNT(1); an error is a 500.
Count(r) ==
    /\ serving[r] = "count"
    /\ \/ found' = [found EXCEPT ![r].total = version] /\ MoveTo(r, "page") /\ PageFine
       \/ UNCHANGED found /\ MoveTo(r, "idle") /\ PageFault
    /\ UNCHANGED <<ticks, version, cache, page, started, changed, cutAt, last, overlapped>>

\* The page itself, then UpsertState, whose error is only logged (ResumeLifecycle).
\* An error of Query or Scan is a 500; one that ends the rows early goes unnoticed.
ReadPage(r) ==
    /\ serving[r] = "page"
    /\ \/ /\ found' = [found EXCEPT ![r].items = version, ![r].cut = FALSE]
          /\ UNCHANGED cutAt /\ MoveTo(r, "set") /\ PageFine
       \/ /\ found' = [found EXCEPT ![r].items = version, ![r].cut = TRUE]
          /\ cutAt' = [cutAt EXCEPT ![page[r]] = ticks] /\ MoveTo(r, "set") /\ PageFault
       \/ UNCHANGED <<found, cutAt>> /\ MoveTo(r, "idle") /\ PageFault
    /\ UNCHANGED <<ticks, version, cache, page, started, changed, last, overlapped>>

\* Mutant of Cached: the TTL in another unit.
CachedLonger(r) == [total |-> found[r].total, items |-> found[r].items, cut |-> found[r].cut,
                    until |-> ticks + 60 * CacheTTL]

Cached(r) == [total |-> found[r].total, items |-> found[r].items, cut |-> found[r].cut,
              until |-> ticks + CacheTTL]

\* Mutant of SetAndServe: the entry is set only if there is none.
SetIfAbsent(r) ==
    /\ serving[r] = "set" /\ Serve(r, page[r], found[r]) /\ PageFine
    /\ cache' = IF Fresh(page[r]) THEN cache ELSE [cache EXCEPT ![page[r]] = Cached(r)]
    /\ UNCHANGED <<ticks, version, page, started, found, changed, cutAt, overlapped>>

\* redis.Set; its error is ignored, then the answer.
SetAndServe(r) ==
    /\ serving[r] = "set" /\ Serve(r, page[r], found[r])
    /\ \/ cache' = [cache EXCEPT ![page[r]] = Cached(r)] /\ PageFine
       \/ UNCHANGED cache /\ PageFault
    /\ UNCHANGED <<ticks, version, page, started, found, changed, cutAt, overlapped>>

\* The gateway has given up: the context is cancelled and the next call fails; a Set
\* that is on its way may still arrive.
Cancel(r) ==
    /\ serving[r] /= "idle" /\ ticks = started[r] + Timeout /\ MoveTo(r, "idle")
    /\ \/ UNCHANGED cache
       \/ serving[r] = "set" /\ cache' = [cache EXCEPT ![page[r]] = Cached(r)]
    /\ UNCHANGED <<ticks, version, page, started, found, changed, cutAt, last,
                  pageFaults, overlapped>>

\* Time passes, but not past the timeout of a request.
Tick ==
    /\ ticks < MaxTicks /\ ticks' = ticks + 1
    /\ \A r \in Readers : serving[r] /= "idle" => ticks < started[r] + Timeout
    /\ UNCHANGED <<version, cache, serving, page, started, found, changed, cutAt, last,
                  pageFaults, overlapped>>

\* Redis loses an entry: evicted, or restarted.
Evict(p) ==
    /\ Fresh(p) /\ cache' = [cache EXCEPT ![p] = Absent]
    /\ UNCHANGED <<ticks, version, serving, page, started, found, changed, cutAt, last,
                  pageFaults, overlapped>>

Step(r) == Count(r) \/ ReadPage(r) \/ SetAndServe(r) \/ Cancel(r)

CacheNext ==
    \/ Change \/ Tick
    \/ \E p \in Pages : Evict(p)
    \/ \E r \in Readers : Step(r) \/ \E p \in Pages : Request(r, p)

CacheSpec == CacheInit /\ [][CacheNext]_cacheVars

-----------------------------------------------------------------------------
(* Types and invariants *)

\* Every variable keeps its type.
CacheTypeOK ==
    /\ ticks \in 0..MaxTicks /\ version \in Versions
    /\ cache \in [Pages -> [total : Versions, items : Versions, cut : BOOLEAN,
                            until : 0..MaxTicks + CacheTTL]]
    /\ serving \in [Readers -> {"idle", "count", "page", "set"}]
    /\ page \in [Readers -> Pages] /\ started \in [Readers -> 0..MaxTicks]
    /\ found \in [Readers -> [total : Versions, items : Versions, cut : BOOLEAN]]
    /\ changed \in [Versions -> -1..MaxTicks] /\ cutAt \in [Pages -> -1..MaxTicks]
    /\ last \in [Pages -> [total : Versions, items : Versions, cut : BOOLEAN,
                           time : 0..MaxTicks]]
    /\ overlapped \in BOOLEAN /\ pageFaults \in 0..MaxPageFaults

\* The rows of an answer are of matches that were in the table less than CacheTTL and
\* one request ago, whichever requests overlapped, were cancelled or overwrote each
\* other's cache entries.
StalenessBounded ==
    \A p \in Pages :
        last[p].items < version
            => last[p].time - changed[last[p].items] < CacheTTL + Timeout

\* The total of an answer is taken before its items, and no change between the two
\* statements is further than a request from another, wherever the answer comes from.
TotalNearItems ==
    \A p \in Pages :
        /\ last[p].total <= last[p].items
        /\ last[p].total < last[p].items
              => changed[last[p].items - 1] - changed[last[p].total] <= Timeout

\* An answer that lacks rows goes back to a read of that page that failed less than
\* CacheTTL and one request ago: a read cut short is cached and shown like any other,
\* but no longer.
CutsPass ==
    \A p \in Pages :
        last[p].cut => cutAt[p] >= 0 /\ last[p].time - cutAt[p] < CacheTTL + Timeout

\* What holds of every answer.
CacheInv == CacheTypeOK /\ StalenessBounded /\ TotalNearItems /\ CutsPass

\* As long as requests do not overlap and at most one call fails, a user never sees
\* rows of an older version after a newer one, and an answer that lacks rows follows a
\* complete one only if a read was cut short since: what is in the cache is no worse
\* than what was served before.  (Overlapping requests, or a Get and then a Set that
\* fail, can show it.)
SequentialNeverOlder ==
    [][\A p \in Pages :
          ~overlapped /\ pageFaults' < 2 /\ last'[p] /= last[p]
              => /\ last'[p].items >= last[p].items
                 /\ last'[p].cut /\ ~last[p].cut => cutAt'[p] >= last[p].time]_cacheVars
=============================================================================
