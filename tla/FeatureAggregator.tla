--------------------------- MODULE FeatureAggregator ---------------------------
(* The behaviour features of one (user, resume, job): handleTrackInteraction   *)
(* of api-gateway publishes each interaction to Kafka under an event id of its *)
(* own, and feature-aggregator marks the event, increments a counter,          *)
(* recomputes the ratios and publishes the result, four statements that can    *)
(* each fail or be the last one before a crash.  The consume loop around the   *)
(* handler is StreamConsumer's; here a delivery is repeated at will.           *)
EXTENDS Integers, FiniteSets

CONSTANTS
    Ids,        \* interactions, each with an event id of its own
    Members,    \* members of the consumer group
    MaxFaults   \* bound: failed calls, crashes and repeated deliveries

ASSUME AggregatorAssumption == MaxFaults \in Nat

Kinds == {"impression", "click", "apply"}

VARIABLES
    kind,        \* kind[i]: the type of interaction i, "none" before it happens
    published,   \* in the topic
    accepted,    \* answered with 202
    delivered,   \* fetched and not due again
    marked,      \* processed_events
    counters,    \* impressions, clicks and applies of the row
    ratios,      \* ctr and affinity_score of the row, as fractions
    pc,          \* pc[c]: where member c is in its handler
    cur,         \* cur[c]: the interaction it handles
    dead,        \* in the dead-letter topic
    \* history
    counted,     \* interactions the counters contain
    interrupted, \* their member died, or parking them failed
    behind,      \* a handler ended between the counters and the ratios
    faults

vars == <<kind, published, accepted, delivered, marked, counters, ratios, pc, cur, dead,
          counted, interrupted, behind, faults>>

Fault == faults < MaxFaults /\ faults' = faults + 1
Fine  == UNCHANGED faults

Goto(c, to) == pc' = [pc EXCEPT ![c] = to]

AtLeastOne(n) == IF n > 0 THEN n ELSE 1

\* The UPDATE's CASE, LEAST and GREATEST: ctr is clicks per impression, affinity
\* (clicks / 2 + applies) per impression, at most 1.
RatiosOf(k) ==
    LET weight == k["click"] + 2 * k["apply"]
        shown  == 2 * AtLeastOne(k["impression"])
    IN [ctr      |-> IF k["impression"] > 0 THEN <<k["click"], k["impression"]>> ELSE <<0, 1>>,
        affinity |-> <<IF weight < shown THEN weight ELSE shown, shown>>]

NoCounts == [t \in Kinds |-> 0]

-----------------------------------------------------------------------------
Init ==
    /\ kind = [i \in Ids |-> "none"] /\ published = {} /\ accepted = {} /\ delivered = {}
    /\ marked = {} /\ counters = NoCounts /\ ratios = RatiosOf(NoCounts)
    /\ pc = [c \in Members |-> "idle"] /\ cur \in [Members -> Ids]
    /\ dead = {} /\ counted = {} /\ interrupted = {} /\ behind = FALSE /\ faults = 0

\* api-gateway, handleTrackInteraction: 202, or 502 when Publish failed, which
\* does not mean that the event is not in the topic.
Track(i, t) ==
    /\ kind[i] = "none" /\ kind' = [kind EXCEPT ![i] = t]
    /\ \/ published' = published \union {i} /\ accepted' = accepted \union {i} /\ Fine
       \/ published' \in {published, published \union {i}} /\ UNCHANGED accepted /\ Fault
    /\ UNCHANGED <<delivered, marked, counters, ratios, pc, cur, dead, counted,
                   interrupted, behind>>

\* consumeLoop hands over an event, for the first time or again.
Take(c, i) ==
    /\ pc[c] = "idle" /\ i \in published
    /\ IF i \in delivered THEN Fault ELSE Fine
    /\ delivered' = delivered \union {i}
    /\ cur' = [cur EXCEPT ![c] = i] /\ Goto(c, "mark")
    /\ UNCHANGED <<kind, published, accepted, marked, counters, ratios, dead, counted,
                   interrupted, behind>>

\* Mutant of Mark: only the offset keeps events from being counted again.
MarkNothing(c) ==
    /\ pc[c] = "mark" /\ Goto(c, "count") /\ Fine
    /\ UNCHANGED <<kind, published, accepted, delivered, marked, counters, ratios, cur, dead,
                   counted, interrupted, behind>>

\* MarkIfNew; an event already marked is done.
Mark(c) ==
    /\ pc[c] = "mark"
    /\ \/ cur[c] \notin marked /\ marked' = marked \union {cur[c]} /\ Goto(c, "count") /\ Fine
       \/ cur[c] \in marked /\ UNCHANGED marked /\ Goto(c, "idle") /\ Fine
       \/ marked' \in {marked, marked \union {cur[c]}} /\ Goto(c, "park") /\ Fault
    /\ UNCHANGED <<kind, published, accepted, delivered, counters, ratios, cur, dead, counted,
                   interrupted, behind>>

CountOne(c) ==
    /\ counters' = [counters EXCEPT ![kind[cur[c]]] = @ + 1]
    /\ counted' = counted \union {cur[c]}
    /\ behind' = TRUE

\* INSERT ... ON CONFLICT DO UPDATE: the increment.
Count(c) ==
    /\ pc[c] = "count"
    /\ \/ CountOne(c) /\ Goto(c, "ratios") /\ Fine
       \/ Goto(c, "park") /\ Fault /\ (CountOne(c) \/ UNCHANGED <<counters, counted, behind>>)
    /\ UNCHANGED <<kind, published, accepted, delivered, marked, ratios, cur, dead, interrupted>>

Recompute == ratios' = RatiosOf(counters) /\ behind' = FALSE

\* Mutant of Ratios: computed from the event instead of the row.
RatiosOfEvent(c) ==
    /\ pc[c] = "ratios" /\ Goto(c, "emit") /\ Fine
    /\ ratios' = RatiosOf([NoCounts EXCEPT ![kind[cur[c]]] = 1]) /\ behind' = FALSE
    /\ UNCHANGED <<kind, published, accepted, delivered, marked, counters, cur, dead, counted,
                   interrupted>>

\* UPDATE ... RETURNING, from whatever the counters are by now.
Ratios(c) ==
    /\ pc[c] = "ratios"
    /\ \/ Recompute /\ Goto(c, "emit") /\ Fine
       \/ Goto(c, "park") /\ Fault /\ (Recompute \/ UNCHANGED <<ratios, behind>>)
    /\ UNCHANGED <<kind, published, accepted, delivered, marked, counters, cur, dead, counted,
                   interrupted>>

\* Publish of user_features_updated; an error dead-letters an event that is counted.
Emit(c) ==
    /\ pc[c] = "emit"
    /\ \/ Goto(c, "idle") /\ Fine
       \/ Goto(c, "park") /\ Fault
    /\ UNCHANGED <<kind, published, accepted, delivered, marked, counters, ratios, cur, dead,
                   counted, interrupted, behind>>

\* Mutant of Park: the error is only logged.
ParkNothing(c) ==
    /\ pc[c] = "park" /\ Goto(c, "idle") /\ Fine
    /\ UNCHANGED <<kind, published, accepted, delivered, marked, counters, ratios, cur, dead,
                   counted, interrupted, behind>>

\* The dead-letter publish of consumeLoop; its error is logged.
Park(c) ==
    /\ pc[c] = "park" /\ Goto(c, "idle")
    /\ \/ dead' = dead \union {cur[c]} /\ UNCHANGED interrupted /\ Fine
       \/ interrupted' = interrupted \union {cur[c]} /\ UNCHANGED dead /\ Fault
    /\ UNCHANGED <<kind, published, accepted, delivered, marked, counters, ratios, cur, counted,
                   behind>>

\* The member dies; the event is delivered again and taken for a duplicate.
Crash(c) ==
    /\ pc[c] /= "idle" /\ Goto(c, "idle") /\ Fault
    /\ delivered' = delivered \ {cur[c]}
    /\ interrupted' = interrupted \union {cur[c]}
    /\ UNCHANGED <<kind, published, accepted, marked, counters, ratios, cur, dead, counted,
                   behind>>

AtRest == published = delivered /\ \A c \in Members : pc[c] = "idle"

\* Every interaction has happened and been handled.
Resting == AtRest /\ (\A i \in Ids : kind[i] /= "none") /\ UNCHANGED vars

Next ==
    \/ \E i \in Ids, t \in Kinds : Track(i, t)
    \/ \E c \in Members, i \in Ids : Take(c, i)
    \/ \E c \in Members : Mark(c) \/ Count(c) \/ Ratios(c) \/ Emit(c) \/ Park(c) \/ Crash(c)
    \/ Resting

Spec == Init /\ [][Next]_vars

-----------------------------------------------------------------------------
(* Types and invariants *)

\* Every variable keeps its type; the affinity the rankings multiply is at most 1.
TypeOK ==
    /\ kind \in [Ids -> Kinds \union {"none"}]
    /\ published \subseteq Ids /\ accepted \subseteq published /\ delivered \subseteq published
    /\ marked \subseteq published /\ dead \subseteq published
    /\ counted \subseteq Ids /\ interrupted \subseteq published
    /\ counters \in [Kinds -> Nat]
    /\ pc \in [Members -> {"idle", "mark", "count", "ratios", "emit", "park"}]
    /\ cur \in [Members -> Ids] /\ behind \in BOOLEAN /\ faults \in 0..MaxFaults
    /\ ratios.affinity[1] \in 0..ratios.affinity[2] /\ ratios.ctr[2] > 0

\* No interaction is counted twice, whatever is delivered again to whichever member.
CountedOnce ==
    \A t \in Kinds : counters[t] = Cardinality({i \in counted : kind[i] = t})

\* An interaction the gateway accepted is counted, or it can be told which failure
\* took it: a copy is in the dead-letter topic, or a member died with it.
UncountedHasCause == AtRest => accepted \subseteq counted \union dead \union interrupted

\* The ratios belong to the counters unless a handler is, or was stopped, between the
\* two statements; members that overlap cannot leave an older ratio behind.
RatiosCurrent == ~behind => ratios = RatiosOf(counters)
=============================================================================
