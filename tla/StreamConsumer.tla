---------------------------- MODULE StreamConsumer ----------------------------
(* A Kafka consumer group on one topic: consumeLoop of                        *)
(* src/shared/stream/kafka.go, around a handler that first calls MarkIfNew    *)
(* (src/shared/idempotency/idempotency.go) and then does its work, as the     *)
(* handleKafkaEvent functions of job-processor, job-matcher and scheduler do. *)
(*                                                                            *)
(* The topic may hold the same event several times (the outbox relay         *)
(* publishes at least once).  A group member starts at the committed offset   *)
(* when the partition is assigned to it, and may go on for a while after it   *)
(* was given to another member.  Marking, working, dead-lettering and         *)
(* committing are separate remote calls, any of which can fail, and the       *)
(* process can die between them.                                              *)
EXTENDS Integers, Sequences, FiniteSets

CONSTANTS
    Ids,             \* event ids (the event_id header)
    Consumers,       \* the members of the consumer group
    MaxLog,          \* bound: messages in the topic
    MaxDisruptions   \* bound: crashes, rebalances and loop exits

ASSUME ConsumerAssumption ==
    /\ MaxLog \in Nat
    /\ MaxDisruptions \in Nat

VARIABLES
    log,          \* the partition: a sequence of event ids
    committed,    \* the group's committed offset: messages 1..committed are done
    assigned,     \* the members that believe the partition is theirs
    pos,          \* pos[c]: the last message member c has fetched
    at,           \* at[c]: the message member c is handling
    phase,        \* where in the loop body member c is
    processed,    \* the processed_events rows of this group
    effects,      \* effects[id]: how often a handler did its work for event id
    dead,         \* the events with a copy in the dead-letter topic
    \* history, not in the code: why an event was given up
    interrupted,  \* marked, then its consumer died before it was done
    unparked,     \* its handler failed and the dead-letter publish failed too
    disruptions   \* crashes, rebalances and loop exits so far

broker  == <<log, committed, assigned, dead>>
history == <<interrupted, unparked>>
member  == <<pos, at, phase>>
vars    == <<broker, member, processed, effects, history, disruptions>>

Phases == {"fetch", "mark", "work", "dlq", "commit", "stopped"}

\* The event member c is handling.
Event(c) == log[at[c]]

Goto(c, p) == phase' = [phase EXCEPT ![c] = p]

Disrupt == /\ disruptions < MaxDisruptions
           /\ disruptions' = disruptions + 1

-----------------------------------------------------------------------------
Init ==
    /\ log = <<>>
    /\ committed = 0
    /\ assigned = {}
    /\ pos = [c \in Consumers |-> 0]
    /\ at = [c \in Consumers |-> 0]
    /\ phase = [c \in Consumers |-> "fetch"]
    /\ processed = {}
    /\ effects = [id \in Ids |-> 0]
    /\ dead = {}
    /\ interrupted = {}
    /\ unparked = {}
    /\ disruptions = 0

\* A relay appends a message; a retry appends the same event again.
Produce(id) ==
    /\ Len(log) < MaxLog
    /\ log' = Append(log, id)
    /\ UNCHANGED <<committed, assigned, dead, member, processed, effects, history,
                   disruptions>>

\* Mutant of Assign: LastOffset instead of FirstOffset.
AssignLatest(c) ==
    /\ phase[c] /= "stopped"
    /\ IF assigned = {} THEN UNCHANGED disruptions ELSE Disrupt
    /\ assigned' = assigned \union {c}
    /\ pos' = [pos EXCEPT ![c] = IF committed = 0 THEN Len(log) ELSE committed]
    /\ UNCHANGED <<log, committed, dead, at, phase, processed, effects, history>>

\* The group coordinator gives the partition to member c, which starts at the
\* committed offset (FirstOffset when there is none).  The previous owner has
\* not noticed yet.  Assigning a partition nobody has is not a disruption.
Assign(c) ==
    /\ phase[c] /= "stopped"
    /\ IF assigned = {} THEN UNCHANGED disruptions ELSE Disrupt
    /\ assigned' = assigned \union {c}
    /\ pos' = [pos EXCEPT ![c] = committed]
    /\ UNCHANGED <<log, committed, dead, at, phase, processed, effects, history>>

\* A member learns that the partition is another's now.
Revoke(c) ==
    /\ c \in assigned
    /\ assigned \ {c} /= {}
    /\ assigned' = assigned \ {c}
    /\ UNCHANGED <<log, committed, dead, member, processed, effects, history,
                   disruptions>>

\* reader.FetchMessage.
Fetch(c) ==
    /\ c \in assigned
    /\ phase[c] = "fetch"
    /\ pos[c] < Len(log)
    /\ pos' = [pos EXCEPT ![c] = @ + 1]
    /\ at' = [at EXCEPT ![c] = pos[c] + 1]
    /\ Goto(c, "mark")
    /\ UNCHANGED <<broker, processed, effects, history, disruptions>>

\* The fetch fails with a deadline or cancellation error: consumeLoop returns,
\* and only a restart of the process starts it again.  Every other fetch error
\* is logged and retried, and leaves the state as it is.
LoopExits(c) ==
    /\ phase[c] = "fetch"
    /\ Disrupt
    /\ Goto(c, "stopped")
    /\ assigned' = assigned \ {c}
    /\ UNCHANGED <<log, committed, dead, pos, at, processed, effects, history>>

\* Mutant of Mark: a SELECT where the code inserts.
MarkUnrecorded(c) ==
    /\ phase[c] = "mark"
    /\ Goto(c, IF Event(c) \in processed THEN "commit" ELSE "work")
    /\ UNCHANGED <<broker, pos, at, processed, effects, history, disruptions>>

\* The handler up to MarkIfNew: INSERT ... ON CONFLICT DO NOTHING.  A new event
\* is worked on, a known one is skipped with nil; a decode or database error is
\* the handler's error, and the database may have inserted the row regardless.
Mark(c) ==
    /\ phase[c] = "mark"
    /\ \/ /\ Event(c) \notin processed
          /\ processed' = processed \union {Event(c)}
          /\ Goto(c, "work")
       \/ /\ Event(c) \in processed
          /\ UNCHANGED processed
          /\ Goto(c, "commit")
       \/ /\ \E applied \in SUBSET {Event(c)} : processed' = processed \union applied
          /\ Goto(c, "dlq")
    /\ UNCHANGED <<broker, pos, at, effects, history, disruptions>>

\* Mutant of Work: the handler drops its error.
WorkSwallowsError(c) ==
    /\ phase[c] = "work"
    /\ \E n \in 0..1 : effects' = [effects EXCEPT ![Event(c)] = @ + n]
    /\ Goto(c, "commit")
    /\ UNCHANGED <<broker, pos, at, processed, history, disruptions>>

\* The handler's own work: done, or failed with or without part of it done.
Work(c) ==
    /\ phase[c] = "work"
    /\ \/ /\ effects' = [effects EXCEPT ![Event(c)] = @ + 1]
          /\ Goto(c, "commit")
       \/ /\ \E n \in 0..1 : effects' = [effects EXCEPT ![Event(c)] = @ + n]
          /\ Goto(c, "dlq")
    /\ UNCHANGED <<broker, pos, at, processed, history, disruptions>>

\* publishDLQ: its failure is only logged.
PublishDLQ(c) ==
    /\ phase[c] = "dlq"
    /\ \/ /\ dead' = dead \union {Event(c)}
          /\ UNCHANGED unparked
       \/ /\ unparked' = unparked \union {Event(c)}
          /\ UNCHANGED dead
    /\ Goto(c, "commit")
    /\ UNCHANGED <<log, committed, assigned, pos, at, processed, effects,
                   interrupted, disruptions>>

\* reader.CommitMessages, whatever the handler returned.  The broker takes the
\* offset from any group member, also a lower one than the current; a failure
\* is only logged.
Commit(c) ==
    /\ phase[c] = "commit"
    /\ committed' \in {at[c], committed}
    /\ Goto(c, "fetch")
    /\ UNCHANGED <<log, assigned, dead, pos, at, processed, effects, history,
                   disruptions>>

\* The process dies, the coordinator drops the member, the container restarts.
Crash(c) ==
    /\ Disrupt
    /\ assigned' = assigned \ {c}
    /\ interrupted' = IF phase[c] \in {"work", "dlq"}
                      THEN interrupted \union ({Event(c)} \intersect processed)
                      ELSE interrupted
    /\ Goto(c, "fetch")
    /\ UNCHANGED <<log, committed, dead, pos, at, processed, effects, unparked>>

-----------------------------------------------------------------------------
Loop(c) == Fetch(c) \/ Mark(c) \/ Work(c) \/ PublishDLQ(c) \/ Commit(c)

\* The topic is full and consumed: every running member waits in FetchMessage,
\* whose failures are retried for ever.
Waiting ==
    /\ Len(log) = MaxLog
    /\ \A c \in Consumers : \/ phase[c] = "stopped"
                            \/ phase[c] = "fetch" /\ (c \in assigned => pos[c] = MaxLog)
    /\ UNCHANGED vars

Next ==
    \/ \E id \in Ids : Produce(id)
    \/ \E c \in Consumers :
          Loop(c) \/ Assign(c) \/ Revoke(c) \/ LoopExits(c) \/ Crash(c)
    \/ Waiting

\* Members keep running their loop, and the coordinator gives a partition
\* nobody has to some running member.
Fairness ==
    /\ \A c \in Consumers : WF_vars(Loop(c))
    /\ WF_vars(assigned = {} /\ \E c \in Consumers : Assign(c))

Spec == Init /\ [][Next]_vars /\ Fairness

-----------------------------------------------------------------------------
(* Properties.                                                                *)

\* Every variable has its type.
TypeOK ==
    /\ log \in Seq(Ids)
    /\ committed \in 0..Len(log)
    /\ assigned \subseteq Consumers
    /\ pos \in [Consumers -> 0..Len(log)]
    /\ at \in [Consumers -> 0..Len(log)]
    /\ phase \in [Consumers -> Phases]
    /\ processed \subseteq Ids
    /\ effects \in [Ids -> Nat]
    /\ dead \subseteq Ids
    /\ interrupted \subseteq Ids
    /\ unparked \subseteq Ids
    /\ disruptions \in 0..MaxDisruptions

\* MarkIfNew makes the handler's work happen at most once per event, although
\* the topic repeats events, offsets go backwards, and two members may handle
\* the same event at the same time.
AtMostOnce == \A id \in Ids : effects[id] =< 1

\* A member still has this marked event in hand.
InHand(id) ==
    /\ id \in processed
    /\ \E c \in Consumers : phase[c] \in {"work", "dlq"} /\ Event(c) = id

\* An event has been worked on or dead-lettered, or is about to be.
Handled(id) == effects[id] > 0 \/ id \in dead \/ InHand(id)

\* The committed offset never passes an event that nobody took care of, except
\* for the two leaks the code has: a crash after MarkIfNew, a failed
\* dead-letter publish.  There is no third way to lose an event.
LossHasACause ==
    \A o \in 1..committed :
        Handled(log[o]) \/ log[o] \in interrupted \/ log[o] \in unparked

Settled(id) == effects[id] > 0 \/ id \in dead \union interrupted \union unparked

\* Every message of the topic is at last worked on, dead-lettered, or given up
\* for one of the two known causes, as long as some member's loop is running.
EveryMessageSettles ==
    \A o \in 1..MaxLog :
        o =< Len(log) ~>
            \/ o =< Len(log) /\ Settled(log[o])
            \/ \A c \in Consumers : phase[c] = "stopped"
=============================================================================
