--------------------------------- MODULE Alerts ---------------------------------
(* The mails scheduler sends when a match run announces matches.  The outbox      *)
(* relay publishes each announcement to Kafka and then, mirrored, to RabbitMQ,    *)
(* and scheduler consumes both: handleKafkaEvent marks the event first,           *)
(* handleRabbitEvent marks nothing.  A consume loop takes one copy at a time; an  *)
(* error drops a RabbitMQ copy and dead-letters a Kafka one.                      *)
EXTENDS Integers

CONSTANTS
    Announcements,   \* job_matches_generated events
    Empty,           \* those with match_count 0
    Transports,      \* enabled consumers: a subset of {"rabbit", "kafka"}
    MaxFaults        \* bound: failed calls, crashes and repeated copies

ASSUME AlertAssumption ==
    /\ Empty \subseteq Announcements /\ Transports \subseteq {"rabbit", "kafka"}
    /\ MaxFaults \in Nat

VARIABLES
    announced,
    unsent,   \* announcements the relay has not settled
    copies,   \* copies[t]: announcements transport t will still hand over
    pc,       \* pc[t]: where the handler of transport t is
    cur,      \* cur[t]: its announcement
    marked,   \* processed_events
    mails,    \* mails[a]: mails that left for a
    stopped,  \* transports whose consume loop has returned for good
    taken,    \* history: taken[a]: RabbitMQ copies of a handled
    lost,     \* history: lost[t]: announcements transport t gave up or never got
    faults

vars == <<announced, unsent, copies, pc, cur, marked, mails, stopped, taken, lost, faults>>

Goto(t, to) == pc' = [pc EXCEPT ![t] = to]
Fault == faults < MaxFaults /\ faults' = faults + 1
Fine  == UNCHANGED faults

\* The handler returns an error: nack without requeue, or the dead-letter topic.
Fail(t) == Goto(t, "idle") /\ lost' = [lost EXCEPT ![t] = @ \union {cur[t]}]

-----------------------------------------------------------------------------
Init ==
    /\ announced = {} /\ unsent = {} /\ stopped = {} /\ copies = [t \in Transports |-> {}]
    /\ pc = [t \in Transports |-> "idle"] /\ cur \in [Transports -> Announcements]
    /\ marked = {} /\ mails = [a \in Announcements |-> 0]
    /\ taken = [a \in Announcements |-> 0]
    /\ lost = [t \in Transports |-> {}] /\ faults = 0

\* outbox.Insert of the match run.
Announce(a) ==
    /\ a \notin announced /\ announced' = announced \union {a} /\ unsent' = unsent \union {a}
    /\ UNCHANGED <<copies, pc, cur, marked, mails, stopped, taken, lost, faults>>

\* What one dispatch reaches: Kafka comes first, and only after its acknowledgement
\* RabbitMQ.
Reached == {{}, Transports \intersect {"kafka"}, Transports}

HandOver(a, ts) ==
    copies' = [t \in Transports |-> IF t \in ts THEN copies[t] \union {a} ELSE copies[t]]

\* The relay publishes the row and settles it, or an attempt fails half-way or does
\* not commit and the row stays.
Dispatch(a) ==
    /\ a \in unsent
    /\ \/ HandOver(a, Transports) /\ unsent' = unsent \ {a} /\ Fine
       \/ (\E ts \in Reached : HandOver(a, ts)) /\ UNCHANGED unsent /\ Fault
    /\ UNCHANGED <<announced, pc, cur, marked, mails, stopped, taken, lost>>

\* The row is settled without a copy everywhere: dead-lettered after maxRetries
\* attempts, or its RabbitMQ copy, neither mandatory nor confirmed, is gone.
DispatchLosing(a) ==
    /\ a \in unsent /\ unsent' = unsent \ {a} /\ Fault
    /\ \E ts \in Reached :
          /\ HandOver(a, ts)
          /\ lost' = [t \in Transports |-> IF t \in ts THEN lost[t] ELSE lost[t] \union {a}]
    /\ UNCHANGED <<announced, pc, cur, marked, mails, stopped, taken>>

\* RabbitMQ restarts: its messages are transient, and the channel of scheduler, which
\* does not connect again, closes.
BrokerDown ==
    /\ "rabbit" \in Transports /\ (copies["rabbit"] /= {} \/ "rabbit" \notin stopped) /\ Fault
    /\ copies' = [copies EXCEPT !["rabbit"] = {}] /\ stopped' = stopped \union {"rabbit"}
    /\ lost' = [lost EXCEPT !["rabbit"] = @ \union copies["rabbit"]]
    /\ UNCHANGED <<announced, unsent, pc, cur, marked, mails, taken>>

\* A consume loop returns for good: RabbitMQ's with its channel, when a copy not yet
\* acknowledged is requeued, Kafka's on a deadline error of its fetch.
LoopReturns(t) ==
    /\ t \notin stopped /\ stopped' = stopped \union {t} /\ Fault
    /\ t = "kafka" => pc[t] = "idle"
    /\ copies' = [copies EXCEPT ![t] = @ \union IF pc[t] = "idle" THEN {} ELSE {cur[t]}]
    /\ UNCHANGED <<announced, unsent, pc, cur, marked, mails, taken, lost>>

\* The relay published it once more, or the offset went back.
Repeat(t, a) ==
    /\ a \in announced /\ a \notin copies[t] /\ Fault
    /\ copies' = [copies EXCEPT ![t] = @ \union {a}]
    /\ UNCHANGED <<announced, unsent, pc, cur, marked, mails, stopped, taken, lost>>

Take(t, a) ==
    /\ pc[t] = "idle" /\ t \notin stopped /\ a \in copies[t]
    /\ copies' = [copies EXCEPT ![t] = @ \ {a}]
    /\ cur' = [cur EXCEPT ![t] = a]
    /\ Goto(t, IF t = "kafka" THEN "mark" ELSE "count")
    /\ taken' = IF t = "rabbit" THEN [taken EXCEPT ![a] = @ + 1] ELSE taken
    /\ UNCHANGED <<announced, unsent, marked, mails, stopped, lost, faults>>

\* Mutant of Mark: the event id is not looked up.
MarkAlways(t) ==
    /\ pc[t] = "mark" /\ marked' = marked \union {cur[t]} /\ Goto(t, "count") /\ Fine
    /\ UNCHANGED <<announced, unsent, copies, cur, mails, stopped, taken, lost>>

\* MarkIfNew, on the Kafka path only.
Mark(t) ==
    /\ pc[t] = "mark"
    /\ \/ /\ cur[t] \notin marked /\ marked' = marked \union {cur[t]}
          /\ Goto(t, "count") /\ UNCHANGED lost /\ Fine
       \/ cur[t] \in marked /\ Goto(t, "idle") /\ UNCHANGED <<marked, lost>> /\ Fine
       \/ marked' \in {marked, marked \union {cur[t]}} /\ Fail(t) /\ Fault
    /\ UNCHANGED <<announced, unsent, copies, cur, mails, stopped, taken>>

\* MatchCount == 0 is the end.
CheckCount(t) ==
    /\ pc[t] = "count" /\ Goto(t, IF cur[t] \in Empty THEN "idle" ELSE "send")
    /\ UNCHANGED <<announced, unsent, copies, cur, marked, mails, stopped, taken, lost, faults>>

Mailed(t) == mails' = [mails EXCEPT ![cur[t]] = @ + 1]

\* Mutant of Send: the error of emailClient.Send is ignored, as in sendWeeklyAlerts.
SendIgnored(t) ==
    /\ pc[t] = "send" /\ Goto(t, "idle")
    /\ \/ Mailed(t) /\ Fine
       \/ UNCHANGED mails /\ Fault
    /\ UNCHANGED <<announced, unsent, copies, cur, marked, stopped, taken, lost>>

\* sendNewMatchNotification: the address, the top picks, then the mail provider,
\* which may have sent the mail although its answer is an error or comes too late.
Send(t) ==
    /\ pc[t] = "send"
    /\ \/ Mailed(t) /\ Goto(t, "idle") /\ UNCHANGED lost /\ Fine
       \/ (Mailed(t) \/ UNCHANGED mails) /\ Fail(t) /\ Fault
    /\ UNCHANGED <<announced, unsent, copies, cur, marked, stopped, taken>>

\* Loops a crash of scheduler interrupts, but for RabbitMQ's without its channel: its
\* message is back in the queue, or gone, already.
CutOff == {t \in Transports : pc[t] /= "idle" /\ (t = "rabbit" => t \notin stopped)}

\* scheduler dies and starts again: what it has not settled comes back on both
\* transports; a marked event is then taken for a duplicate.
Crash ==
    /\ Fault /\ (stopped /= {} \/ \E t \in Transports : pc[t] /= "idle")
    /\ pc' = [t \in Transports |-> "idle"] /\ stopped' = {}
    /\ copies' = [t \in Transports |->
                     IF t \in CutOff THEN copies[t] \union {cur[t]} ELSE copies[t]]
    /\ lost' = [t \in Transports |->
                   IF \/ pc[t] /= "idle" /\ cur[t] \notin copies'[t]
                      \/ t = "kafka" /\ pc[t] \in {"count", "send"}
                   THEN lost[t] \union {cur[t]} ELSE lost[t]]
    /\ UNCHANGED <<announced, unsent, cur, marked, mails, taken>>

AtRest ==
    /\ unsent = {}
    /\ \A t \in Transports : pc[t] = "idle" /\ (t \in stopped \/ copies[t] = {})

Resting == AtRest /\ announced = Announcements /\ UNCHANGED vars

Handle(t) == Mark(t) \/ CheckCount(t) \/ Send(t)

Next ==
    \/ \E a \in Announcements :
          \/ Announce(a) \/ Dispatch(a) \/ DispatchLosing(a)
          \/ \E t \in Transports : Repeat(t, a) \/ Take(t, a)
    \/ \E t \in Transports : Handle(t) \/ LoopReturns(t)
    \/ BrokerDown \/ Crash \/ Resting

Spec == Init /\ [][Next]_vars

-----------------------------------------------------------------------------
(* Types and invariants *)

\* Every variable keeps its type; what is marked or handed over was announced,
\* and a mail under way has matches to tell of.
TypeOK ==
    /\ announced \subseteq Announcements /\ unsent \subseteq announced
    /\ stopped \subseteq Transports
    /\ copies \in [Transports -> SUBSET announced]
    /\ pc \in [Transports -> {"idle", "mark", "count", "send"}]
    /\ cur \in [Transports -> Announcements]
    /\ marked \subseteq announced
    /\ mails \in [Announcements -> Nat] /\ taken \in [Announcements -> Nat]
    /\ lost \in [Transports -> SUBSET announced] /\ faults \in 0..MaxFaults
    /\ \A t \in Transports : pc[t] = "send" => cur[t] \notin Empty

\* An announcement is mailed once per RabbitMQ copy and once at most over Kafka, and
\* not at all without matches: with RabbitMQ off, repeated copies and restarts never
\* cause a second mail; with both on, two mails are the rule.
MailsAccounted ==
    \A a \in Announcements :
        mails[a] <= IF a \in Empty THEN 0
                    ELSE taken[a] + (IF "kafka" \in Transports THEN 1 ELSE 0)

\* A match run nobody hears of has failed on every transport: the relay gave the row
\* up or its RabbitMQ copy vanished, a handler failed, scheduler died after the mark,
\* or the copy waits for a loop that is over.  No crash of scheduler and no repeated
\* copy swallows a mail on both.
SilenceNeedsAllToFail ==
    AtRest => \A a \in announced \ Empty :
                  mails[a] = 0 =>
                      \A t \in Transports : a \in lost[t] \/ (t \in stopped /\ a \in copies[t])
=============================================================================
