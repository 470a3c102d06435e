---------------------------- MODULE QueueConsumer ----------------------------
(* One durable RabbitMQ queue and its consumers: Subscribe of                 *)
(* src/shared/queue/rabbitmq.go as job-processor, job-matcher and scheduler   *)
(* use it, and run_consumer_forever of resume-parser.  Acknowledgements are   *)
(* explicit, a handler's error drops the message, and what a lost connection  *)
(* or a dead process has not acknowledged goes back to the queue.  The Go     *)
(* loop returns when its delivery channel closes and only a restart of the    *)
(* process subscribes again; the Python loop connects again by itself.  The   *)
(* queue is durable, its messages are not: Publish sets no DeliveryMode, so a  *)
(* broker that restarts comes back with the queue and without them.           *)
EXTENDS Integers, FiniteSets

CONSTANTS
    Messages,
    None,            \* no message
    Consumers,       \* processes that consume the queue
    Reconnecting,    \* those that connect again by themselves (resume-parser)
    Prefetch,        \* Qos: unacknowledged messages per consumer
    MaxDisruptions   \* bound: lost connections, dead processes and
                     \* broker restarts

ASSUME QueueAssumption ==
    /\ None \notin Messages
    /\ Reconnecting \subseteq Consumers
    /\ Prefetch \in Nat \ {0} /\ MaxDisruptions \in Nat

VARIABLES
    bound,      \* the queue exists and is bound to the exchange
    ready,      \* messages waiting in the queue
    unacked,    \* unacked[c]: delivered to c, not acknowledged
    connected,  \* connected[c]
    at,         \* at[c]: the message c's handler has
    phase,      \* where c's loop is
    acked, dropped,
    \* history
    sent,       \* Publish returned nil
    unrouted,   \* published before the queue was bound: the exchange discards them
    perished,   \* gone with the publisher's connection or with a broker restart
    done,       \* handled without error, at least once
    tries,      \* tries[m]: how often a handler was given m
    disruptions

broker == <<bound, ready, unacked, acked, dropped, sent, unrouted, perished>>
vars   == <<broker, connected, at, phase, done, tries, disruptions>>

Phases == {"down", "idle", "handle", "ok", "failed", "stopped"}

InFlight == UNION {unacked[c] : c \in Consumers}

Goto(c, p) == phase' = [phase EXCEPT ![c] = p]

Disrupt == disruptions < MaxDisruptions /\ disruptions' = disruptions + 1

-----------------------------------------------------------------------------
Init ==
    /\ bound = FALSE /\ ready = {} /\ unacked = [c \in Consumers |-> {}]
    /\ acked = {} /\ dropped = {} /\ sent = {} /\ unrouted = {} /\ perished = {}
    /\ connected = [c \in Consumers |-> FALSE]
    /\ at = [c \in Consumers |-> None]
    /\ phase = [c \in Consumers |-> "down"]
    /\ done = {} /\ tries = [m \in Messages |-> 0] /\ disruptions = 0

\* The relay's mirror publishes, not mandatory and without a confirm: nil says
\* that the frame was written.  Without a binding the exchange discards the
\* message, and a connection that breaks takes along what nobody has read.
Publish(m) ==
    /\ m \notin sent /\ sent' = sent \union {m}
    /\ \/ /\ UNCHANGED <<perished, disruptions>>
          /\ IF bound THEN ready' = ready \union {m} /\ UNCHANGED unrouted
                      ELSE unrouted' = unrouted \union {m} /\ UNCHANGED ready
       \/ Disrupt /\ perished' = perished \union {m} /\ UNCHANGED <<ready, unrouted>>
    /\ UNCHANGED <<bound, unacked, acked, dropped, connected, at, phase, done, tries>>

\* Connect, declare, bind, Qos, Consume.
Subscribe(c) ==
    /\ phase[c] = "down" /\ Goto(c, "idle")
    /\ bound' = TRUE /\ connected' = [connected EXCEPT ![c] = TRUE]
    /\ UNCHANGED <<ready, unacked, acked, dropped, sent, unrouted, perished, at, done, tries,
                   disruptions>>

\* The broker pushes a message to a consumer that has room for it.
Push(c, m) ==
    /\ connected[c] /\ m \in ready /\ Cardinality(unacked[c]) < Prefetch
    /\ ready' = ready \ {m}
    /\ unacked' = [unacked EXCEPT ![c] = @ \union {m}]
    /\ UNCHANGED <<bound, acked, dropped, sent, unrouted, perished, connected, at, phase, done, tries,
                   disruptions>>

\* d := <-deliveries.
Take(c) ==
    /\ phase[c] = "idle" /\ Goto(c, "handle")
    /\ \E m \in unacked[c] :
          /\ at' = [at EXCEPT ![c] = m]
          /\ tries' = [tries EXCEPT ![m] = @ + 1]
    /\ UNCHANGED <<broker, connected, done, disruptions>>

\* The handler; its effects may be complete although it returns an error.
Handle(c) ==
    /\ phase[c] = "handle"
    /\ \/ Goto(c, "ok") /\ done' = done \union {at[c]}
       \/ Goto(c, "failed") /\ done' \in {done, done \union {at[c]}}
    /\ UNCHANGED <<broker, connected, at, tries, disruptions>>

\* Where the loop goes when its connection is gone.
Gone(c) == IF c \in Reconnecting THEN "down" ELSE "stopped"

\* Mutant of Settle: a failed message is requeued.
SettleRequeue(c) ==
    /\ phase[c] \in {"ok", "failed"}
    /\ at' = [at EXCEPT ![c] = None]
    /\ Goto(c, IF connected[c] THEN "idle" ELSE Gone(c))
    /\ unacked' = [unacked EXCEPT ![c] = @ \ {at[c]}]
    /\ IF connected[c] /\ phase[c] = "ok"
       THEN acked' = acked \union {at[c]} /\ UNCHANGED <<ready, dropped>>
       ELSE ready' = ready \union (IF connected[c] THEN {at[c]} ELSE {})
            /\ UNCHANGED <<acked, dropped>>
    /\ UNCHANGED <<bound, sent, unrouted, perished, connected, done, tries, disruptions>>

\* Ack, or Nack without requeue; on a dead connection both fail, with a log line,
\* and the loop finds its delivery channel closed.
Settle(c) ==
    /\ phase[c] \in {"ok", "failed"}
    /\ at' = [at EXCEPT ![c] = None]
    /\ Goto(c, IF connected[c] THEN "idle" ELSE Gone(c))
    /\ unacked' = [unacked EXCEPT ![c] = @ \ {at[c]}]
    /\ LET settled == IF connected[c] THEN {at[c]} ELSE {} IN
         IF phase[c] = "ok" THEN acked' = acked \union settled /\ UNCHANGED dropped
                            ELSE dropped' = dropped \union settled /\ UNCHANGED acked
    /\ UNCHANGED <<bound, ready, sent, unrouted, perished, connected, done, tries, disruptions>>

\* Mutant of Requeue: the messages belong to the connection.
RequeueNothing(c) ==
    /\ UNCHANGED ready
    /\ unacked' = [unacked EXCEPT ![c] = {}]

\* The broker takes back what c has not acknowledged.
Requeue(c) ==
    /\ ready' = ready \union unacked[c]
    /\ unacked' = [unacked EXCEPT ![c] = {}]

\* The connection is lost; a handler at work goes on and notices later.
LoseConnection(c) ==
    /\ connected[c] /\ Disrupt
    /\ connected' = [connected EXCEPT ![c] = FALSE]
    /\ Goto(c, IF phase[c] = "idle" THEN Gone(c) ELSE phase[c])
    /\ Requeue(c)
    /\ UNCHANGED <<bound, acked, dropped, sent, unrouted, perished, at, done, tries>>

\* The process dies, or an operator restarts one whose loop has stopped; it is
\* started again.
Restart(c) ==
    /\ phase[c] /= "down" /\ Disrupt
    /\ connected' = [connected EXCEPT ![c] = FALSE]
    /\ Goto(c, "down") /\ at' = [at EXCEPT ![c] = None]
    /\ Requeue(c)
    /\ UNCHANGED <<bound, acked, dropped, sent, unrouted, perished, done, tries>>

\* The broker restarts: every connection is lost, the durable queue and its
\* binding are back, the transient messages are not, neither those that waited nor
\* those that were handed out.  Handlers at work go on and notice later.
RestartBroker ==
    /\ Disrupt
    /\ connected' = [c \in Consumers |-> FALSE]
    /\ phase' = [c \in Consumers |-> IF phase[c] = "idle" THEN Gone(c) ELSE phase[c]]
    /\ perished' = perished \union ready \union InFlight
    /\ ready' = {} /\ unacked' = [c \in Consumers |-> {}]
    /\ UNCHANGED <<bound, acked, dropped, sent, unrouted, at, done, tries>>

\* Everything published is settled, or nobody is left to settle it.
Quiet ==
    /\ sent = Messages
    /\ \/ ready = {} /\ \A c \in Consumers : phase[c] /= "down" /\ unacked[c] = {}
       \/ \A c \in Consumers : phase[c] = "stopped"
    /\ UNCHANGED vars

Loop(c) == Subscribe(c) \/ Take(c) \/ Handle(c) \/ Settle(c)

Next ==
    \/ \E m \in Messages : Publish(m) \/ \E c \in Consumers : Push(c, m)
    \/ \E c \in Consumers : Loop(c) \/ LoseConnection(c) \/ Restart(c)
    \/ RestartBroker
    \/ Quiet

\* Each loop runs on and the broker delivers to whoever has room; a process whose
\* loop has stopped is alive and healthy, so nothing restarts it.
Fairness ==
    /\ \A c \in Consumers : WF_vars(Loop(c))
    /\ \A m \in Messages : SF_vars(\E c \in Consumers : Push(c, m))

Spec == Init /\ [][Next]_vars /\ Fairness

-----------------------------------------------------------------------------
(* Types, invariants and liveness *)

\* Every variable keeps its type and no consumer holds more than its prefetch.
TypeOK ==
    /\ bound \in BOOLEAN /\ ready \subseteq Messages
    /\ unacked \in [Consumers -> SUBSET Messages]
    /\ connected \in [Consumers -> BOOLEAN]
    /\ at \in [Consumers -> Messages \union {None}]
    /\ phase \in [Consumers -> Phases]
    /\ acked \subseteq Messages /\ dropped \subseteq Messages
    /\ sent \subseteq Messages /\ unrouted \subseteq Messages /\ done \subseteq Messages
    /\ perished \subseteq Messages
    /\ tries \in [Messages -> Nat] /\ disruptions \in Nat
    /\ \A c \in Consumers : Cardinality(unacked[c]) <= Prefetch

\* A message is handed out to one consumer at a time and settled once; what has
\* perished is never handed out or settled after all.
OnePlace ==
    /\ \A c, d \in Consumers : c /= d => unacked[c] \intersect unacked[d] = {}
    /\ ready \intersect InFlight = {}
    /\ acked \intersect dropped = {}
    /\ (acked \union dropped) \intersect (ready \union InFlight) = {}
    /\ perished \intersect (ready \union InFlight \union acked \union dropped) = {}

\* No message gets lost on the way through lost connections and dead consumers:
\* what was published is waiting, handed out, acknowledged or dropped by a failed
\* handler, unless nobody had subscribed when it was sent, or it perished, for which
\* the broker or the publisher's connection must have failed.
NothingVanishes ==
    /\ sent = ready \union InFlight \union acked \union dropped \union unrouted \union perished
    /\ disruptions = 0 => perished = {}

\* What is acknowledged has been worked on, through lost connections and restarts.
AckedWasDone == acked \subseteq done

\* A handler sees a message again only because of a lost connection or a restart.
RepeatsNeedDisruption == \A m \in Messages : tries[m] <= 1 + disruptions

\* Liveness: every routed message is acknowledged or dropped at last, unless it
\* perished with the broker or the loop of every consumer has returned.
EveryMessageSettles ==
    \A m \in Messages :
        m \in ready ~> (\/ m \in acked \union dropped \union perished
                        \/ \A c \in Consumers : phase[c] = "stopped")
=============================================================================
