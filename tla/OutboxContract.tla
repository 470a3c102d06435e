--------------------------- MODULE OutboxContract ---------------------------
(* What the outbox promises to the services that insert into it, without    *)
(* batches, locks, transactions or relays: an accepted event is handed to   *)
(* its topic zero or more times, and is sooner or later settled, once: as   *)
(* delivered, which for an event with a topic needs a copy in the topic, or *)
(* as given up.                                                             *)
CONSTANTS
    Ids,       \* the events
    Streamed   \* those whose type has a Kafka topic, a subset of Ids

VARIABLES
    state,     \* state[id]: "absent", "accepted", "delivered" or "given_up"
    handed     \* the events with a copy in their topic

Init == /\ state  = [id \in Ids |-> "absent"]
        /\ handed = {}

Accept(id) == /\ state[id] = "absent"
              /\ state' = [state EXCEPT ![id] = "accepted"]
              /\ UNCHANGED handed

\* A copy may still arrive after the event is settled: a relay that lost its
\* transaction finishes the record it is at.
HandOver(id) == /\ id \in Streamed
                /\ state[id] /= "absent"
                /\ handed' = handed \union {id}
                /\ UNCHANGED state

\* A batch settles together.
Settle(D, G) ==
    /\ \A id \in D \union G : state[id] = "accepted"
    /\ D \intersect G = {}
    /\ D \intersect Streamed \subseteq handed
    /\ state' = [id \in Ids |-> CASE id \in D -> "delivered"
                                  [] id \in G -> "given_up"
                                  [] OTHER    -> state[id]]
    /\ UNCHANGED handed

Next == \/ \E id \in Ids : Accept(id) \/ HandOver(id)
        \/ \E D, G \in SUBSET Ids : Settle(D, G)

Safety == Init /\ [][Next]_<<state, handed>>

\* Every accepted event is settled.
Progress == \A id \in Ids :
    state[id] = "accepted" ~> state[id] \in {"delivered", "given_up"}

Spec == Safety /\ Progress
=============================================================================
