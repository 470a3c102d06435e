------------------------------- MODULE Events -------------------------------
(* The event names, the Kafka topics and the outbox states every service     *)
(* shares (src/shared/events/events.go).  A name is an uninterpreted string: *)
(* only its identity matters.                                                *)

\* The event types written to the outbox or published directly.
OutboxEventTypes == {"resume_uploaded", "resume_parsed", "job_scraped",
                     "job_indexed", "job_matches_generated",
                     "user_interaction", "user_features_updated"}

\* The topic that carries each event type; the types missing from this table
\* (resume_uploaded, outbox_failed) have none and travel over RabbitMQ only.
TopicTable == [job_scraped           |-> "jobs.scraped.v1",
               job_indexed           |-> "jobs.processed.v1",
               resume_parsed         |-> "resume.parsed.v1",
               job_matches_generated |-> "matches.generated.v1",
               user_interaction      |-> "user.interaction.v1",
               user_features_updated |-> "user.features.updated.v1"]

TopicForEventType(t) == IF t \in DOMAIN TopicTable THEN TopicTable[t] ELSE ""

\* outbox.status: the two states a relay may pick up, and the two it leaves.
Retriable == {"pending", "failed"}
Settled   == {"published", "dead_letter"}
=============================================================================
