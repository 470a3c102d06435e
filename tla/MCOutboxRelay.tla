---------------------------- MODULE MCOutboxRelay ----------------------------
(* Instances of OutboxRelay for TLC.                                        *)
EXTENDS OutboxRelay, TLC

CONSTANTS e1, e2, r1, r2

\* One event whose type has a topic, one that only the mirror can carry.
MixedTypes == (e1 :> "job_scraped") @@ (e2 :> "resume_uploaded")

\* The relays are alike.
RelaySymmetry == Permutations({r1, r2})
=============================================================================
