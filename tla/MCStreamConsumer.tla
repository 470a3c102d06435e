--------------------------- MODULE MCStreamConsumer ---------------------------
(* The instance of StreamConsumer for TLC.                                   *)
EXTENDS StreamConsumer

CONSTANTS e1, e2, c1, c2
=============================================================================
