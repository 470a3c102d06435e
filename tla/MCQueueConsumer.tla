---------------------------- MODULE MCQueueConsumer ----------------------------
(* The instance of QueueConsumer for TLC.                                     *)
EXTENDS QueueConsumer

CONSTANTS m1, m2, m3, none, c1, c2
=============================================================================
