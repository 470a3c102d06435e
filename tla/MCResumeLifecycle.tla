--------------------------- MODULE MCResumeLifecycle ---------------------------
(* The instance of ResumeLifecycle for TLC.                                   *)
EXTENDS ResumeLifecycle

CONSTANTS q1
=============================================================================
