---------------------------- MODULE MCJobIngestion ----------------------------
(* The instance of JobIngestion for TLC.                                     *)
EXTENDS JobIngestion

CONSTANTS s1, s2
=============================================================================
