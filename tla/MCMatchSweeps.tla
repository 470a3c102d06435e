----------------------------- MODULE MCMatchSweeps -----------------------------
(* The instance of MatchSweeps for TLC.                                        *)
EXTENDS MatchSweeps

CONSTANTS x1, x2, t1, t2, h1, h2, none
=============================================================================
