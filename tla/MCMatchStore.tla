----------------------------- MODULE MCMatchStore -----------------------------
(* The instance of MatchStore for TLC.                                       *)
EXTENDS MatchStore, TLC

CONSTANTS k, q, h1

\* Three jobs, a limit of two.  Version 0: no job exists.  Version 1 ranks 1
\* before 2; version 2 ranks 3 before 1 (a tie broken by the id leaves 2 out)
\* and scores 1 differently, so runs of different versions take the locks of
\* 1 and 3 in different orders and overlap in one row.
ScoreTable ==
    0 :> <<>> @@ 1 :> (1 :> 5 @@ 2 :> 3 @@ 3 :> 0) @@ 2 :> (1 :> 4 @@ 2 :> 4 @@ 3 :> 6)
===============================================================================
