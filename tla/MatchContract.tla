---------------------------- MODULE MatchContract ----------------------------
(* What the matcher promises to those who read the matches of a resume,      *)
(* without workers, transactions, locks or failures: the table changes only  *)
(* as a whole, when a ranking is published in it, and what is announced was  *)
(* published before.  As long as runs take turns, a ranking leaves nothing   *)
(* of its predecessors and is never an older one; when runs do not, rows of  *)
(* other rankings may stay beside it.                                        *)
EXTENDS Naturals

CONSTANTS
    Jobs,
    Versions,   \* versions of what a ranking is computed from, numbers from 0
    Scores      \* Scores[v][j]: the score of j in the ranking of v, 0 outside

VARIABLES
    table,      \* table[j]: the score a reader finds for j, 0 without a row
    latest,     \* the version whose ranking was published last
    published,  \* the versions whose ranking was published
    announced,  \* the versions whose ranking was announced
    turns       \* whether all runs so far have taken turns

Init == /\ table = [j \in Jobs |-> 0]
        /\ latest = 0
        /\ published = {}
        /\ announced = {}
        /\ turns = TRUE

\* All rows of the ranking at once; of the other rows some may be kept.
Replace(v) ==
    /\ turns => v >= latest
    /\ \E kept \in SUBSET Jobs :
          /\ turns => kept = {}
          /\ table' = [j \in Jobs |-> IF Scores[v][j] > 0 THEN Scores[v][j]
                                      ELSE IF j \in kept THEN table[j] ELSE 0]
    /\ latest' = v
    /\ published' = published \union {v}
    /\ UNCHANGED <<announced, turns>>

Announce(v) == /\ v \in published
               /\ announced' = announced \union {v}
               /\ UNCHANGED <<table, latest, published, turns>>

\* A run is started that does not wait for its turn.
Overlap == /\ ~turns'
           /\ UNCHANGED <<table, latest, published, announced>>

Next == Overlap \/ \E v \in Versions : Replace(v) \/ Announce(v)

Spec == Init /\ [][Next]_<<table, latest, published, announced, turns>>
==============================================================================
