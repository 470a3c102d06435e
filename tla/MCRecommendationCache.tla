------------------------- MODULE MCRecommendationCache -------------------------
(* The instance of RecommendationCache for TLC, with the pure functions of      *)
(* Ranking beside it: they are called on each of their inputs while the cache   *)
(* is as it starts, and the cache runs while none of them is called.            *)
EXTENDS RecommendationCache, Ranking, TLC

CONSTANTS p1, r1, r2

MCInit == CacheInit /\ input = NoInput

MCNext ==
    \/ CacheNext /\ input = NoInput /\ UNCHANGED input
    \/ CacheInit /\ (Call \/ Answer) /\ UNCHANGED cacheVars

MCSpec == MCInit /\ [][MCNext]_<<cacheVars, input>>

\* 3 is another spelling of 2, and 5 is blank.
MCLower == [w \in Words |-> CASE w = 3 -> 2 [] w = 5 -> 0 [] OTHER -> w]

ReaderSymmetry == Permutations(Readers)
=============================================================================
