-------------------------- MODULE MCFeatureAggregator --------------------------
(* The instance of FeatureAggregator for TLC.                                  *)
EXTENDS FeatureAggregator, TLC

CONSTANTS i1, i2, i3, c1, c2

AggregatorSymmetry == Permutations(Ids) \union Permutations(Members)
=============================================================================
