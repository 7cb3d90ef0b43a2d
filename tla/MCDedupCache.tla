---------------------------- MODULE MCDedupCache ----------------------------
\* Instances of the dedup cache for TLC.
EXTENDS DedupCache, TLC

RequestSymmetry == Permutations(Requests)
=============================================================================
