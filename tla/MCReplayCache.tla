---------------------------- MODULE MCReplayCache ----------------------------
\* Instances of the replay cache for TLC.
EXTENDS ReplayCache, TLC

CONSTANT MaxStamp

\* One genuine request per timestamp.
StampedPairs == {[ts |-> t] : t \in 1..MaxStamp}

RequestSymmetry == Permutations(Requests)
=============================================================================
