----------------------------- MODULE MCBridgeHub -----------------------------
\* Instances of the bridge and its hub for TLC.
EXTENDS BridgeHub, TLC

Agent == [surfaceAwaitingHuman |-> TRUE, surfaceRunState |-> FALSE, mapExtra |-> FALSE]
Chat == [surfaceAwaitingHuman |-> FALSE, surfaceRunState |-> TRUE, mapExtra |-> TRUE]
BackendConfigs == {Agent, Chat}

Symmetries == Permutations(Sessions) \cup Permutations(Secrets)
=============================================================================
