\* Three requests over three pairs, room for two, a configured TTL below the floor.
SPECIFICATION ReplaySpec
CONSTANTS
  Requests = {r1, r2, r3}
  MaxStamp = 3
  Pairs <- StampedPairs
  Skew = 2
  MaxFutureSkew = 1
  ConfigTTL = 1
  Capacity = 2
  MaxTime = 8
  MaxBehind = 1
SYMMETRY RequestSymmetry
INVARIANTS
  ReplayWellFormed
  HandledOnce
CHECK_DEADLOCK FALSE
