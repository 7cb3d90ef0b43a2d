\* Three requests over two scopes and one id, or none, a restart, with and without the lock.
SPECIFICATION DedupSpec
CONSTANTS
  Requests = {r1, r2, r3}
  Scopes = {s1, s2}
  IDs = {m1}
  NoID = NoID
  TTL = 1
  Capacity = 1
  MaxTime = 3
  MaxRestarts = 1
SYMMETRY RequestSymmetry
INVARIANTS
  DedupWellFormed
  AckedWasDelivered
  DeliveredOnce
CHECK_DEADLOCK FALSE
