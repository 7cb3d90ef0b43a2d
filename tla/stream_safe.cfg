\* Two connections, one key, a buffer of one.
SPECIFICATION StreamSpec
CONSTANTS
  Keys = {k1}
  All = All
  Keyed = TRUE
  SubBufSize = 1
  Overlap = TRUE
  MaxPublish = 2
  MaxSubscribe = 2
  Asked = {k1}
  Conns = {c1, c2}
SYMMETRY ConnSymmetry
INVARIANTS
  SubscriptionsAreHandlers
  ConnectedMeansLive
  WireInOrder
CHECK_DEADLOCK FALSE
