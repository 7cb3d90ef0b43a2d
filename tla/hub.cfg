\* Two keys, consumers of a key one at a time, a buffer of two.
SPECIFICATION HubSpec
CONSTANTS
  Keys = {k1, k2}
  All = All
  Watched = k1
  Keyed = TRUE
  SubBufSize = 2
  Overlap = FALSE
  MaxPublish = 3
  MaxSubscribe = 2
INVARIANTS
  HubTypeOK
  LiveRoom
  BacklogOnlyWhenDetached
  QueuesInOrder
  QueuesBounded
PROPERTIES
  LossesObservedOnce
  HubImplementsFeed
CHECK_DEADLOCK FALSE
