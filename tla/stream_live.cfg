\* One connection with any filter, a client that does not stall for ever.
SPECIFICATION ResponsiveStreamSpec
CONSTANTS
  Keys = {k1}
  All = All
  Keyed = TRUE
  SubBufSize = 1
  Overlap = TRUE
  MaxPublish = 2
  MaxSubscribe = 2
  Asked = {k1, All}
  Conns = {c1}
PROPERTIES
  DrainCompletes
  HangupReleases
  QueuedGetsOut
CHECK_DEADLOCK FALSE
