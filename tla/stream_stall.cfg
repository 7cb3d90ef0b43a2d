\* One connection, a client that may stall for ever.
SPECIFICATION FairStreamSpec
CONSTANTS
  Keys = {k1}
  All = All
  Keyed = TRUE
  SubBufSize = 1
  Overlap = TRUE
  MaxPublish = 2
  MaxSubscribe = 2
  Asked = {k1, All}
  Conns = {c1}
PROPERTIES
  DrainCompletes
CHECK_DEADLOCK FALSE
