\* The bridges of both backends, two workers with two secrets.
SPECIFICATION BridgeHubSpec
CONSTANTS
  Sessions = {s1, s2}
  Workers = {s1, s2}
  Secrets = {x, y}
  Configs <- BackendConfigs
  Heard = {"user_input", "awaiting_human", "error", "extra"}
  SubBufSize = 2
  MaxEvents = 6
  MaxSubscribe = 2
SYMMETRY Symmetries
INVARIANTS
  ContentIsMasked
  SinksAgree
  OwnLinesOnly
  FlagFollowsLog
  IndicatorCurrent
CHECK_DEADLOCK FALSE
