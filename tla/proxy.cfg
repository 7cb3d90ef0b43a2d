\* Two runs, two registrations, two requests.
SPECIFICATION ProxySpec
CONSTANTS
  Prefix <- MountPath
  Runs = {run1, run2}
  Bases <- BaseURLs
  DefaultBase <- OpenRouter
  NoBase = NoBase
  BadBase = BadBase
  Keys = {key1}
  NoKey = NoKey
  Requests = {r1, r2}
  MaxTokens = 2
INVARIANTS
  SentWhereIssued
  DeadTokenRefused
  StoredTokensAccounted
  WorkerServed
SYMMETRY Symmetry
CHECK_DEADLOCK FALSE
