\* Two requests, one genuine pair, either order of the middlewares, with and without a token.
SPECIFICATION FairWebhookSpec
CONSTANTS
  Requests = {r1, r2}
  Pairs = {"p1"}
  Endpoints = {"trigger", "logs", "health", "readyz", "metrics", "llm"}
  Metrics = TRUE
  Images = TRUE
  Hook = TRUE
INVARIANTS
  CountedAsAnswered
  DrainSticks
  PairsAuthorise
  HealthAnswers
PROPERTIES
  ShutdownCompletes
CHECK_DEADLOCK FALSE
