\* Is the status of every answered request the one the recorder holds?
SPECIFICATION WebhookSpec
CONSTANTS
  Requests = {r1}
  Pairs = {"p1"}
  Endpoints = {"trigger", "logs", "health", "readyz", "metrics", "llm"}
  Metrics = TRUE
  Images = TRUE
  Hook = TRUE
INVARIANTS
  StatusCaptured
CHECK_DEADLOCK FALSE
