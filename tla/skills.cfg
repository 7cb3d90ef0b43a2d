\* Three callers, two refs, any number of calls and restarts.
SPECIFICATION FairSkillsSpec
CONSTANTS
  Callers = {c1, c2, c3}
  Refs = {v1, v2}
  NoRef = NoRef
INVARIANTS
  SkillsTypeOK
  CheckoutStable
  CloneStartsClean
PROPERTIES
  CallsReturn
