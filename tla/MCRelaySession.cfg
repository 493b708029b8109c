SPECIFICATION FairSpec
CONSTANTS
  Relays = {r1, r2}
  Configured = {r1}
  Queries = {q1, q2}
  Stored = 1
CHECK_DEADLOCK FALSE
INVARIANTS
  SessionTypeOK
  CompletionIsTruthful
PROPERTIES
  CallsReturn
