SPECIFICATION FairSpec
CONSTANTS
  Publications = {c1, c2}
  Relays = {r1, r2}
  Events = {e1}
  MaxTasks = 1
  MaxQueue = 1
  PerEnvelope = 1
  CounterLimit = 1
  MaxCrashes = 1
CHECK_DEADLOCK FALSE
INVARIANTS
  PostsTypeOK
  PostsAreHonest
  EvidenceAddsUp
  SamplesAreConserved
PROPERTIES
  CallsAreAnswered
