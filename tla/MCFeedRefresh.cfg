SPECIFICATION FairSpec
CONSTANTS
  Requests = {h1}
  Intervals = {i1}
  Moderators = {m1}
  MaxRestarts = 1
CHECK_DEADLOCK FALSE
INVARIANTS
  TypeOK
  AbortsAreContained
PROPERTIES
  AbortedIsNotServed
  RefreshesEnd
