SPECIFICATION FairSpec
CONSTANTS
  Clients = {k1}
  MaxFrames = 2
  Newest = 2
  VersionOf <- OneVersion
  Mismatched = {2}
  MaxRuns = 2
CHECK_DEADLOCK FALSE
INVARIANTS
  DeploymentTypeOK
  FramesArriveOrAreAnswered
  StartedIsRestorable
PROPERTIES
  RestartsServe
