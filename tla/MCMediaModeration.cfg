SPECIFICATION FairSpec
CONSTANTS
  Urls = {u1, u2}
  Videos = {}
  ImageSlots = {i1}
  VideoSlots = {}
  Callers = {c1, c2}
  MaxRestarts = 1
  MaxFailures = 1
CHECK_DEADLOCK FALSE
INVARIANTS
  TypeOK
  QueueIsSound
PROPERTIES
  JobsLeaveWithVerdict
  JobsGetDone
