SPECIFICATION FairSpec
CONSTANTS
  Processes = {i1, i2}
  Calls = {c1, c2}
  Zaps = {z1}
  Hashes = {h1, h2}
  Reconcilers = {r1, r2}
  Receipts = {x1, x2}
  None = None
  MaxExpiries = 1
  MaxCrashes = 1
CHECK_DEADLOCK FALSE
INVARIANTS
  TypeOK
  AnswersAreStored
  ReceiptsAreTrue
PROPERTIES
  ZapsEnd
