SPECIFICATION FairSpec
CONSTANTS
  e1 = e1
  e2 = e2
  e3 = e3
  Confessions = {e1, e2, e3}
  TextOf <- MCTextOf
  Creators = {c1, c2}
  Runners = {r1, r2}
  DailyLimit = 2
  MaxAttempts = 2
  Lossy = {"tweet", "reply"}
  MaxTweets = 2
  MaxCrashes = 1
CHECK_DEADLOCK FALSE
INVARIANTS
  TypeOK
  CapHolds
  MirrorsAreHonest
PROPERTIES
  NothingLost
  MirrorSettles
