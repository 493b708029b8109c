SPECIFICATION Spec
CONSTANTS
  e1 = e1
  e2 = e2
  e3 = e3
  Confessions = {e1, e2}
  TextOf <- MCTextsDiffer
  Creators = {c1}
  Runners = {r1, r2}
  DailyLimit = 2
  MaxAttempts = 2
  Lossy = {}
  MaxTweets = 2
  MaxCrashes = 0
CHECK_DEADLOCK FALSE
PROPERTIES
  StoredPostIsReused
