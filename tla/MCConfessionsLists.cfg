SPECIFICATION Spec
CONSTANTS
  e1 = e1
  e2 = e2
  e3 = e3
  Confessions = {e1, e2}
  TextOf <- MCTextsDiffer
  Creators = {c1}
  Runners = {r1, r2}
  DailyLimit = 2
  MaxAttempts = 2
  Lossy = {"tweet", "reply"}
  MaxTweets = 2
  MaxCrashes = 0
SYMMETRY Symmetry
CHECK_DEADLOCK FALSE
PROPERTIES
  SettledIsLeftAlone
