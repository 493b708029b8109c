SPECIFICATION ContentsSpec
CONSTANTS
  Events = {1, 2, 3}
  Shapes <- MCShapes
  Actions <- MCActions
  Depths = {0, 1, 2}
  MaxChanges = 1
  MaxAge = 1
  MaxRefreshes = 2
CHECK_DEADLOCK FALSE
INVARIANTS
  ContentsTypeOK
PROPERTIES
  PostsAreBacked
  FeedIsComplete
