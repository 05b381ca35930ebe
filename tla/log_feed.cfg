SPECIFICATION Spec
CONSTANTS
  Feeds <- AllFeeds
  PerPage = 2
  MaxLogs = 5
  Ties = 2
  Failures = 1
INVARIANTS
  FeedInv
  
  ContextHasLine
PROPERTIES
  NewestShown
CHECK_DEADLOCK FALSE
