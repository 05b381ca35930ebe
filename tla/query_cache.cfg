SPECIFICATION Spec
CONSTANTS
  Starts <- Everywhere
  Visits <- VisitedPages
INVARIANTS
  
  PageInv
PROPERTIES
  NoOldAnswer
  PolledShown
CHECK_DEADLOCK FALSE
