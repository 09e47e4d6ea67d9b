SPECIFICATION FairSpec
CONSTANTS
  p1 = p1
  p2 = p2
  Bill = {1, 2}
  Poll = {p1, p2}
  PageSize = 1
  MaxPages = 3
  Overlap = 1
  Strict = TRUE
  EditsInSteps = FALSE
  Together = 2
  MaxBacklogTime = 2
  MaxTime = 3
  Unsound = {2}
  MaxFaults = 1
INVARIANTS
  NoBillSkipped
PROPERTIES
  EveryBillGetsARun
CHECK_DEADLOCK FALSE
