SPECIFICATION FairSpec
CONSTANTS
  e1 = e1
  e2 = e2
  Exec = {e1, e2}
  MaxSent = 2
  MaxFaults = 1
PROPERTY
  CaseReachesAPerson
CHECK_DEADLOCK FALSE
