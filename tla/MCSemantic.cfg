SPECIFICATION FairSpec
CONSTANTS
  e1 = e1
  e2 = e2
  e3 = e3
  Exec = {e1, e2, e3}
  MaxSent = 2
  MaxFaults = 4
INVARIANTS
  NeverWaitsForNobody
  CardIsFinal
PROPERTIES
  ReviewReachesAPerson
CHECK_DEADLOCK FALSE
