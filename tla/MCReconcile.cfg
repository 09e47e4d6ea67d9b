SPECIFICATION FairSpec
CONSTANTS
  r1 = r1
  r2 = r2
  q1 = q1
  q2 = q2
  Run = {r1, r2}
  Request = {q1, q2}
  InvoiceOf <- Two
  InvoiceKey = {1, 3}
  BusinessKey = {2}
  MaxFaults = 2
INVARIANTS
  DuplicateIsFlagged
  NoCircularWait
PROPERTIES
  DecidesOneByOne
  EveryRunIsDecided
CHECK_DEADLOCK FALSE
