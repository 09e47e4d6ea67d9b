SPECIFICATION FairSpec
CONSTANTS
  r1 = r1
  r2 = r2
  r3 = r3
  h1 = h1
  h2 = h2
  Request = {r1, r2, r3}
  Hash = {h1, h2}
  MaxFaults = 3
  MaxHandOffs = 1
INVARIANTS
  NeverDoubled
  ResultIsTheHolders
  RightBody
PROPERTIES
  KeyIsFenced
  ResultStands
  NeverStuck
CHECK_DEADLOCK FALSE
