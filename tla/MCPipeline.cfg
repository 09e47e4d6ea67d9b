SPECIFICATION FairSpec
CONSTANTS
  Run = {r1, r2}
  Execution = {e1, e2}
  Limit = 1
  MaxFaults = 3
INVARIANTS
  StrandedIsHeard
PROPERTIES
  NeverBack
  NoCaseStarves
  EveryRunIsReconciled
