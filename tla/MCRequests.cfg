SPECIFICATION NamedSpec
CONSTANTS
  a1 = a1
  a2 = a2
  f1 = f1
  Run = {r1, r2}
  Alert = {a1, a2}
  Failure = {f1, f2}
  Size = 2
  MaxTries <- OneRetry
INVARIANTS
  ClaimIsReleased
  AlertIsHeard
PROPERTIES
  SuppressedIsHeard
  EveryRequestEnds
