SPECIFICATION FairSpec
CONSTANTS
  Caller = {c1, c2}
  MaxAttempts = 3
  BackoffBase = 1
  BackoffMax = 1
  WorkerMaxSleep = 2
  RetryAfter = {0, 1, 2, 5}
  Horizon = 2
  Margin = 3
  Lifetime = {3, 5}
  FetchTime = 1
  SendTime = 1
INVARIANTS
  RetryAfterIsHonoured
  WorkIsReleased
  TokenOutlivesRequest
  TokenIsReplaced
PROPERTY
  EveryCallEnds
CHECK_DEADLOCK FALSE
