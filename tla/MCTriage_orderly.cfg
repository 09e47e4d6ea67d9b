SPECIFICATION FairSpec
CONSTANTS
  w1 = w1
  w2 = w2
  Worker = {w1, w2}
  MaxInteractions = 3
  MaxFaults = 1
  EarlyClicks = FALSE
  PromptFinish = TRUE
INVARIANTS
  DecidedByItsTeam
  NotifyExclusive
  AwaitingIsCarded
  CurrentCardIsLive
PROPERTIES
  CardEventually
CHECK_DEADLOCK FALSE
