SPECIFICATION Spec
CONSTANTS
  w1 = w1
  w2 = w2
  w3 = w3
  Worker = {w1, w2, w3}
  MaxInteractions = 2
  MaxFaults = 0
  EarlyClicks = TRUE
  PromptFinish = TRUE
INVARIANT
  DecidedByItsTeam
CHECK_DEADLOCK FALSE
