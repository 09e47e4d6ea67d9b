SPECIFICATION Spec
CONSTANTS
  w1 = w1
  w2 = w2
  Worker = {w1, w2}
  MaxInteractions = 3
  MaxFaults = 1
  EarlyClicks = TRUE
  PromptFinish = FALSE
SYMMETRY Workers
INVARIANTS
  OneFinalDecision
PROPERTIES
  ImplementsCase
CHECK_DEADLOCK FALSE
