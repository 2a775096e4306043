CONSTANTS
  MaxSteps = 2
  MaxContext = 9
  KeepRecent = 1
  Light = "none"
  Interrupts = {"model", "first tool", "later tool"}
  MaxCalls = 2
  MaxTurns = 2
SPECIFICATION Spec
INVARIANTS RequestIsValid
CHECK_DEADLOCK FALSE
