CONSTANTS
  Page = {p1}
  Retries = 1
  MAX_STEPS = 2
  MaxTexts = 1
  MaxCalls = 2
  MaxTurns = 1
SPECIFICATION Spec
INVARIANTS ArgumentsAreWhole
CHECK_DEADLOCK FALSE
