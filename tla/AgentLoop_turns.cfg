CONSTANTS
  MaxSteps = 3
  MaxContext = 5
  KeepRecent = 1
  Light = "works"
  Interrupts = {"model", "first tool"}
  MaxCalls = 2
  MaxTurns = 3
SPECIFICATION FairSpec
INVARIANTS TypeOK HistoriesAreValid CompactionIsExact
PROPERTIES TurnEnds
CHECK_DEADLOCK FALSE
