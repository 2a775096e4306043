CONSTANTS
  Root = {r1, r2}
  Home = r1
  Model = {m1, m2}
  Launch = m1
  MaxTurns = 2
SPECIFICATION Spec
INVARIANTS CommitsAreKept
CHECK_DEADLOCK FALSE
