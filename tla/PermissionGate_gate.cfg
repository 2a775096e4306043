CONSTANTS
  Agent = {a1, a2}
  Client = {c1}
  Action <- Kinds
  GrantSets <- PushGrants
  Modes = {"ask", "agent", "plan"}
  MaxAsked = 1
  None = None
SYMMETRY Symmetry
SPECIFICATION Spec
INVARIANTS HighNeedsConsent 
PROPERTIES TaintedOutwardAsks
CHECK_DEADLOCK FALSE
