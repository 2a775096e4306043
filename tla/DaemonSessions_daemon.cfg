CONSTANTS
  Handler = {h1}
  Object = {a1, a2, a3}
  Project = {p1, p2}
  Requests = {"message", "open", "close", "new", "move", "swarm", "reload"}
  MaxId = 3
  None = None
SYMMETRY Symmetry
SPECIFICATION Spec
INVARIANTS OneWriterPerSession FinishOnlyWhenIdle CloseOwnsItsSession NoCloseIsLost
 
CHECK_DEADLOCK FALSE
