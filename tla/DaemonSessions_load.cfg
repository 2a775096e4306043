CONSTANTS
  Handler = {h1, h2}
  Object = {a1, a2, a3, a4}
  Project = {p1, p2}
  Requests = {"message", "close"}
  MaxId = 3
  None = None
SYMMETRY Symmetry
SPECIFICATION Spec
INVARIANTS OneWriterPerSession
CHECK_DEADLOCK FALSE
