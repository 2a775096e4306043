CONSTANTS
  a1 = a1  a2 = a2
  None = None
  Agent <- Both
  File = {f1}
  Events = {"close", "reopen", "user", "stale", "iofail"}
  MaxContent = 3
  MaxGen <- Gens
  Page = {p1}
  Retries = 1
  MAX_STEPS = 2
  MaxTexts = 1
  MaxCalls = 2
  StreamTurns = 1
  Tab = {b1}
  Project = {j1, j2}
  Launchpad = L
  MaxSessions = 3
  Free = Free
  Directory = {r1, r2}
  Home = r1
  Model = {m1, m2}
  Launch = m1
  ReplTurns = 2
SPECIFICATION AllSpec
INVARIANTS TypesOK TurnIsUndoable SaidOnceAndShown ConversationIsSaved NoServerIsLeft DrawerIsTrue
PROPERTIES RevertsAreExact
CHECK_DEADLOCK FALSE
