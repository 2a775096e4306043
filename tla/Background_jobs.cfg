CONSTANTS
  Workspaces <- Some
  Target = 90
  Caps = {0, 3}
  StallLimit = 2
  MinScoreDelta = 5
  MaxTokens = 5
  Costs = {0, 2}
  SkipTester = TRUE
  Specialists = 2
  DeveloperCount = 0
  Plans <- SomePlans
  Critiques <- SomeCritiques
  MaxCounted = 3
  gui = gui  cli = cli  g1 = g1  g2 = g2  c1 = c1
  Proc = {gui, cli}
  Saver <- Threads
  ProcOf <- ThreadsOf
  MaxId = 2
  MaxSaves = 2
  None = None
  Agent = {a1}
  Server = {s1}
  Page = {p1, p2}
  Nobody = Nobody
  MaxChanges = 1
  Updater = {u1, u2}
  ViaPage = {u2}
  MaxVersions = 2
SPECIFICATION FairAll
INVARIANTS TypesOK SwarmIsAccounted
PROPERTIES SwarmAlwaysEnds ImplementsArchive SavesEnd   
CHECK_DEADLOCK FALSE
