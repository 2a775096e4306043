CONSTANTS
  None = None
  Proc = {p1, p2}
  Executing = {p1, p2}
  Crashable = {p1}
  Reporting = {p2}
  Cmd = {c1, c2}
  Thread = {t1, t2}
  Workspace = {w1, w2}
  MaxSaves = 1
  Bare = Bare
  Client = {l1}
  MaxProxies = 3
  Rememberer = {r1, r2}
  RemoteNote = {n1, n2}
  Note = {n1, n2, n3}
  Handwritten = {n1}
  Restates = {{n1, n2}}
  MaxShown = 2
  MaxRecords = 3
  Caller = {q1, q2}
  Starter = s
  MaxRequests = 5
  CLI = {k1}
  Provider = {v1, v2}
  Builtin = {v1}
  Daemon = Daemon
  MaxChanges = 3
  Nobody = Nobody
  Signer = {g1}
  Loader = {g2}
  MaxGrants = 2
  Opener = {o1, o2}
  Repo = {d1, d2}
  Work = {x1, x2, x3}
  Unborn = Unborn
SPECIFICATION AllSpec
INVARIANTS TypesOK   RequestsAreAnswered SettingsFitTogether NeverAnotherRepository
PROPERTIES   SurveyedWorkIsKept
CHECK_DEADLOCK FALSE
