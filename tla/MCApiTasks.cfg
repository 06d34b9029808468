SPECIFICATION ApiSpec
CONSTANTS
  Procs = {p1, p2}
  Fingerprints = {f1}
  NoProc = NoProc
  Cap = 1
  MaxErrors = 3
  MaxFaults = 1
  Api = api
  ReportWorkers = {w1}
  QueueCap = 2
  Threshold = 2
  Window = 1
  MaxReports = 4
  MaxTicks = 3
  MaxUpsets = 1
  Ids = {1, 2}
  Polls = {1}
  StoreCap = 1
  MaxMetrics = 3
  MaxLines = 3
  LineCap = 2
  MaxTrainings = 2
  Calls = {q1, q2, q3}
  Skills = {k1, k2}
  Proposals = {q3}
  MaxAttempts = 2
  MaxEdits = 1
  MaxRefused = 1
  Requests = {a1, a2}
  MaxRuns = 2
  MaxMoves = 1
  Allowed = {"admin", "data_engineer"}
  TTL = 2
  MaxKeys = 3
  MaxOutages = 1
INVARIANTS
  ApiTypeOK
  WorkspaceSettled
  RepairIsGated
  ErrorsAreReported
  StoreInStep
  DoneIsLast
  SkillCallsAreTrue
  AccessIsCurrent
SYMMETRY Alike
CHECK_DEADLOCK FALSE
