SPECIFICATION TasksSpec
CONSTANTS
  Runs = {r1, r2}
  NoRun = NoRun
  Causes = {c1, c2}
  NoCause = NoCause
  Slots = 1
  MaxFails = 3
  Repos = {1, 2}
  SeedRepos = {1}
  SeedBackend = "mlx"
  Backends = {"mlx", "cuda"}
  Jobs = {j1, j2}
  MaxFaults = 1
INVARIANTS
  TasksTypeOK
  RowsAreRight
PROPERTIES
  TasksEnd
CHECK_DEADLOCK FALSE
