SPECIFICATION ExportsSpec
CONSTANTS
  Exports = {1, 2}
  Quants = {"Q4_K_M"}
  NoExport = NoExport
  MaxFaults = 1
  Workers = {w1, w2}
  MaxSyncs = 2
  MaxSyncFaults = 1
  BatchSizes = {0, 4, 8}
  Values = {1, 2}
  NotANumber = 9
  None = 0
  Iters = 2
  MaxPrinted = 2
  MaxLost = 1
  Interval = 2
  Timeout = 1
  StaleAfter = 6
  Calls = {t1, t2}
  MaxClicks = 2
INVARIANTS
  ExportsTypeOK
  RecordedIsOnDisk
  CompletedIsBuilt
  StuckOnlyAfterFault
  TrainingArrives
  WorkersAreShown
  ToolCallsAreTrue
PROPERTIES
  VerdictStands
CHECK_DEADLOCK FALSE
