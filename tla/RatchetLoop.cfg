SPECIFICATION Spec
CONSTANTS
  MaxRounds = 3
  Patience = 2
  MinDelta = 2
  MaxProposalFailures = 2
  Losses = {0, 1, 3}
  NoLoss = NoLoss
  NoRun = NoRun
  MaxFaults = 1
INVARIANTS
  TypeOK
  RowMatchesRuns
PROPERTIES
  RatchetNeverSlips
  LoopReturns
CHECK_DEADLOCK FALSE
