SPECIFICATION Spec
CONSTANTS
  w1 = w1
  w2 = w2
  w3 = w3
  NoWorker = NoWorker
  NoRun = NoRun
  Workers <- ThreeWorkers
  Runs <- OneRun
  Serves <- SameBackend
  MaxFaults = 2
SYMMETRY WorkerSymmetry
INVARIANTS
  TypeOK
  OverlapOnlyAfterSweep
  CompletedWasTrained
  JobIsOwned
PROPERTY ImplementsQueue
