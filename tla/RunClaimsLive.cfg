SPECIFICATION FairSpec
CONSTANTS
  w1 = w1
  w2 = w2
  w3 = w3
  NoWorker = NoWorker
  NoRun = NoRun
  Workers <- OneWorker
  Runs <- TwoRuns
  Serves <- SameBackend
  MaxFaults = 2
PROPERTIES
  NoRunIsStuck
