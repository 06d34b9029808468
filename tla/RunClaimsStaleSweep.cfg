SPECIFICATION FairSpec
CONSTANTS
  w1 = w1
  w2 = w2
  w3 = w3
  NoWorker = NoWorker
  NoRun = NoRun
  Workers <- TwoWorkers
  Runs <- OneRun
  Serves <- SameBackend
  MaxFaults = 1
PROPERTY FreshClaimStands
