SPECIFICATION DatasetsSpec
CONSTANTS
  j1 = j1
  j2 = j2
  u1 = u1
  u2 = u2
  Jobs <- TwoJobs
  Uploads <- TwoUploads
  Nobody = Nobody
  MinRecords = 5
  MinValid = 4
  MinCanary = 1
  MaxRecords = 7
  MaxFaults = 2
  MaxSymbols = 5
  ChunkSizes = {1, 2, 3}
  Columns <- ThreeColumns
  OtherDelimiters <- OneOther
  OtherTables <- SomeTables
  Rows <- SomeRows
  Mismatch = Mismatch
  Width <- SomeWidth
  Hints <- SomeHints
  HermesAnswers <- SomeAnswers
  Unusable = {"list"}
  MinWidth = 3
  MaxRows = 4
  BufferMax = 3
  SampleSize = 2
  MaxTotal = 16
  Requested <- SomeRequested
  MaxFinalizes = 2
  Answered = {1, 2, 3, 4}
  Malformed = {4}
  Seeds = {1}
  Target = 2
  BatchSize = 1
  MaxBatches = 3
  MaxAnswer = 2
  MaxItems = 2
  SniffLines = 1
  DirectMin = 2
  MaxChunks = 1
  MaxRequests = 2
  Owners <- ThreeOwners
  Administrators <- OneAdmin
  MaxVersions = 3
INVARIANTS
  DatasetsTypeOK
  UploadIsSafe
  RecordsAreSound
  DatasetIsFound
PROPERTIES
  DatasetHasOneAuthor
  JobEnds
CHECK_DEADLOCK FALSE
