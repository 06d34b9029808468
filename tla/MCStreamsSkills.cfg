SPECIFICATION StreamsSpec
CONSTANTS
  Jobs = {1, 2}
  Clients = {c1}
  NoJob = NoJob
  SourceCanVanish = TRUE
  QueueMax = 2
  MaxJobs = 1
  MaxReports = 2
  ChatStreams = {1, 2, 3}
  MaxPosts = 3
  Budget = 2
  KeepLastN = 1
  MaxFaults = 1
  Requests = {1, 2}
  Agent <- TwoAgents
  Backends <- SearchOrder
  MaxHits = 2
  MinSections = 2
  MaxSections = 4
  FallbackSections = 3
  MaxTitles = 5
INVARIANT InstalledSkillIsAsked
CHECK_DEADLOCK FALSE
