SPECIFICATION Spec
CONSTANTS
  Streams = {1, 2, 3}
  MaxPosts = 2
  Budget = 3
  KeepLastN = 2
  MaxFaults = 0
INVARIANT SummaryIsPrepended
CHECK_DEADLOCK FALSE
