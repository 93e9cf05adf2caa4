SPECIFICATION FairSpec
CONSTANTS
  NumThreads = 3
  MaxPosts = 1
  MaxStops = 2
INVARIANTS
  IOThreadTypeOK
  KeepAliveIsChecked
PROPERTY PostedRuns
CHECK_DEADLOCK FALSE
