SPECIFICATION FairSpec
CONSTANTS
  NumThreads = 2
  MaxPosts = 0
  MaxStops = 1
PROPERTIES
  StopReturns
CHECK_DEADLOCK FALSE
