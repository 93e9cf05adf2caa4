SPECIFICATION FairSpec
CONSTANTS
  NumWorkers = 1
  Client = {c1, c2}
  MaxTasks = 1
  Empty = {}
  nullptr = nullptr
PROPERTIES
  JoinReturns
CHECK_DEADLOCK FALSE
