SPECIFICATION FairSpec
CONSTANTS
  NumWorkers = 2
  Client = {c1, c2}
  MaxTasks = 3
  Empty = {3}
  nullptr = nullptr
INVARIANTS
  PoolTypeOK
  NoLostTask
  TasksInOrder
PROPERTIES
  IdleMeansDone
  IdleReturns
CHECK_DEADLOCK FALSE
