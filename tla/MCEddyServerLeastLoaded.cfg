SPECIFICATION Spec
CONSTANTS
  Session = {s1}
  nullptr = nullptr
  NumThreads = 3
  Modulus = 6
  Threshold = 3
  SizeMax = 3
  MaxRecv = 0
  MaxSend = 0
  MaxClose = 0
  KeepAlive = FALSE
SYMMETRY Sessions
INVARIANTS
  LeastLoadedThread
CHECK_DEADLOCK FALSE
