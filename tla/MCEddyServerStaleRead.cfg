SPECIFICATION Spec
CONSTANTS
  Session = {s1, s2}
  nullptr = nullptr
  NumThreads = 2
  Modulus = 4
  Threshold = 1
  SizeMax = 3
  MaxRecv = 0
  MaxSend = 0
  MaxClose = 1
  KeepAlive = FALSE
SYMMETRY Sessions
INVARIANTS
  ClosedMeansClosed
CHECK_DEADLOCK FALSE
