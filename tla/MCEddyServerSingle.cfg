SPECIFICATION Spec
CONSTANTS
  Session = {s1}
  nullptr = nullptr
  NumThreads = 1
  Modulus = 6
  Threshold = 3
  SizeMax = 3
  MaxRecv = 2
  MaxSend = 2
  MaxClose = 1
  KeepAlive = TRUE
INVARIANTS
  InboundConserved
  OutboundConserved
  NoStrandedBatch
CHECK_DEADLOCK FALSE
