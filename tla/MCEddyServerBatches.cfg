SPECIFICATION FairSpec
CONSTANTS
  Session = {s1}
  nullptr = nullptr
  NumThreads = 2
  Modulus = 6
  Threshold = 3
  SizeMax = 3
  MaxRecv = 2
  MaxSend = 2
  MaxClose = 1
  KeepAlive = TRUE
INVARIANTS
  InboundConserved
  OutboundConserved
  NoStrandedBatch
  OneWriteInFlight
PROPERTIES
  ClosedStaysClosed
  CloseCompletes
  SocketsAreFreed
  SentIsWritten
  ReadIsDelivered
CHECK_DEADLOCK FALSE
