SPECIFICATION Spec
CONSTANTS
  Session = {s1, s2}
  nullptr = nullptr
  NumThreads = 2
  Modulus = 4
  Threshold = 1
  SizeMax = 3
  MaxRecv = 0
  MaxSend = 1
  MaxClose = 1
  KeepAlive = FALSE
SYMMETRY Sessions
INVARIANTS
  ServerTypeOK
  OneOwnerPerId
  IdsNameOnePair
  ClosedSessionLeaves
  NoSilentClose
  SentInOrder
  HandlersIndexed
  LoadMatchesHandlers
PROPERTIES
  ImplementsManager
  ImplementsGenerator
CHECK_DEADLOCK FALSE
