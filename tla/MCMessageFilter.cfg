SPECIFICATION Spec
CONSTANTS
  B = 2
  IntMax = 6
  Payload <- MCPayload
  MaxBatch = 3
  MaxSent = 4
INVARIANTS
  FilterTypeOK
  BytesConserved
PROPERTY ImplementsMessageStream
CHECK_DEADLOCK FALSE
