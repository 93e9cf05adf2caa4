SPECIFICATION Spec
CONSTANTS
  m1 = m1
  m2 = m2
  nullptr = nullptr
  Object = {m1, m2}
  Byte = {0, 1}
  kDynamicThreshold = 2
  LengthBytes = 1
  Data <- MCData
  Junk <- MCJunk
  Behind <- MCBehind
  MaxStorage = 4
SYMMETRY MCSymmetry
VIEW MCView
INVARIANT MessageTypeOK
PROPERTIES
  EnsuresWritable
  ImplementsByteQueue
