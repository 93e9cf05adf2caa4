SPECIFICATION Spec
CONSTANTS
  MinId = 1
  MaxId = 7
  Modulus = 8
  Threshold = 3
  MaxLive = 4
INVARIANTS
  IdsConserved
  MintingBounded
  NeverExhausted
PROPERTY
  FreshId
