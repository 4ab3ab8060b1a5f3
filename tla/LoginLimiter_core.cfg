SPECIFICATION Spec
CONSTANTS
  Handlers = {h1, h2, h3}
  Max = 2
  Window = 3
INVARIANTS
  CountBound
  BurstBound
  BlockIsDeserved
PROPERTY
  LimitLapses
