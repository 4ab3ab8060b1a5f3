SPECIFICATION Spec
CONSTANTS
  Workflows = {w1}
  Requests = {r1, r2}
  Nobody = Nobody
SYMMETRY RequestSymmetry
\* Every request is used once: the instance stops when all are answered.
CHECK_DEADLOCK FALSE
PROPERTIES
  PendingIsLocked
