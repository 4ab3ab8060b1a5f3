SPECIFICATION Spec
CONSTANTS
  Workflows = {w1}
  Requests = {r1, r2, r3, r4}
  Nobody = Nobody
SYMMETRY RequestSymmetry
\* Every request is used once: the instance stops when all are answered.
CHECK_DEADLOCK FALSE
INVARIANTS
  OneMovePerRound
  VerdictIsSigned
  EventsAreTrue
  AcknowledgedMoveIsLogged
PROPERTIES
  LateWritersAreRefused
  FollowsLifecycle
