SPECIFICATION Spec
CONSTANTS
  Requests = {r1}
  LastMonth = 3
  Created = {1}
CHECK_DEADLOCK FALSE
INVARIANTS
  DuplicatesNeedLoss
  RaceCostsOneRetry
  MutationsRecorded
PROPERTY
  EventSettles
  DeliversAtLeastOnce
