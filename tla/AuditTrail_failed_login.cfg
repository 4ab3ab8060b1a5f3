SPECIFICATION Spec
CONSTANTS
  Requests = {r1}
  LastMonth = 1
  Created = {1}
CHECK_DEADLOCK FALSE
INVARIANT FailedLoginsRecorded
