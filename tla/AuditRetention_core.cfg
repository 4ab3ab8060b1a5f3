SPECIFICATION Spec
CONSTANTS
  Events = {e1}
  Pruners = {p1}
  LastMonth = 4
  Days <- Calendar
  Retention = 1
CHECK_DEADLOCK FALSE
INVARIANTS
  EnsuredStays
PROPERTIES
  KeptLongEnough
  OldEventsGo
