SPECIFICATION LogSpec
CONSTANTS
  Last = 3
  NoFilter = none
  some = some
  Filters = {none, some}
  Matches <- Second
  Old <- FirstOld
  PageSize = 1
  ExportLimit = 2
  MaxLimit = 2
  DefaultLimit = 1
  None = nil
  MaxClicks = 3
  MaxFetches = 2
CHECK_DEADLOCK FALSE
INVARIANTS
  WalkIsWhole
  EmptyMeansNone
  ExportIsWhole
