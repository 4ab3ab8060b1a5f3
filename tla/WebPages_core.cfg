\* Two rows, one column and a password, batches of two files.
CONSTANTS
  NoData = NoData
  NoRow = NoRow
  Gone = Gone
  Nobody = Nobody
  New = New
  Blank = Blank
  Password = Password
  Rows = {r1, r2}
  Columns = {c1}
  MaxReqs <- MCMaxReqs
  MaxOthers <- MCMaxOthers
  MaxBatch = 2
  MaxRuns = 2
SPECIFICATION Spec
INVARIANTS
  InputStaysWithItsRow
  AcknowledgedIsShown
  ZoneFollowsBatch
  BatchIsPrefix
PROPERTY OnlyOverlapOverwrites
SYMMETRY RowSymmetry
CHECK_DEADLOCK FALSE
