SPECIFICATION Spec
CONSTANTS
  Files = {f1, f2}
  Requests = {r1, r2, r3, r4}
SYMMETRY Symmetry
CHECK_DEADLOCK FALSE
INVARIANTS
  RowHasObject
  OrphanIsReported
  DownloadIsWhole
PROPERTY
  ActsAsOneStore
