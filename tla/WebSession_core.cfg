CONSTANTS
  SessionUsers = {u1, u2}
  None = None
  Grants = {{"user.read", "workflow.read"}, {"workflow.read"}}
  FirstGrants = {{"user.read", "workflow.read"}}
  Changed = {u1}
  Visited = {"users"}
  MaxEvents = 3
  MaxRefreshes = 3
  Below = {layout}
SPECIFICATION FairSessionSpec
INVARIANTS
  PermissionsAreOwn
  SettledTokenMatches
PROPERTIES
  OnlyMissedChangesForbid
  SyncSettles
CHECK_DEADLOCK FALSE
