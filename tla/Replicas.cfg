SPECIFICATION ReplicaSpec
CONSTANTS
  Parts = {"mirror", "archives", "transfers", "restore", "sync"}
  Files = {1}
  Archives = {2, 3}
  MaxAttempts = 2
  Retain = 1
  MaxRevisions = 2
  MaxFailures = 2
  MaxCommands = 2
  MaxCrashes = 1
  t1 = t1
  t2 = t2
  t3 = t3
  Transfers = {t1, t2, t3}
  Kind <- MCKind
  c1 = c1
  c2 = c2
  Cleaners = {c1, c2}
  MaxRefusals = 2
  MaxOutages = 2
  MaxExits = 1
  MaxRestores = 2
  MaxFaults = 3
  DownloadIds = {1, 2}
  Contents = {"x", "y"}
  Gone = "gone"
  PageSize = 1
  PassPages = 2
  MaxChanges = 3
  MaxSourceRestores = 1
  MaxSyncFailures = 1
  MaxPairings = 1
INVARIANTS
  LeftoversAreHeld
  RestoreIsSafe
  CopyFollowsCatalog
PROPERTIES
  BackupsAreTrue
  ReplicasSettle
CHECK_DEADLOCK FALSE
