SPECIFICATION LibrarySpec
CONSTANTS
  None = None
  a1 = a1
  a2 = a2
  b = b
  Messages = {1, 2}
  Media <- Uploads
  Bytes <- Content
  Carries <- Anything
  RescueMessages <- AllRescue
  SkipModes <- NoSkip
  Workers = {1, 2}
  Janitors = {1}
  MaxIngests = 2
  MaxFailures = 1
  MaxCrashes = 1
  MaxLosses = 1
  Tiles = {1}
  Viewers = {"v"}
  Rebuilders = {"r"}
  NoTask = "build"
  MaxSources = 2
  MaxRenders = 2
  Clips = {1, 2}
  Scans = {"s"}
  MaxFaststarts = 3
  Entries = {1, 2}
  Files = {1, 2}
  Named <- UpkeepNamed
  Cap = 1
  RotateMost = 1
  AutoMinRows = 2
  JobsMost = 2
  EventsMost = 1
INVARIANTS
  DerivedIsSound
  FilesAreAccounted
  RescuedIsKept
PROPERTIES
  UpkeepIsCareful
  NeverOlder
CHECK_DEADLOCK FALSE
