SPECIFICATION FairSpec
CONSTANTS
  None = None
  Startup = Startup
  r1 = r1
  r2 = r2
  r3 = r3
  Repairers = {r1, r2, r3}
  Channels = {1}
  MaxPosts = 2
  MaxGaps = 2
  MaxFailures = 1
  MaxCrashes = 1
INVARIANTS
  SkippedIsMarked
PROPERTIES
  GapIsRepaired
CHECK_DEADLOCK FALSE
