SPECIFICATION MCFairSpec
CONSTANTS
  Groups = {"a"}
  Jobs = {1, 2, 3}
  GroupOf <- SameChat
  NamedJobs = {3}
  Messages = 2
  Matching = {1}
  PageSize = 2
  MaxStarts = 2
  MaxStops = 1
  MaxOutages = 1
  MaxCancels = 1
  MaxSaveFailures = 1
  MaxCrashes = 1
  FilesOnly = FALSE
  MaxPurges = 2
  MaxPurgeFailures = 1
  Scenarios = {"requests", "stopped", "failing"}
INVARIANTS
  BackfillsAreSound
  PurgedJobsAreGone
PROPERTIES
  HistoryWorkEnds
CHECK_DEADLOCK FALSE
