SPECIFICATION SkipSpec
CONSTANTS
  None = None
  a1 = a1
  a2 = a2
  b = b
  Messages = {1, 2}
  Media <- Uploads
  Bytes <- Content
  Carries <- Anything
  RescueMessages <- Permanent
  SkipModes <- AlwaysSkip
  Workers = {1, 2}
  Janitors = {}
  MaxIngests = 3
  MaxFailures = 1
  MaxCrashes = 0
  MaxLosses = 0
  Requests = {"q1"}
  Restarts = {"t1"}
  Unheld = "free"
  MaxMonitorErrors = 2
  MaxMonitorBoots = 1
INVARIANTS MonitorIsControlled
PROPERTIES NoRepeatEntry IngestEnds MonitorComesBack
CHECK_DEADLOCK FALSE
