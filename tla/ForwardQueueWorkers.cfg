SPECIFICATION Spec
CONSTANTS
  w1 = w1
  w2 = w2
  Workers = {w1, w2}
  Jobs = {1}
  ScanJobs = {1}
  UploadJobs = {}
  DestCount = 1
  QueueSize = 1
  FloodAttempts = 1
  MaxRetries = 1
  MaxResends = 1
  MaxStops = 1
  MaxCrashes = 1
  MaxOutages = 1
SYMMETRY Concurrency
INVARIANTS
  AttemptsAreOwned
