SPECIFICATION Spec
CONSTANTS
  w1 = w1
  w2 = w2
  Workers = {w1, w2}
  Jobs = {1}
  ScanJobs = {1}
  UploadJobs = {1}
  DestCount = 1
  QueueSize = 1
  FloodAttempts = 2
  MaxRetries = 1
  MaxResends = 0
  MaxStops = 0
  MaxCrashes = 0
  MaxOutages = 0
SYMMETRY Concurrency
INVARIANT NoDuplicateOnRetry
