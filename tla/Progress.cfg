SPECIFICATION ProgressSpec
CONSTANTS
  Parts = {"forward", "pool", "faces", "nsfw", "cloud"}
  w1 = w1
  Workers = {w1}
  Jobs = {1}
  ScanJobs = {1}
  UploadJobs = {}
  DestCount = 2
  QueueSize = 1
  FloodAttempts = 2
  MaxRetries = 1
  MaxResends = 1
  MaxStops = 0
  MaxCrashes = 1
  MaxOutages = 1
  PoolJobs = {1, 2}
  Uploads = {"u"}
  PoolVideos = {"v"}
  PoolWorkers = {"w1", "w2"}
  NoUpload = "none"
  MaxPoolStarts = 1
  Pics = {1, 2}
  FaceQueueCap = 1
  BatchSize = 2
  MaxItemAttempts = 2
  MaxSkipped = 2
  Names = {"Ann"}
  Unnamed = "none"
  MaxPeople = 3
  MaxFaceEvents = 3
  Items = {1, 2}
  Spriteless = {2}
  NsfwQueueCap = 1
  NsfwBatch = 2
  NsfwWorkers = 2
  MaxNsfwEvents = 3
  Services = {"drive", "dropbox"}
  Contents = {1, 2, 3}
  LargeContents = {1, 2}
  LargeSize = 5
  Chunk = 2
  CloudAttempts = 2
  NoContent = 0
  MaxUploads = 3
  MaxRemoteChanges = 1
  MaxCloudCrashes = 1
INVARIANTS
  TypeOK
PROPERTIES
  DeliversAsPromised
  WaitingIsSettled
  
CHECK_DEADLOCK FALSE
