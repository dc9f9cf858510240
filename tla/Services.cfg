SPECIFICATION ServicesSpec
CONSTANTS
  Parts = {"sweep", "pairing", "mcp", "sprites", "pool", "faces", "nsfw", "dbscan", "accounts", "cloud", "files", "dialogs", "live"}
  RowIds = {1, 2}
  Hashes = {"h"}
  NoRow = "none"
  Resolvers = {"r1", "r2"}
  NoOne = "nobody"
  MaxEdits = 1
  MaxSweeps = 2
  MaxResolves = 2
  MaxUnreachable = 1
  Instances = {"i1", "i2"}
  MaxCodes = 1
  MaxPairs = 3
  MaxLosses = 1
  MaxRevokes = 1
  MaxRotations = 1
  Agents = {"g1", "g2"}
  Admin = "admin"
  Calls = {1, 2}
  IdemKeys = {"k"}
  Payloads = {"p"}
  Tokens = {1, 2}
  Approvals = {1}
  Nobody = "nobody"
  MaxMcpCalls = 3
  MaxMcpCrashes = 1
  MaxGrants = 1
  Videos = {1, 2}
  QueueCap = 1
  NoVideo = 0
  MaxEvents = 2
  PoolJobs = {1, 2}
  Uploads = {"u"}
  PoolVideos = {"v"}
  PoolWorkers = {"w1", "w2"}
  NoUpload = "none"
  MaxPoolStarts = 1
  Pics = {1, 2}
  FaceQueueCap = 1
  BatchSize = 2
  MaxItemAttempts = 2
  MaxSkipped = 2
  Names = {"Ann"}
  Unnamed = "none"
  MaxPeople = 3
  MaxFaceEvents = 3
  Items = {1, 2}
  Spriteless = {2}
  NsfwQueueCap = 1
  NsfwBatch = 2
  NsfwWorkers = 2
  MaxNsfwEvents = 3
  N = 6
  MinPoints = {3}
  BatchSizes = {1, 3}
  MaxEdges = 4
  Flows = {1, 2}
  Ids = {1, 2}
  NoFlow = 0
  MaxFlows = 2
  MaxDbFaults = 1
  MaxAccountCrashes = 1
  MaxRemovals = 1
  Services = {"drive", "dropbox"}
  Contents = {1, 2, 3}
  LargeContents = {1, 2}
  LargeSize = 5
  Chunk = 2
  CloudAttempts = 2
  NoContent = 0
  MaxUploads = 3
  MaxRemoteChanges = 1
  MaxCloudCrashes = 1
  Stores = {"local", "sftp", "ftp", "s3"}
  Bodies = {1, 2}
  Blocks = {1, 2, 3}
  Parallel = 2
  Nothing = 0
  MaxPuts = 3
  MaxPutCrashes = 1
  Chats = {1}
  BasicGroups = {1}
  Accounts = {"a"}
  Roles = {"admin", "guest"}
  MaxListings = 2
  MaxLeaves = 1
  MaxMoves = 1
  MaxLost = 1
  Routes = {1, 2}
  AutoRetries = 2
  MaxLiveIngests = 2
  MaxLiveFaults = 1
  MaxLiveCrashes = 1
  MaxOrders = 1
INVARIANTS
  
  RunsAsGranted
  
  
  AccountsAreWhole
  
  ChatsAreLeftForGood
  LiveForwardIsSound
CHECK_DEADLOCK FALSE
