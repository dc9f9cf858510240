SPECIFICATION ScenarioSpec
CONSTANTS
    Keys = {k1}
    ChannelKeys = {k1}
    StoryKeys = {}
    Accounts = {"a1", "a2"}
    Identities = {"i1", "i2"}
    Messages <- AllMessages
    Workers = {w1, w2}
    MaxAttempts = 2
    None = None
    MaxId = 1
    MaxGen = 3
    MaxCrashes = 0
    MaxFloods = 0
SYMMETRY WorkerSymmetry
INVARIANTS
  TypeOK
  OneClaimOwner
  NoOrphanClaim
  CompletedIsStored
  TransfersAreWanted
  LatestObservationWins
