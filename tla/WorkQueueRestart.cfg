SPECIFICATION FairSpec
CONSTANTS
    Keys = {k1}
    ChannelKeys = {}
    StoryKeys = {}
    Accounts = {"a1"}
    Identities = {"i1"}
    Messages <- RestartMessages
    Workers = {w1}
    MaxAttempts = 2
    None = None
    MaxId = 1
    MaxGen = 2
    MaxCrashes = 1
    MaxFloods = 1
INVARIANTS
  RetriesAreOwed
PROPERTIES
  AcceptedIsSettled
