SPECIFICATION SweepSpec
CONSTANTS
  RowIds = {1, 2}
  Hashes = {"h"}
  NoRow = "none"
  Resolvers = {"r1", "r2"}
  NoOne = "nobody"
  MaxEdits = 0
  MaxSweeps = 2
  MaxResolves = 2
  MaxUnreachable = 0
PROPERTY LastCopyIsKept
CHECK_DEADLOCK FALSE
