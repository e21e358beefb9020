SPECIFICATION FairSpec
CONSTANTS
  a = a
  b = b
  NoPath = NoPath
  Paths = {a, b}
  InitialPaths = {a, NoPath}
  Lengths = {1, 2}
  Attempts = 2
  MaxWrites = 2
  MaxMoves = 2
  MaxCalls = 1
  MaxFaults = 1
INVARIANTS NothingMissed AcknowledgedIsDurable ConfirmedIsDurable
CHECK_DEADLOCK FALSE
PROPERTIES FilesOnlyAdvance EventuallySaved
