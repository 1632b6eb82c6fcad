SPECIFICATION QuerySpec
CONSTANTS
  Calls <- AllCalls
  Parallelism = 2
  Queried <- Questions
  Extent <- Extents
  Rank <- Ranks
  Matches <- Keywords
  Deselections <- Cleared
  TapeChunk = 2
  SortChunk = 2
  MaxSorts = 1
INVARIANTS
  IndexIsTheDocuments
  FailsForCause
  NothingLost
  UidsUnique
  NoTemporariesLeft
  TapeOrderExact
  FindsTheNext
PROPERTIES
  SortsOneDirectory
