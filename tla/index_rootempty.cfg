SPECIFICATION QuerySpec
CONSTANTS
  Calls <- RootEmptyCalls
  Parallelism = 1
  Queried = {}
  Extent <- Extents
  Rank <- Ranks
  Matches <- Keywords
  Deselections <- Cleared
  TapeChunk = 2
  SortChunk = 2
  MaxSorts = 0
INVARIANTS
  RecordsReadBack
