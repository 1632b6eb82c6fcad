SPECIFICATION FairSpec
CONSTANTS
  FileLen <- MixedFiles
  SlotSize = 2
  ReadChunk = 4
  SmallThreshold = 3
  SlotCount = 2
  RefillTargets = {3}
INVARIANTS
  HashesBeforeEof
  SleepersMustWait
PROPERTIES
  BorrowedSlotStable
  ImplementsStream
  StreamEnds
  DestroyReturns
\* After lfr_destroy the context is gone and nothing happens any more.
CHECK_DEADLOCK FALSE
