SPECIFICATION Spec
CONSTANTS
  Length <- Files
  Content <- Contents
  Capacity = 2
  SmallThreshold = 2
  CacheCapacity = 1
  MinChunk = 2
  BlockSize = 2
  Faulty = {}
  TapeBlocks = 6
  DriveErrors = 0
INVARIANTS
  CommittedOnTape
\* The command ends.
CHECK_DEADLOCK FALSE
