SPECIFICATION FairSpec
CONSTANTS
  Length <- Files
  Content <- Contents
  Capacity = 2
  SmallThreshold = 2
  CacheCapacity = 1
  MinChunk = 2
  BlockSize = 2
  Faulty = {2, 4}
  TapeBlocks = 3
  DriveErrors = 1
INVARIANTS
  CutOnlyByStop
  BlocksInPlace
  CheckpointsComplete
PROPERTIES
  WriterEnds
\* The command ends.
CHECK_DEADLOCK FALSE
