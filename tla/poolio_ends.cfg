SPECIFICATION FairIoSpec
CONSTANTS
  Reads <- MCFiles
  OpenConcurrency = 1
  CompletionBatch = 1
  WedgeAt <- OpenCalls
  Wedges = {"wedged", "dead"}
INVARIANTS
  OperationAlive
PROPERTIES
  EveryReadEnds
  ShutdownReturns
\* After shutdown nothing happens any more.
CHECK_DEADLOCK FALSE
