CONSTANTS
  Reads <- MCFiles
  OpenConcurrency = 1
  CompletionBatch = 2
  WedgeAt <- AllCalls
  Wedges = {"wedged"}
SPECIFICATION FairIoSpec
PROPERTIES EveryReadEnds
CHECK_DEADLOCK FALSE
