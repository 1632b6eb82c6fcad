SPECIFICATION FairFileSpec
CONSTANTS
  BlockSize = 3
  TargetSlotSize = 2
  Record <- Tape
  Inputs <- Manifest
  AutomaticRetries = 1
INVARIANTS
  AcceptsExactly
  SlotsExact
PROPERTIES
  CancelEnds
\* The call ends.
CHECK_DEADLOCK FALSE
