SPECIFICATION FairSpec
CONSTANTS
  FileLen <- TwoFiles
  SlotSize = 2
  SlotCount = 2
  RefillTargets = {2}
  Mortal = {"source", "target"}
  Cancellers = {"source", "target"}
INVARIANTS
  SlotsConserved
  EndsForCause
PROPERTIES
  BorrowedSlotStable
  ImplementsStream
  TargetStops
  SourceReleases
\* Both sides may have closed.
CHECK_DEADLOCK FALSE
