SPECIFICATION FairSpec
CONSTANTS
  Capacity <- MCCapacity
  ClassOf <- MCClassOf
  Budget = 4
  DemandReserve = 3
  ActiveLimit = 2
  Workers = {w1, w2}
  MaxRetries = 1
INVARIANTS
  WithinBudget
  DemandNeverStranded
PROPERTIES
  DemandServed
\* After shutdown nothing happens any more.
CHECK_DEADLOCK FALSE
