SPECIFICATION FairSpec
CONSTANTS
  FileLen <- MCFileLen
  QueueDepth = 3
  PrimeDepth = 1
  Batch = 2
  MaxRetries = 1
INVARIANTS
  KernelBuffersAlive
  ChecksNeverFire
PROPERTIES
  DeliversInOrder
  WorkerEnds
