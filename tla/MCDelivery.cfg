SPECIFICATION FairSpec
CONSTANTS
  MaxSize = 2
  MaxBatches = 4
  MaxRetries = 2
  Refused <- RefusedBatches
INVARIANTS
  QueueBounded
  HoldsHeadOrEvicted
  NoUncountedLoss
  MergedExactlyOnce
PROPERTIES
  LeavesOnlySettled
  ShutdownReturns
  QueuedIsSettled
