SPECIFICATION StoreFairSpec
CONSTANTS
  Session <- MCSession
  Batch <- MCBatch
  EdgesOf <- MCEdges
  Retention = 1
  MaxNow = 2
  MaxAttempts = 3
  MaxPurges = 1
  PurgeBatch = 1
INVARIANTS
  NoDoubleCount
  AckedIsRecorded
  IngestsNeverDeadlock
PROPERTIES
  EveryIngestEnds
  ImplementsRepository
