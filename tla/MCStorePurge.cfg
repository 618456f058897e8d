SPECIFICATION StoreSpec
CONSTANTS
  Session <- MCSession
  Batch <- MCBatch
  EdgesOf <- MCEdges
  Retention = 1
  MaxNow = 2
  MaxAttempts = 3
  MaxPurges = 2
  PurgeBatch = 1
PROPERTIES
  LiveBucketsKept
