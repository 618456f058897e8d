SPECIFICATION AgentSpec
CONSTANTS
  MaxSize = 1
  MaxBatches = 2
  MaxRetries = 1
  Refused <- MCNone
  Node <- MCNode
  InfraPorts <- MCInfraPorts
  Observations <- MCOne
  MaxObserved = 2
  MaxFlushes = 1
INVARIANTS
  ExitFlushed
