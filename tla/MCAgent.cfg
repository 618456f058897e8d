SPECIFICATION AgentFairSpec
CONSTANTS
  MaxSize = 1
  MaxBatches = 3
  MaxRetries = 1
  Refused <- MCRefused
  Node <- MCNode
  InfraPorts <- MCInfraPorts
  Observations <- MCObservations
  MaxObserved = 2
  MaxFlushes = 2
INVARIANTS
  
  PipelineConserves
PROPERTIES
  StopsWhenTold
