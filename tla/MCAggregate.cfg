SPECIFICATION AggSpec
CONSTANTS
  Node <- MCNode
  InfraPorts <- MCInfraPorts
  Observations <- MCObservations
  MaxObserved = 4
  MaxFlushes = 2
INVARIANTS
  AggregatesExactly
  SeenWindowExact
