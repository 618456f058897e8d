SPECIFICATION Spec
CONSTANTS
  MaxSize = 2
  MaxBatches = 3
  MaxRetries = 1
  Refused <- RefusedBatches
PROPERTIES
  OneAttemptEach
