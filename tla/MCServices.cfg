\* Routes: a bucket is two clock units, so reports fall in its first and second half.
\* Alerts: a queue, a cooldown table and a response of one entry are full at once.
\* Credentials: two queries for one server or for two, beside a logout; or a query, a
\* login and a logout; two tokens to issue, and one fault anywhere.
CONSTANTS
  Batch <- MCBatch
  Reports <- MCReports
  Minute = 2
  MaxSpan = 6
  Retention = 5
  MaxNow = 6
  MaxNodes = 2
  MaxEdges = 2
  Threshold = 20
  MinAttempts = 10
  FailPercent = 20
  SetupFactor = 3
  SetupFloor = 1
  External = 9
  Spans = {2, 4}
  Ranges <- MCRanges
  Filters <- MCFilters
  BaselineSpan = 4
  CanaryTargets = {3}
  Cases <- MCCases
  AlertBatch = {"b1", "b2", "b3"}
  Contacts <- MCContacts
  Anomaly = {1, 2}
  IsCanary = {1}
  SeverityRank <- MCRank
  Floor = 1
  MaxAnomalies = 1
  Channels <- MCChannels
  QueueCapacity = 1
  MaxAttempts = 2
  Cooldown = 2
  TableLimit = 1
  MaxStimuli = 5
  Request = {r1, r2}
  MaxRetries = 1
  Process = {"p1", "p2", "p3"}
  Server = {1, 2}
  Commands <- MCCommands
  MaxIssued = 4
  MaxFaults = 1
SPECIFICATION MCSpec
INVARIANTS
  ServicesTypeOK
  MissingMeansExpired
  GraphIsLongestPrefix
  DiffNeverDoubleCounts
  NewMeansUnseen
  DiffSound
  AnomalySound
  AlertsAccounted
  StorageServes
PROPERTIES
  MemoryImplementsRepository
  CooldownKept
  StandingNotRepeated
  
  NoLostUpdate
  EverythingEnds
CHECK_DEADLOCK FALSE
