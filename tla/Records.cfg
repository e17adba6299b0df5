SPECIFICATION Spec
CONSTANTS
  Modulus = 8
  RestartLowMax = 1
  Scenarios <- OrderingAndBiasing
  MaxRecords = 6
  Window = 3
CHECK_DEADLOCK FALSE
INVARIANTS
  TypeOK
  LossIsExact
  RestartNoticed
  NoSilentDrop
PROPERTIES
  NewRecordsTaken
  SamplesInOrder
  RateLimitHolds
