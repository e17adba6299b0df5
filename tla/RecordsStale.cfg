SPECIFICATION Spec
CONSTANTS
  Modulus = 8
  RestartLowMax = 1
  Scenarios <- NearThreshold
  MaxRecords = 4
  Window = 3
CHECK_DEADLOCK FALSE
PROPERTIES
  SamplesInOrder
