SPECIFICATION Spec
CONSTANTS
  Platforms = {"posix", "windows"}
  Faults = {"signal", "dropped"}
  Datagrams = {"record"}
  ReceiveTimeout = 2
  PollLimit = 5
  CheckInterval = 1
  MaxLate = 1
  Policies = {"Reconnect", "FailStop"}
  InitialDelay = 1
  MaxDelay = 3
  StormThreshold = 2
  Calibrations = {"A", "B"}
  MaxSessions = 2
  MaxMalformed = 2
CHECK_DEADLOCK FALSE
INVARIANTS
  TimeoutMeansSilence
