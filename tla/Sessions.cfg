SPECIFICATION LiveSpec
CONSTANTS
  Platforms = {"posix", "windows"}
  Faults = {"error", "signal", "cancelled", "dropped", "empty"}
  Datagrams = {"record", "serious", "malformed"}
  ReceiveTimeout = 2
  PollLimit = 5
  CheckInterval = 1
  MaxLate = 1
  Policies = {"Reconnect", "FailStop"}
  InitialDelay = 1
  MaxDelay = 3
  StormThreshold = 2
  Calibrations = {"A", "B"}
  MaxSessions = 3
  MaxMalformed = 2
CHECK_DEADLOCK FALSE
INVARIANTS
  TypeOK
  TimeoutExplained
  DeadlineFollowsValidRecords
  LateOnlyAfterDrop
  ShutdownNoticed
  StormNotEndured
  BackoffFollowsFailures
  RevisionNamesCalibration
PROPERTY StopEndsWorker
