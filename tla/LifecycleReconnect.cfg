SPECIFICATION Spec
CONSTANTS
  Callers = {c1, c2, c3}
  MaxStarts = 2
  RecoveryPolicy = "Reconnect"
  Failures = {"Timeout", "Exception"}
  SpawnCanFail = FALSE
  CallerOps = {"start", "stop", "wait", "bias"}
  CallbackOps = {"stop", "wait"}
SYMMETRY Symmetry
INVARIANTS
  HandleOwnedOnce
  NoOrphanedStream
  BlockedReceiveIsWoken
PROPERTIES
  StopReturnsQuiet
  WaiterAnswersForItsStart
