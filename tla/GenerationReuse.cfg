SPECIFICATION Spec
CONSTANTS
  Callers = {c1, c2}
  MaxStarts = 2
  RecoveryPolicy = "Reconnect"
  Failures = {}
  SpawnCanFail = TRUE
  CallerOps = {"start", "wait"}
  CallbackOps = {}
PROPERTY WaiterAnswersForItsStart
