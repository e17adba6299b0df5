SPECIFICATION Spec
CONSTANTS
  Callers = {c1}
  MaxStarts = 1
  RecoveryPolicy = "Reconnect"
  Failures = {"Timeout"}
  SpawnCanFail = FALSE
  CallerOps = {"start", "stop"}
  CallbackOps = {}
INVARIANT StopInterruptsBackoff
