SPECIFICATION LiveSpec
CONSTANTS
  Callers = {c1, reaper}
  Reaper = reaper
  Destructors = {"callback"}
  MaxStarts = 1
  MaxEvents = 3
  RecoveryPolicy = "Reconnect"
  Failures = {}
  SpawnCanFail = FALSE
  CallerOps = {"start", "stop"}
  CallbackOps = {}
CHECK_DEADLOCK FALSE
INVARIANT NothingInsideFreed
