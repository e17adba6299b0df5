SPECIFICATION LiveSpec
CONSTANTS
  Callers = {c1, reaper}
  Reaper = reaper
  Destructors = {}
  MaxStarts = 2
  MaxEvents = 2
  RecoveryPolicy = "FailStop"
  Failures = {"Timeout"}
  SpawnCanFail = FALSE
  CallerOps = {"start"}
  CallbackOps = {}
CHECK_DEADLOCK FALSE
PROPERTY StartReturns
