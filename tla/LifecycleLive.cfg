SPECIFICATION LiveSpec
CONSTANTS
  Callers = {c1, c2, reaper}
  Reaper = reaper
  Destructors = {"application", "callback"}
  MaxStarts = 2
  MaxEvents = 4
  RecoveryPolicy = "Reconnect"
  Failures = {"Timeout"}
  SpawnCanFail = FALSE
  CallerOps = {"start", "stop"}
  CallbackOps = {"stop", "wait"}
CHECK_DEADLOCK FALSE
INVARIANT OutlastsTheWorker
PROPERTIES
  StopReturns
  StartReturns
  SessionRetried
  DestructionEnds
  ImplementsContract
