SPECIFICATION Spec
CONSTANTS
  Callers = {c1, c2}
  MaxStarts = 2
  RecoveryPolicy = "FailStop"
  Failures = {"SensorConfiguration", "Timeout", "Socket", "SeriousStatus", "FtStall", "FtBackward", "MalformedStorm", "Callback", "Exception"}
  SpawnCanFail = TRUE
  CallerOps = {"start", "stop", "wait", "bias"}
  CallbackOps = {"start", "stop", "wait", "bias"}
SYMMETRY Symmetry
INVARIANTS
  TypeOK
  StartOwnsTheClient
  HealthMatchesLatch
  RestsStoppedOrFaulted
  LatestBelongsToStart
  CallbackKnowsItsThread
  WakeUpToCome
PROPERTIES
  ImplementsContract
  EndIsFinal
