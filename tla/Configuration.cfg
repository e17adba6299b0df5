SPECIFICATION Spec
CONSTANTS
  Kinds <- SampleKinds
  OtherNames = {"prodnames"}
  Pieces = {"blank", "digit", "Nm", "unknown"}
  MaximumLength = 2
  MaxTokens = 7
  Ports = {0, 3, 4}
  MaximumPort = 3
  Durations = {0, 1, 4, 5, 7, 9}
  PerMillisecond = 2
  Tick = 2
  Instants = {0, 2}
  ClockMax = 5
  LongMax = 3
  Chunks = {0, 1, 2, 4}
  MaximumResponseBytes = 4
  Statuses = {200, 404}
INVARIANTS ParserDecides ConfigurationIsTheDocument ValidatedConfigIsUsable
PROPERTY OnlyWholeResponsesParsed
CHECK_DEADLOCK FALSE
