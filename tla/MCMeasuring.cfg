SPECIFICATION MeasuringSpec
CONSTANTS
  Parts = {"links", "shaper", "health", "delay", "children", "output"}
  Handles <- MCHandles
  OTHER_HANDLE = 9
  RetryTicks = 1
  MaxIndex = 3
  MaxQueue = 2
  MaxDisturbances = 3
  Side = {"download", "upload"}
  AdjustedSides = {"download", "upload"}
  ShaperRates = {1, 2}
  MinimumRate = 1
  ForeignRates = {0, 1, 3}
  MaxQdiscs = 2
  MaxAccidents = 2
  U64_MAX = 255
  RATIO_ONE_E6 = 10
  SECOND = 4
  AlphaIncrease = 0
  AlphaDecrease = 10
  AlphaEwma = 10
  InitialBaseline = 2
  RolloverDelta = 100
  ReflectorCount = 3
  ActiveCount = 2
  ResponseDeadline = 1
  DetectionWindow = 2
  DetectionThreshold = 2
  ReplacementInterval = 2
  ComparisonInterval = 1
  BaselineThreshold = 1
  EwmaThreshold = 1
  RetainStats = FALSE
  ReplyGrace = 1
  ReplyDelays = {0, 1, 2}
  ChildCount = 3
  PingInterval = 3
  FastExit = 2
  FastExitRetry = 1
  SessionRetry = 2
  StopTimeout = 1
  LATENCY_OUTPUT_SIZE = 3
  MaxWritten = 5
CHECK_DEADLOCK FALSE
INVARIANTS
  LinksAwake
  BelievesCake
  ReflectorsSound
  ChildrenSound
  LinesWhole
PROPERTIES
  LinksRediscovered
  Followed
  StoppedExits
