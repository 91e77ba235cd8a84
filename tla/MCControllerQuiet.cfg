SPECIFICATION QuietSpec
CONSTANTS
  U64_MAX = 32767
  RATIO_ONE_E6 = 100
  SECOND = 100
  limits <- DownloadOnly
  config <- WindowConfig
  policy <- PolicyPercent
  DirectionInputs <- QuietInputs
  Latencies <- WindowLatencies
  WirePacketBits <- NoPackets
  QueueInputs <- NoQueues
  AckInputs <- NoAckInputs
  MaxElapsed = 3
  MaxTime = 33
  MaxSample <- QuietSamples
INVARIANTS
  SettlesAtBase
CHECK_DEADLOCK FALSE
