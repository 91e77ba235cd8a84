SPECIFICATION Spec
CONSTANTS
  U64_MAX = 32767
  RATIO_ONE_E6 = 100
  SECOND = 100
  limits <- DownloadOnly
  config <- WindowConfig
  policy <- PolicyPercent
  DirectionInputs <- OneDirection
  Latencies <- WindowLatencies
  WirePacketBits <- DownloadPackets
  QueueInputs <- NoQueues
  AckInputs <- NoAckInputs
  MaxElapsed = 1
  MaxTime = 4
  MaxSample <- DownloadSamples
INVARIANTS
  TypeOK
  RatesHoldable
  CountMatchesWindow
PROPERTIES
  CutsStick
