SPECIFICATION Spec
CONSTANTS
  U64_MAX = 32767
  RATIO_ONE_E6 = 100
  SECOND = 100
  limits <- BothAdjusted
  config <- SharedConfig
  policy <- PolicyPercent
  DirectionInputs <- TwoDirections
  Latencies <- SharedLatencies
  WirePacketBits <- NoPackets
  QueueInputs <- SomeQueues
  AckInputs <- SomeAcks
  MaxElapsed = 1
  MaxTime = 2
  MaxSample <- DownloadSamples
INVARIANTS
  AlwaysBlamed
PROPERTIES
  ReasonsTruthful
