SPECIFICATION KernelSpec
CONSTANTS
  Parts = {"bound"}
  NETLINK_RESPONSE_TIMEOUT = 2
  DumpParts = 3
  MaxRequests = 3
  MaxNetTime = 8
  MaxNetFaults = 2
  TargetCount = 2
  Spacing = 2
  Period = 4
  ResponseTimeout = 4
  SequenceNumbers = 5
  Modes = {"ECHO"}
  MaxProbeTime = 10
  MaxSessions = 2
  TCPDELAY_ACK_RATE_INTERVAL = 1
  RingRecords = 1
  UploadModels = {1, 2}
  MaxTcpTime = 3
  MaxKernelChanges = 2
  MaxPackets = 2
  MaxRecords = 2
  MaxTcpFailures = 1
  FlowKeys = {1, 2, 3}
  TCPDELAY_FLOWS = 2
  StandardTicks = {1, 3}
  TICK_SPAN = 4
  TICK_TOLERANCE = 5
  WINDOW = 2
  IMPLAUSIBLE = 3
  TSVALS = 16
  QueueBounds = {0, 1}
  Delays = {0, 1}
  Gaps = {1, 4}
  MaxSamples = 6
  CPUs = {1, 2}
  SAMPLE_INTERVAL = 1
  OurTsvals = {1, 2}
  RemoteTsvals = {1}
  MaxFilterTime = 2
  flow_a = flow_a
  flow_b = flow_b
  Flows <- MCFlows
  ClientTsvals = 4
  TSVAL = 1
  STALLED_TSVAL = 3
  DAY = 2
  Sequences = {10, 20}
  ServerKinds = {"TAKES", "DECLINES", "DROPS", "REFUSES"}
  MaxBootTime = 2
  MaxOpened = 2
CHECK_DEADLOCK FALSE
INVARIANTS
  ShownWithinBound
