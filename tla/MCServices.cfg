SPECIFICATION ServicesSpec
CONSTANTS
  Parts = {"writer", "file", "mqtt", "ubus", "service"}
  LOG_QUEUE_BYTES = 3
  LOG_QUEUE_WAKE_BYTES = 2
  EntryBytes <- MCEntryBytes
  RequestBytes = 1
  Immediate = FALSE
  MaxAsked = 4
  LogMaximumSize = 2
  Buffered = TRUE
  MaxLines = 3
  MaxLogFailures = 2
  MQTT_QUEUE_RECORDS = 2
  MaxConnections = 2
  MaxOutages = 2
  Sections = {"main"}
  Valid = {"A", "B"}
  Refused = {"BAD"}
  MaxEdits = 2
  MaxCalls = 3
  MaxAccidents = 2
CHECK_DEADLOCK FALSE
INVARIANTS
  OwnersTrue
  QueueKept
PROPERTIES
  KeepsPromise
  Settles
  GivenBack
  StatusRepublished
  LogKept
  ServiceSound
  RunsItsFile
