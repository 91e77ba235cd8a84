SPECIFICATION Spec
CONSTANTS
  U64_MAX = 255
  RATIO_ONE_E6 = 10
  SECOND = 4
  Thirds = {1, 3, 15}
  AlphaIncrease = 1
  AlphaDecrease = 3
  AlphaEwma = 3
  InitialBaseline = 2
  RolloverDelta = 100
  TextMax = 9999
  Wholes = {0, 1, 2, 9, 10, 15, 49, 50, 98, 99, 100, 499, 500, 998, 999, 1000, 4999, 5000, 9998, 9999, 10000}
  Digits = {0, 4, 5, 9}
  MaxDigits = 4
  Scales = {1, 10, 16, 100, 6000}
  V4 = {"192.0.2.1"}
  V6 = {"2001:db8::1"}
  Hosts = {"example.org"}
  MILLISECOND = 10
  UINT_MAX = 15
  RATE_STEP = 8
  MAX_REFLECTORS = 3
  MQTT_SUPPORTED = TRUE
  MQTT_TLS_SUPPORTED = FALSE
  Ifb <- MCIfb
  Defaults <- MCDefaults
  CELL_PAYLOAD = 48
  CELL = 53
  PTM_BLOCK = 64
  OPTIONS_MAX = 40
  HEADER_BYTES = 20
  HEADER_MAX = 60
  Mtus = {0, 1, 28, 47, 48, 49, 63, 64, 65, 576, 1492, 1500}
  Overheads <- MCOverheads
  MpuBytes = {0, 64, 84}
  MaxOptions = 4
  Day = 20
  Hours = {0, 9, 16, 18, 19}
  Ahead = {0, 1, 10, 19}
  Ways = {0, 1, 3}
INVARIANTS
  ArithExact
  DecimalsExact
  ChargesTrue
  TimestampsStand
  ConfigSound
