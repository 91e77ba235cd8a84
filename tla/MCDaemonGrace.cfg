SPECIFICATION MCSpec
CONSTANTS
  Handles <- MCHandles
  Adjusted <- MCAdjusted
  EnableSleep = TRUE
  Enforce = TRUE
  ChildPingers = FALSE
  SustainedIdle = 1
  StallTimeout = 1
  GlobalTimeout = 3
  Grace = 1
  MaxAge = 3
  StaleAge = 1
  RetryTicks = 1
  MaxIndex = 2
  MaxQueue = 2
  OTHER_HANDLE = 9
  MaxDisturbances = 2
INVARIANTS
  GraceAfterCake
