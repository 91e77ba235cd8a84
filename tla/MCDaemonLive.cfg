SPECIFICATION MCFairSpec
CONSTANTS
  Handles <- MCHandles
  Adjusted <- MCAdjusted
  EnableSleep = TRUE
  Enforce = TRUE
  ChildPingers = TRUE
  SustainedIdle = 1
  StallTimeout = 1
  GlobalTimeout = 3
  Grace = 1
  MaxAge = 3
  StaleAge = 1
  RetryTicks = 1
  MaxIndex = 2
  MaxQueue = 2
  OTHER_HANDLE = 9
  MaxDisturbances = 1
PROPERTIES
  Resumes
