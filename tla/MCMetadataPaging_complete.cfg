SPECIFICATION Spec
CONSTANTS
  Keys <- FiveKeys
  Limits <- SomeLimits
  DefaultLimit = 3
  MaxWrites = 0
INVARIANT EveryRecordListed
CHECK_DEADLOCK FALSE
