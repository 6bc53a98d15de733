SPECIFICATION Spec
CONSTANTS
  Keys <- FiveKeys
  Limits <- SomeLimits
  DefaultLimit = 3
  MaxWrites = 3
INVARIANTS PagesAscending UncutListingComplete WalkEnds
CHECK_DEADLOCK FALSE
