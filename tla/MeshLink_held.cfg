CONSTANTS
  MaxFailures = 3
  MaxCalls = 3
SPECIFICATION FairSpec
PROPERTY HeldThenReleased
CHECK_DEADLOCK FALSE
