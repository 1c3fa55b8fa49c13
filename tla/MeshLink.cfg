CONSTANTS
  MaxFailures = 2
  MaxCalls = 5
SPECIFICATION FairSpec
INVARIANTS
  IdleCloseIsIdle
  ShutDownStaysDown
  WedgeIsCut
  SomeoneWillClose
PROPERTIES
  IdleConnectionIsReleased
  ShutdownCompletes
CHECK_DEADLOCK FALSE
