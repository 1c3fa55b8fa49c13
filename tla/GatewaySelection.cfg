CONSTANTS
  a = a
  b = b
  None = None
  Nodes <- Pair
  Known <- JustA
  Preferred = a
  Signal <- PairSignal
  FreshAdvert = 1
  ShortHold = 1
  DropPenalty = 2
  MaxTime = 3
SPECIFICATION GatewaySpec
PROPERTIES
  FailureMovesOn
  SteadyFirst
  EveryFailureCounts
CHECK_DEADLOCK FALSE
