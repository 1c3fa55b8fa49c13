CONSTANTS
  Effects <- OneEffect
  NoEffect = NoEffect
  Controls = {"tint", "speed", "range", "coordinates", "gel"}
  Readback = TRUE
  Attempts = 2
  MaxMisses = 2
  Levels <- TwoLevels
  Full = 2
  Requests <- Calls
  MaxCalls = 2
  MaxMoves = 1
SPECIFICATION Spec
INVARIANTS
  LedsAreOn
  LevelStands
  ShowsWhatWasMeasured
  ShowsWhatWasCommanded
  GelKeepsLevel
  HolderIsServed
CHECK_DEADLOCK FALSE
