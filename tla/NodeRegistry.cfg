CONSTANTS
  p = p
  a = a
  b = b
  First = p
  Lights <- Two
  Elements <- Narrow
  Flows = {f1, f2}
  ElementsPerNode = 2
  FirstAddress = 2
  LastAddress = 9
  Settings = {no}
  Default = no
  Unset = Unset
  MaxSteps = 2
SPECIFICATION Spec
INVARIANTS
  EveryLightIsKept
  ListIsShown
  OneByOneApart
CHECK_DEADLOCK FALSE
