CONSTANTS
  Processes = {p, q}
  Nets = {k, l}
  Bumps = {0, 2}
  Overrides = {4}
  FirstSeq = 5
  MaxBegun = 3
  MaxShared = 2
SPECIFICATION Spec
INVARIANTS
  IgnoredNeedsTrouble
  PlanIsKept
SYMMETRY Swaps
CHECK_DEADLOCK FALSE
