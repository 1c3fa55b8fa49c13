CONSTANTS
  Devices <- Both
  NoEffect = 999
  Levels <- Full
  Points <- OnePoint
  Speeds <- TwoSpeeds
  Tints <- Green
  Chips <- OneGel
  MaxUsed = 3
SPECIFICATION Spec
INVARIANTS
  LampObeysControls
  PairIsTheLamps
CHECK_DEADLOCK FALSE
