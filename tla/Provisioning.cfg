CONSTANTS
  a = a
  b = b
  Lights <- Two
  Reported <- Spans
  DefaultElements = 2
  MaxTries = 2
SPECIFICATION Spec
INVARIANTS
  RecordOpensTheLight
  ListedIsBound
  StrandedHadTrouble
  QuietAttemptSucceeds
  NothingElseLeaks
PROPERTY AttemptEnds
CHECK_DEADLOCK FALSE
