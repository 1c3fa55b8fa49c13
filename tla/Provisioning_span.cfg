CONSTANTS
  a = a
  b = b
  Lights <- Two
  Reported <- Spans
  DefaultElements = 2
  MaxTries = 2
SPECIFICATION Spec
INVARIANT SpanIsWhatWasReported
CHECK_DEADLOCK FALSE
