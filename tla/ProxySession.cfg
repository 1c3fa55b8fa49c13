CONSTANTS
  Nodes = {n1}
  Kinds = {status, battery}
  MaxRequests = 2
  FirstSeq <- Edge
  MaxConnects = 2
SPECIFICATION SessionSpec
INVARIANTS
  AnswerArrivedSince
  ReadyIsHeard
  AckIsItsOwn
  OffIsClosed
  PeerReads
PROPERTY SetupEnds
CHECK_DEADLOCK FALSE
