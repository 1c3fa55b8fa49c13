CONSTANTS
  Writers = {w1, w2}
  NoOne = NoOne
  Types = {net, beacon}
  Lengths = {2, 4, 7}
  Sizes = {3, 8}
  MaxMessage = 4
  Timeout = 1
  MaxPDUs = 2
  MaxTicks = 2
SPECIFICATION SegmentsSpec
INVARIANTS
  NothingElseIsLost
PROPERTIES
  PacketsComeInOrder
CHECK_DEADLOCK FALSE
