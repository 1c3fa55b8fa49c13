CONSTANTS
  BlockSize = 3
  SeqLimit = 7
  Fallback = 1
SPECIFICATION Spec
INVARIANTS
  StoreTracksMark
PROPERTIES
  DiskNeverRegresses
  NodesAcceptEverything
