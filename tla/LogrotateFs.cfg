SPECIFICATION Spec
CONSTANTS
  ConcurrentLogs = 2
  MaxDepth = 1
  MaxRotations = 1
  OrdinalMax = 255
  MaxBytesPerFile = 4
  StartBytes = 1
  Rate = 1
  InitialTick = 1
  LastTick = 6
  MaxOpens = 2
  MaxReads = 1
  Offsets = {0, 2}
  Sizes = {3}
CHECK_DEADLOCK FALSE
INVARIANTS
  PeerChain
  DirectoriesListLinked
  BytesAreTickAccurate
  HandlesAccounted
PROPERTIES
  PagedListing
  InodeLifecycle
