SPECIFICATION FairSpec
CONSTANTS
  MaximumCapacity = 3
  IntervalTicks = 4
  Requests = {1, 2, 3, 4}
  LastRequestTick = 11
  LastTick = 16
  MaxDepth = 1
  MaxSubFolders = 2
  MaxFiles = 1
  MaxNodes = 5
  Names = {"a", "b"}
  Roots <- SmallRoots
  MaxOpens = 8
  MaxRenames = 2
  MaxErrors = 1
  TreeDepth = 3
  MaxChildren = 2
  MaxFailures = 1
  MaxTrees = 2
  TotalProcesses = 2
  Pids = {1, 2}
  CmdlineSizes = {1, 2, 4}
  CommLen = 1
  NameLen = 2
  HostFiles <- SmallHostFiles
  MaxIoErrors = 1
CHECK_DEADLOCK FALSE
INVARIANTS
  SpentWithinMaximum
  WholeTreeIsSpawned
  EntriesAreWhole
  TreeIsLaidOut
  AccessStillWorks
PROPERTIES
  GeneratorReturns
