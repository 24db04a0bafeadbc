SPECIFICATION AllSpec
CONSTANTS
  Limits <- MCLimits
  Draws <- MCDraws
  U32Max = 200
  Offsets = {0, 3, 130}
  Lengths = {0, 1, 11}
  Kinds <- MCKinds
  LimitsOf <- MCLimitsOf
  LensOf <- MCLensOf
  ApproxMember = 4
  DatadogSpare = 1
  FluentBatch = 2
  TraceSpans = 2
  TraceBatch = 1
  MaxGroups = 2
  Files = {0, 5, 15}
  BufferSize = 12
  DogConfs <- MCDogConfs
  NumTagsets = 2
  Period = 7
  MaxTagsets = 5
INVARIANTS
  NeverEmpty
  CacheBudget
  ReadIsSlice
  TagsetsLoop
PROPERTIES
  ImplementsCache
  SerializerReturns
