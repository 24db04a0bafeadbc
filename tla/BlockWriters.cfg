SPECIFICATION FairSpec
CONSTANTS
  Children = {1, 2}
  Rotations = 2
  Sizes <- SmallSizes
  MaxBytes = 1
  Capacity = 3
  MaxWrites = 4
  MaxDeletes = 1
  MaxFaults = 1
  Blocks <- SmallBlocks
  ChannelSize = 2
  ReceiveBytes = 2
  UdpBytes = 2
  SocketBytes = 4
  MaxBlocks = 4
  MaxBreaks = 2
CHECK_DEADLOCK FALSE
INVARIANTS
  LogsAreContiguous
  BlocksInOrder
  BytesConserved
PROPERTIES
  StreamsAreWholeBlocks
  WriterReturns
