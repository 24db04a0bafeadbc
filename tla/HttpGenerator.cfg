SPECIFICATION FairSpec
CONSTANTS
  ParallelConnections = 2
  ConcurrencyLimit = 1
  Retries = 1
  MaxConns = 3
CHECK_DEADLOCK FALSE
INVARIANTS
  PermitsAccounted
  AckIdsAccounted
PROPERTIES
  EverybodyReturns
