SPECIFICATION Spec
CONSTANTS
  Watchers = {w1, w2, w3}
  PeerModulus = 4
CHECK_DEADLOCK FALSE
INVARIANTS
  PeersCountsOutstanding
PROPERTIES
  ImplementsLatch
