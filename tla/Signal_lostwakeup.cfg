SPECIFICATION ClosingSpec
CONSTANTS
  Watchers = {w1, w2}
  PeerModulus = 4
CHECK_DEADLOCK FALSE
PROPERTIES
  SignalAndWaitReturns
