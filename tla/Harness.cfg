SPECIFICATION Spec
CONSTANTS
  Listens = {"None", "Http", "Tcp", "Udp"}
  Requests = {r1, r2}
  Sizes = {1, 3}
  DatagramMax = 1
  MaxSpin = 4
INVARIANTS
  AnsweredIsReported
  CountedWasSent
CHECK_DEADLOCK FALSE
