SPECIFICATION FairSpec
CONSTANTS
  Pids = {1, 2, 3}
  Target = 1
  Groups = {g1}
  Cores = 2
  TicksPerSecond = 100
  Limits <- Chain
CHECK_DEADLOCK FALSE
PROPERTIES
  InitializedOnce
