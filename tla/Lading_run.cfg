SPECIFICATION FairSpec
CONSTANTS
  g1 = g1
  g2 = g2
  Generators = {g1, g2}
  Configs <- MCConfigs
CHECK_DEADLOCK FALSE
INVARIANTS
  NothingLeftBehind
PROPERTIES
  DeadTargetEndsRun
  RunEnds
