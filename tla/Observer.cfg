SPECIFICATION Spec
CONSTANTS
  Pids = {1, 2, 3}
  Target = 1
  Groups = {g1, g2}
  Cores = 2
  TicksPerSecond = 100
  Limits <- Questions
SYMMETRY Symmetry
CHECK_DEADLOCK FALSE
INVARIANTS
  LastingAreSampled
  CpuIsPossible
