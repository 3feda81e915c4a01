CONSTANTS
  n1 = n1
  n2 = n2
  j1 = j1
  j2 = j2
  Node = {n1, n2}
  Job = {j1, j2}
  Hour <- MCHour
  MinNodes = 1
  Legacy = {n1}
  MaxRuns = 4
  FreshMax = 1
  ShortMax = 2
  Window = 1
  Scale = 2
SPECIFICATION Spec
SYMMETRY MCSymmetry
INVARIANTS
  PoolMatchesSeen
  CountsRuns
  MissedRunsShow
PROPERTY
  ImplementsBranch
