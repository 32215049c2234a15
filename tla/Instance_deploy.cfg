CONSTANTS
  Procs = {p1, p2, p3}
  Nodes = {n1, n2}
  NoInstance = NoInstance
  Free = Free
  Commands = {}
  Observed = {}
  MaxRequests = 4
  MaxCrashes = 0
SPECIFICATION Spec
INVARIANTS
  DestroyedIsGone
  SettledWhenIdle
  RunningLabKeepsContainers
SYMMETRY ProcSymmetry
CHECK_DEADLOCK FALSE
