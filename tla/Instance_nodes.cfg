CONSTANTS
  Procs = {p1, p2}
  Nodes = {n1}
  NoInstance = NoInstance
  Free = Free
  Commands = {"start", "stop", "restart"}
  Observed = {n1}
  MaxRequests = 2
  MaxCrashes = 1
SPECIFICATION FairSpec
INVARIANTS
  OperationsInv
PROPERTIES
  RequestsEnd
  StatsStop
CHECK_DEADLOCK FALSE
