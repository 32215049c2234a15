CONSTANTS
  Nodes = {n1}
  None = None
  MaxPods = 2
  MaxRequests = 3
  MaxFaults = 1
SPECIFICATION Spec
SYMMETRY Symmetry
INVARIANTS
  ViewFollowsCluster
  StoppedStaysStopped
  DeploymentInv
  DestroyedStaysDown
CHECK_DEADLOCK FALSE
