CONSTANTS
  Nodes = {n1}
  None = None
  Slots = {1, 2, 3}
  MaxStarts = 2
  MaxBytes = 2
  MaxFaults = 1
SPECIFICATION Spec
INVARIANTS
  StatsInv
  MonitoredWhileUp
PROPERTIES
  StoppedNodesLeave
  IdleStreamsEnd
CHECK_DEADLOCK FALSE
