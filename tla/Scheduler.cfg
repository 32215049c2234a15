CONSTANTS
  Labs = {l1}
  Procs = {p1, p2}
  Times = {1}
  NoTime = NoTime
  NoLab = NoLab
  Overlapping = {"deploy"}
  MaxTime = 1
  MaxRequests = 3
  MaxRestarts = 1
SPECIFICATION FairSpec
INVARIANTS
  QueuesFollowRows
PROPERTIES
  DeletedLabsStayDown
  DueDeploymentRuns
  EndedLabGoesDown
CHECK_DEADLOCK FALSE
