CONSTANTS
  Procs = {p1, p2}
  Collections = {c1, c2}
  Topologies = {t1, t2}
  BindFiles = {b1, b2}
  Labs = {l1}
  Names = {n1, n2}
  Commands = {"create", "update", "delete", "createBind", "updateBind", "deleteBind", "createLab", "deploy", "deleteCollection"}
  None = None
  Empty = Empty
  MaxRequests = 4
  MaxOverlapping = 3
  MaxFaults = 2
SYMMETRY Symmetry
SPECIFICATION Spec
INVARIANTS
  RowInv
  DeletedCollectionsAreEmpty
  BindFilesExist
  EnvironmentIsWhatWasChecked
CHECK_DEADLOCK FALSE
