CONSTANTS
  Users = {u}
  Admins = {}
  Procs = {p1, p2}
  Shells = {s1, s2}
  Nobody = Nobody
  ExecSets = {{}, {s1, s2}}
  UserLimit = 1
  MaxInputs = 1
SPECIFICATION FairSpec
INVARIANTS
  ShellInv
PROPERTIES
  EndedShellsLeave
CHECK_DEADLOCK FALSE
