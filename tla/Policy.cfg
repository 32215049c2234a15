CONSTANTS
  Procs = {p1, p2}
  Topologies = {t1}
  None = None
  AllowedImagePrefixes = {"reg"}
  Probes <- McProbes
  Edits <- McEdits
  FileSets <- McFileSets
  MaxSteps = 3
SPECIFICATION Spec
SYMMETRY Symmetry
INVARIANTS
  CheckInv
  AcceptedIsConfined
CHECK_DEADLOCK FALSE
