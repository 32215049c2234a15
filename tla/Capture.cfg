CONSTANTS
  Interfaces = {i1}
  Sessions = {p1, p2}
  Streams = {s1, s2}
  NoStream = NoStream
  Capacity = 1
SPECIFICATION FairSpec
INVARIANTS
  StreamInv
PROPERTIES
  WaitersAreAnswered
  StoppedNodesEndCaptures
  CloseEndsSessions
CHECK_DEADLOCK FALSE
