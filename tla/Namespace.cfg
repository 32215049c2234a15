CONSTANTS
  Users = {u1, u2}
  Admins = {u1}
  Sockets = {s1, s2}
  Senders = {p1, p2}
  None = None
  Kinds = {"updates", "logs", "shell", "command"}
  Capacities = {0, 2}
  MaxReaders = 1
  MaxSends = 3
SYMMETRY Symmetry
SPECIFICATION Spec
INVARIANTS
  ClientInv
  BacklogIsTheEnd
  DeliveryInv
CHECK_DEADLOCK FALSE
