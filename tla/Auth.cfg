CONSTANTS
  Requests = {p1, p2}
  Subs = {"s", "u", "Admin"}
  Usernames = {"u"}
  MethodSets = {{"admin", "openid"}, {"desktop"}}
  MaxLogins = 2
  MaxChanges = 1
  MaxRestarts = 1
  MaxFaults = 1
SPECIFICATION AuthSpec
SYMMETRY Symmetry
INVARIANTS
  AccountInv
  SessionsHaveAccounts
  NoStaleRights
CHECK_DEADLOCK FALSE
