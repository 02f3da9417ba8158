SPECIFICATION ReportsSpec
CONSTANTS
  w1 = w1
  t1 = t1
  Actor <- MCActor
  Task <- MCTask
  RoleOf <- MCRoleOf
  Waiter = {}
  Nobody = nobody
  Keyed = {}
  TTL = 2
  Second = 2
  MaxLost = 0
INVARIANT
  UnbackedReportsAreFlagged
