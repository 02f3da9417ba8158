SPECIFICATION Spec
CONSTANTS
  w1 = w1
  w2 = w2
  t1 = t1
  t2 = t2
  Actor <- MCActor
  Task <- MCTask
  RoleOf <- MCRoleOf
  Waiter = {w1}
  Nobody = nobody
  Keyed = {t1}
  TTL = 2
  Second = 2
  MaxLost = 1
INVARIANTS
  TypeOK LeasesAreHonoured PoolIsRestored WakesReachAll
PROPERTIES
  FinishedForGood LeasesRunOut
