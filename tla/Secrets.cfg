CONSTANTS
  m1 = m1
  r1 = r1
  r2 = r2
  None = None
  Managers = {m1}
  Requests = {r1, r2}
  ManagerOf <- Same
  Values = {1}
  CacheTTL = 1
  MaxAge = 2
  Interval = 1
  Fails = {"storage", "redis"}
SPECIFICATION Spec
INVARIANTS TypeOK StaleIsBounded MissesAreBounded
PROPERTY EventuallyTold
