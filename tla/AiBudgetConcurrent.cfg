SPECIFICATION Spec
CONSTANTS
  c1 = c1  c2 = c2  c3 = c3
  t1 = t1  t2 = t2
  Calls = {c1, c2, c3}
  Tenants = {t1, t2}
  TenantOf <- MCTenantOf
  Estimate <- MCEstimate
  Costs = {0, 3}
  CapValues = {1}
  NoCap = NoCap
  NoCall = NoCall
  GlobalDaily = 2
  GlobalMonthly = 3
  Offset <- MCOffset
  TicksPerDay = 1
  DaysPerMonth = 2
  SettleMaxAttempts = 2
  MaxClock = 2
  MaxFailures = 0
  MaxChanges = 0
CHECK_DEADLOCK FALSE
INVARIANTS
  CapsHold
