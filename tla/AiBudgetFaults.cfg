SPECIFICATION FairSpec
CONSTANTS
  c1 = c1  c2 = c2  c3 = c3
  t1 = t1  t2 = t2
  Calls = {c1, c2}
  Tenants = {t1}
  TenantOf <- MCTenantOf
  Estimate <- MCEstimate
  Costs = {0, 3}
  CapValues = {1}
  NoCap = NoCap
  NoCall = NoCall
  GlobalDaily = 2
  GlobalMonthly = 2
  Offset <- MCOffset
  TicksPerDay = 2
  DaysPerMonth = 1
  SettleMaxAttempts = 2
  MaxClock = 1
  MaxFailures = 2
  MaxChanges = 1
CHECK_DEADLOCK FALSE
INVARIANTS
  AnsweredIsCounted
  OnlyFaultsStrandReservations
PROPERTIES
  RowsAreFinal
  EveryCallEnds
