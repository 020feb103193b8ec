SPECIFICATION ServicesSpec
CONSTANTS
  c1 = c1
  c2 = c2
  c3 = c3
  o1 = o1
  o2 = o2
  o3 = o3
  o4 = o4
  PullRequests = {1, 2, 3}
  Found <- Findings
  ConfirmedFix = {"d"}
  HarvestCap = 2
  LabelLimit = 2
  MaxFailures = 1
  Calls = {c1, c2, c3}
  RouteOf <- Routes
  MaxAudio = 1
  MaxDbFaults = 1
  Clients = {c1}
  MaxWrites = 2
  MaxLogins = 1
  MaxHubEvents = 3
  Producers = {p1, p2}
  PushDevices = {d1, d2}
  Accts = {u1, u2}
  Owner = u1
  FanoutWorkers = {w1, w2}
  FanoutTries = 2
  MaxRegs = 2
  MaxPushFaults = 1
  QueueWorkers = {w1, w2}
  MaxChanges = 3
  MaxTries = 2
  MaxQueueFaults = 2
  MaxTenantMoves = 1
  NoWorker = NoWorker
  PoolOps = {o1, o2, o3, o4}
  KindOf <- Kinds
  TenantOf <- Scopes
  PoolSize = 1
  MaxPoolFaults = 2
  NoTenant = "system"
  NoOp = NoOp
INVARIANTS
  RunsAsOwnTenant
  ServicesAreSafe
PROPERTIES
  ServicesSettle
CHECK_DEADLOCK FALSE
