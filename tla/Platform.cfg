SPECIFICATION PlatformSpec
CONSTANTS
  d1 = d1
  Users = {u1, u2}
  AcctRequests = {r1, r2}
  Endpoints = {e1}
  MaxPassword = 1
  ResetCap = 1
  NoEntry = NoEntry
  AuthRequests = {r1, r2, r3}
  Routes = {"login", "passwordResetRequest"}
  AddressKeys = {k1}
  MaxEvents = 2
  Window = 2
  MaxKeys = 1
  LastTick = 2
  PurgeRuns = {p1, p2}
  TenantBlobs = {b1}
  TenantDbs = {d1, d2}
  MaxLateWrites = 2
  MaxPurgeFaults = 2
  Nobody = Nobody
  Exports = {e1, e2}
  Requesters = {q1, q2}
  RequestAttempts = 2
  MaxExportFaults = 3
  Ticks = {t1, t2}
  Operators = {o1}
  Families <- HealthFamilies
  MaxChanges = 2
  MaxAlertFaults = 1
  Deploys = {d1, d2}
  MaxDeploys = 2
  MaxStatusChanges = 2
  MaxSeedFaults = 1
  NoDeploy = NoDeploy
  Migrators = {m1, m2}
  ItemEditors = {u1}
  MaxItem = 3
  MigrationPage = 1
  MaxItemEdits = 1
  MaxRunnerStarts = 2
  MaxRunnerFaults = 1
  NoRunner = NoRunner
  Manifests <- ModuleFiles
  ReservedKeys <- CoreKeys
  MaxSwitches = 1
  MaxReads = 2
  Unloaded = Unloaded
INVARIANTS
  CountsAreExact
  PlatformIsSafe
PROPERTIES
  PlatformStepsAreSound
  PlatformSettles
CHECK_DEADLOCK FALSE
