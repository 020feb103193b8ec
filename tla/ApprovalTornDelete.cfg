SPECIFICATION Spec
CONSTANTS
  m1 = m1
  i1 = i1
  i2 = i2
  p1 = p1
  owner = owner
  other = other
  item = item
  property = property
  Requests <- GenericRequests
  Workers = {w1, w2}
  Users <- GenericUsers
  Resources <- GenericResources
  Kind <- KindOf
  RunActor <- RunActorOf
  Target <- TargetOf
  NoWorker = NoWorker
  NoRequest = NoRequest
  MaxAttempts = 3
  StaleAfter = 1
  MaxFailures = 0
  MaxEdits = 0
  MaxSuspensions = 0
INVARIANT ConflictChangesNothing
CHECK_DEADLOCK FALSE
