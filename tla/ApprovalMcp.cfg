SPECIFICATION FairSpec
CONSTANTS
  m1 = m1
  i1 = i1
  i2 = i2
  p1 = p1
  owner = owner
  other = other
  item = item
  property = property
  Requests <- McpRequests
  Workers = {w1, w2}
  Users <- McpUsers
  Resources = {}
  Kind <- KindOf
  RunActor <- RunActorOf
  Target <- TargetOf
  NoWorker = NoWorker
  NoRequest = NoRequest
  MaxAttempts = 5
  StaleAfter = 2
  MaxFailures = 2
  MaxEdits = 2
  MaxSuspensions = 0
INVARIANTS AtMostOnce OutcomeIsTrue ApprovedIsNotStranded
PROPERTIES ImplementsContract ApprovedIsSettled
CHECK_DEADLOCK FALSE
