SPECIFICATION Spec
CONSTANTS
  h1 = h1
  e1 = e1
  Heartbeats = {h1}
  Rules <- AllRules
  Zones = {0, 1}
  NextFireAt <- MCNextFireAt
  Editors = {e1}
  MaxAttempts = 2
  NoTime = NoTime
  NoRule = NoRule
  MaxClock = 2
  MaxGeneration = 2
  MaxLag = 0
  Budgets <- Safety
CHECK_DEADLOCK FALSE
INVARIANTS
  OneHandlerPerOccurrence
  FiresAtMostOnce
  NotSilentlyUnscheduled
  NeverStalledWithoutEdits
  DeadJobsAreReported
