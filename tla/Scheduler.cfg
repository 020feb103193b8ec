SPECIFICATION SchedulerSpec
CONSTANTS
  h1 = h1
  e1 = e1
  Heartbeats = {h1}
  Rules <- CoreRules
  Zones = {0}
  NextFireAt <- MCNextFireAt
  Editors = {}
  MaxAttempts = 3
  NoTime = NoTime
  NoRule = NoRule
  MaxClock = 3
  MaxGeneration = 2
  MaxLag = 1
  Budgets <- Live
  Day = 6
  Week = 3
  CalZones <- CommonZones
  CalRules <- EveryRule
  Horizon = 24
  MaxDelay = 3
  NoInstant = NoInstant
  Unreachable = Unreachable
INVARIANTS
  SchedulerIsSafe
PROPERTIES
  SchedulerSettles
CHECK_DEADLOCK FALSE
