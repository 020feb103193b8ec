SPECIFICATION SessionsSpec
CONSTANTS
  JobWorkers = {w1, w2}
  MaxAttempts = 2
  MaxRunFaults = 2
  MaxDeactivations = 1
  NoRun = NoRun
  MaxWakes = 3
  MaxConvFaults = 2
  MaxHistory = 4
  MaxDrops = 1
  Delegations = {d1, d2, d3}
  MaxSessions = 3
  MaxDelFaults = 2
  HistoryWriters = {w1, w2}
  Retention = 2
  CompactAt = 2
  MaxUpdates = 4
  MaxDocClock = 4
  Editors = {c1}
  Elsewhere = other
  MaxDocEdits = 1
  MaxOtherEdits = 1
  MaxDocFaults = 1
  MaxFailedReads = 1
  CompactionThreshold = 2
  MaxRunEvents = 2
  MaxWatches = 2
  MaxWatchFaults = 1
  MaxClientSockets = 4
  MaxCalls = 5
  ListedMails = {m1, m2}
  Inbox = "inbox"
  Archive = "archive"
  Trash = "trash"
  Actions = {a1, a2}
  Nothing = Nothing
  MaxTriages = 2
  MaxOpened = 1
  MaxViewFaults = 1
  Surfaces = {s1, s2}
  MaxComposeFaults = 1
  MaxTyping = 1
  MaxDrafts = 2
INVARIANTS
  RetainedHasCheckpoint
  AgentRunsAreSafe
  ClientsAreSafe
PROPERTIES
  SessionsSettle
CHECK_DEADLOCK FALSE
