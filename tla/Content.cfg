SPECIFICATION ContentSpec
CONSTANTS
  Uploads = {u1, u2, u3}
  NoKey = NoKey
  MaxBlobFaults = 1
  Runners = {r1, r2}
  Chunks = 2
  MaxTries = 2
  MaxAudio = 3
  MaxTFaults = 1
  MaxUserActs = 1
  MaxTexts = 1
  MaxCards = 3
  MaxInboxActs = 3
  MaxTickFaults = 1
  Requests = {r1, r2, r3}
  NoItem = NoItem
  MaxTrashing = 3
  Depth = 3
  Users = {u1, u2}
  Purger = purger
  MaxTrashOps = 3
  MaxPurges = 1
  Editors = {e1, e2}
  MaxSchemaOps = 3
  NRows = 2
  MaxRetypes = 2
  MaxCellEdits = 1
  MigrationTries = 2
  MaxJobFaults = 2
  ItemsR = {p1, p2, c1}
  Parents = {p1, p2}
  Children = {c1}
  Writers = {w1, w2}
  MaxValue = 1
  MaxWrites = 2
  MaxTriesR = 2
  BackfillPage = 1
  TaskWriters = {w1, w2}
  NoWriter = NoWriter
  MaxTasks = 3
  MaxUpdates = 3
  LinkedItems = {l1}
  WeekDays = 3
  MonthLengths <- CalendarMonths
  SweepDays = 51
  YearMonths = 8
  SweepMonths = 8
  Ordinals = {1, 2, 3, 4, 18}
  LastCompletion = 10
  NoDate = NoDate
  Rows = 3
  KeyValues <- KeyRanges
  PageLimit = 1
  MaxRowEdits = 1
  ViewWriters = {v1, v2}
  Members = {m1, m2, m3}
  Agents = {a1, a2}
  NoOne = NoOne
  MaxPosition = 1
  MaxViewOps = 2
INVARIANTS
  ContentIsSafe
  OneLiveItemPerKey
PROPERTIES
  ContentStepsAreSound
  ContentSettles
CHECK_DEADLOCK FALSE
