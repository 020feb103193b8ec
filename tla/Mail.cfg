SPECIFICATION MailSpec
CONSTANTS
  m1 = m1
  p1 = p1
  Calls = {c1, c2, c3}
  NoCall = NoCall
  MaxSendFaults = 1
  Msgs = {m1, m2}
  Boxes = {b1, b2}
  FirstBoxes = {b1}
  SyncPasses = {p1, p2}
  MaxMailChanges = 2
  MaxSyncFaults = 1
  ImapMsgs = {m1, m2}
  MaxUid = 2
  MaxImapFaults = 1
  LivePasses = {p1, p2}
  MaxLives = 3
  MaxSwitches = 1
  MaxToggles = 2
  IdleFolders = {f1, f2}
  Reconciles = {r1, r2}
  Limits = {1, 2, 3}
  PushBoxes = {b1}
  MaxSubs = 2
  MaxArrivals = 2
  MaxDrops = 1
  NumFolders = 2
  Passes = {p1, p2}
  CopySets <- OneOrBoth
  Null = Null
  NoRow = NoRow
  MaxEdits = 2
  MaxChanges = 1
  MaxFailures = 1
  MaxOverlaps = 1
INVARIANTS
  ClaimIsExclusive
  ItemShowsDesired
  EditsReachEveryCopy
  MailIsSafe
PROPERTIES
  NoEcho
  MailSettles
CHECK_DEADLOCK FALSE
