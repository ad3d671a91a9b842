SPECIFICATION FairSpec
CONSTANTS
  Subs = {s1, s2}
  Addresses = {a1, a2}
  RATE = 3
  INTERVAL = 2
  SLOT = 2
  GRACE = 0
  LIFETIME = 1
  MAX_BATCH = 2
  Deposits = {3}
  Slack = 1
  MaxTime = 4
  MaxRef = 2
  MaxPool = 1
INVARIANTS
  TypeOK
  NeverAheadOfTime
  Accounted
  WithdrawAccepted
PROPERTIES
  MatureIsCollectedUnlessJammed
CHECK_DEADLOCK FALSE
