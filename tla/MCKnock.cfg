SPECIFICATION KnockFairSpec
CONSTANTS
  None = None
  AnySource = AnySource
  ip1 = ip1
  ip2 = ip2
  Knocks = {k1, k2}
  Ports = {port1}
  Sources <- MCSources
  Ips = {ip1}
  MaxTasks = 2
  MaxSessions = 1
  MaxFailures = 1
  MaxRestarts = 1
INVARIANTS
  KnockTypeOK
  RulesAccountedFor
  NarrowedAfterLogin
PROPERTIES
  KnockEnds
CHECK_DEADLOCK FALSE
