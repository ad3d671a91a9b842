SPECIFICATION KnockFairSpec
CONSTANTS
  None = None
  AnySource = AnySource
  ip1 = ip1
  ip2 = ip2
  Knocks = {k1}
  Ports = {port1}
  Sources <- MCSources
  Ips = {ip1}
  MaxTasks = 2
  MaxSessions = 1
  MaxFailures = 0
  MaxRestarts = 0
PROPERTIES
  OpenedTemporarily
CHECK_DEADLOCK FALSE
