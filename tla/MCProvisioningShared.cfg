SPECIFICATION Spec
CONSTANTS
  None = None
  b1 = b1
  b2 = b2
  s1 = s1
  s2 = s2
  Beacons = {b1, b2}
  Subscribers = {s1}
  Owner <- MCSharedOwner
  VERIFY_INTERVAL = 2
  CONFIRM_INTERVAL = 1
  CONFIRM_COUNT = 2
  Renewals = {1}
  MaxRef = 1
  DAY = 2
  Delays = {1}
  MaxRestarts = 0
  MaxVms = 2
PROPERTIES
  LiveVmKept
CHECK_DEADLOCK FALSE
