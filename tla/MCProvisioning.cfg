SPECIFICATION Spec
CONSTANTS
  None = None
  b1 = b1
  b2 = b2
  s1 = s1
  s2 = s2
  Beacons = {b1}
  Subscribers = {s1}
  Owner <- MCOwnerOfOne
  VERIFY_INTERVAL = 1
  CONFIRM_INTERVAL = 1
  CONFIRM_COUNT = 2
  Renewals = {0, 3}
  MaxRef = 3
  DAY = 2
  Delays = {1, 2}
  MaxRestarts = 2
  MaxVms = 2
INVARIANTS
  TypeOK
  CreditedIsPaid
PROPERTIES
  ScannerSpec
  SecondVmOnlyIfHidden
  LiveVmKept
CHECK_DEADLOCK FALSE
