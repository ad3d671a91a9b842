SPECIFICATION FairSpec
CONSTANTS
  b1 = b1
  b2 = b2
  s1 = s1
  s2 = s2
  Beacons = {b1, b2}
  Subscribers = {s1, s2}
  Owner <- MCOwner
  VERIFY_INTERVAL = 2
  CONFIRM_INTERVAL = 1
  CONFIRM_COUNT = 3
  Renewals = {1}
  MaxRef = 2
  MaxRestarts = 1
INVARIANTS
  TypeOK
PROPERTIES
  RemovedOnlyAfterSustainedAbsence
  RecordedNeverRecreated
  LiveIsFound
  PendingIsDecided
CHECK_DEADLOCK FALSE
