SPECIFICATION FairSpec
CONSTANTS
  Free = Free
  Stale = Stale
  Procs = {p1, p2, p3}
  MAX_RETRIES = 2
  MaxAllocs = 4
  MaxFaults = 1
INVARIANTS
  TypeOK
  Exclusive
  IncreasingUnlessRace
PROPERTIES
  AllocationEnds
CHECK_DEADLOCK FALSE
