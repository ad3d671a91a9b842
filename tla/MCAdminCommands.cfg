SPECIFICATION FairSpec
CONSTANTS
  COUNT = 2
  PRUNE_AGE_BLOCKS = 1
  MaxNonce = 3
  MaxTx = 3
  MaxCrashes = 1
  MaxFaults = 1
INVARIANTS
  TypeOK
  RunsInOrder
PROPERTIES
  NewestIsAccepted
CHECK_DEADLOCK FALSE
