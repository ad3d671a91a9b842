SPECIFICATION FairSpec
CONSTANTS
  Vms = {v1, v2}
  Wallets = {w1, w2}
  MaxTransfers = 2
  MaxFaults = 2
  None = None
INVARIANTS TypeOK SyncedMeansGecos
PROPERTIES GuestIsBroughtUpToDate
CHECK_DEADLOCK FALSE
