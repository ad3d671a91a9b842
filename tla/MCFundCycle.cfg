SPECIFICATION FairSpec
CONSTANTS
  Interval = 2
  Gas = 3
  Buffer = 1
  MinReserve = 6
  MinAda = 1
  Collateral = 3
  Fee = 1
  Scale = 10000
  ShareConfigs <- MCShareConfigs
  Roles = {"dev", "broker"}
  Unlisted = {"dev"}
  First <- MCFirst
  Income <- MCIncome
  MaxCollections = 1
  MaxFaults = 1
  MaxRestarts = 1
INVARIANTS TypeOK SharesAsConfigured
PROPERTIES CyclesSpaced WorkGoesOn
CHECK_DEADLOCK FALSE
