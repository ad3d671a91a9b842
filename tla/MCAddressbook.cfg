SPECIFICATION FairSpec
CONSTANTS
  Clients = {c1, c2}
  Names = {ops, aux}
  Typed = {a1, a2}
  Malformed = bad
  MaxCommands = 3
  MaxFaults = 1
  Nobody = Nobody
INVARIANTS TypeOK HotIsKeys
PROPERTIES NothingElseChanges HotIsRestored
CHECK_DEADLOCK FALSE
