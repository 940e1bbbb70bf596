SPECIFICATION FairSpec
CONSTANTS
  Boots = {b1, b2}
  MaxWrites = 1
  Vaults = {"keyed", "orphaned", "empty"}
  Faults = {"crash", "race"}
INVARIANTS CopyIsCurrent
PROPERTIES WaitsEnd
CHECK_DEADLOCK FALSE
