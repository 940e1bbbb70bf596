SPECIFICATION Spec
CONSTANTS
  Boots = {b1, b2, b3}
  MaxWrites = 0
  Vaults = {"keyed"}
  Faults = {"crash", "race"}
INVARIANTS OneMover
CHECK_DEADLOCK FALSE
