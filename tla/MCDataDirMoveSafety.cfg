SPECIFICATION Spec
CONSTANTS
  Boots = {b1, b2, b3}
  MaxWrites = 1
  Vaults = {"keyed", "orphaned", "empty"}
  Faults = {"crash", "step", "undo"}
SYMMETRY MCSymmetry
VIEW MCView
INVARIANTS OneMover NeverLost KeyFits
PROPERTIES OriginalsOutliveTheMove KeepsHandover
CHECK_DEADLOCK FALSE
