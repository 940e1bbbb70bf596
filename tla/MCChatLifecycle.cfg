SPECIFICATION Spec
CONSTANTS
  None = None
  Turns = {t1, t2}
  TicksPerSecond = 2
  MaxTime = 6
  MaxAge = 3
  Faults = {"db", "fs"}
SYMMETRY Symmetry
VIEW MCView
INVARIANTS OneTurn NoOrphanTranscript QuietDeleteGoes
PROPERTIES PurgedIsFiled ReusedKeeps
CHECK_DEADLOCK FALSE
