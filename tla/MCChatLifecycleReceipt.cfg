SPECIFICATION Spec
CONSTANTS
  None = None
  Turns = {t1, t2}
  TicksPerSecond = 2
  MaxTime = 6
  MaxAge = 3
  Faults = {}
PROPERTIES PurgedIsVouched
CHECK_DEADLOCK FALSE
