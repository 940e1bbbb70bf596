SPECIFICATION Spec
CONSTANTS
  None = None
  Cmds = {a, b}
  Schedules = {"s"}
  Projects = {}
  KindOf <- MCRunKindOf
  ClientOf <- MCRunClientOf
  ProjectOf <- MCRunProjectOf
  SlotOf <- MCRunSlotOf
  InScope = {a, b}
  LaneOf <- MCLaneOf
  Ttl <- MCRunTtl
  StandingFor <- MCStandingFor
  Interval = 2
  Retention = 2
  MaxPending = 2
  MaxActive = 3
  PerUserLimit = 1
  MaxNow = 6
  DiesIn = {"boot"}
INVARIANTS SlotRunsOnceInTime StandingSpaced
PROPERTIES BarredStaysOut
SYMMETRY MCRunSymmetry
CHECK_DEADLOCK FALSE
