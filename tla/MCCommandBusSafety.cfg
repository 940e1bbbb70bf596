SPECIFICATION Spec
CONSTANTS
  None = None
  Cmds <- MCCmds
  Schedules = {}
  Projects = {"p"}
  KindOf <- MCKindOf
  ClientOf <- MCClientOf
  ProjectOf <- MCProjectOf
  SlotOf <- MCSlotOf
  InScope = {}
  LaneOf <- MCLaneOf
  Ttl <- MCTtl
  StandingFor <- MCNoSchedules
  Interval = 1
  Retention = 1
  MaxPending = 2
  MaxActive = 2
  PerUserLimit = 2
  MaxNow = 2
  DiesIn = {"finish", "settle", "cancel", "expire"}
INVARIANTS JobOnlyIfMayRun QuotaHolds
PROPERTIES KeepsPromise KeepsLifecycle
CHECK_DEADLOCK FALSE
