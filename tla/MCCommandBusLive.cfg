SPECIFICATION FairSpec
CONSTANTS
  None = None
  Cmds <- MCTwo
  Schedules = {}
  Projects = {}
  KindOf <- MCTwoKindOf
  ClientOf <- MCTwoClientOf
  ProjectOf <- MCTwoProjectOf
  SlotOf <- MCTwoSlotOf
  InScope = {}
  LaneOf <- MCLaneOf
  Ttl <- MCTwoTtl
  StandingFor <- MCNoSchedules
  Interval = 1
  Retention = 3
  MaxPending = 2
  MaxActive = 2
  PerUserLimit = 2
  MaxNow = 3
  DiesIn = {"finish", "hook", "settle", "cancel", "boot", "sweep"}
PROPERTIES EveryCommandIsTold
CHECK_DEADLOCK FALSE
