SPECIFICATION FairSpec
CONSTANTS
  None = None
  Calls <- MCCalls
  Warm = {"a", "b", "x"}
  KeyOf <- MCKeyOf
  MaxCli = 1
  MaxIdle = 1
  MaxFlushes = 2
  Stubborn = {}
INVARIANTS SlotsExact WarmFits
PROPERTIES KeepsSlotQueue EveryCallEnds NoChildLingers
CHECK_DEADLOCK FALSE
