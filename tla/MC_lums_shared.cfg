CONSTANTS
  Addrs = {1, 2}
  Types = {"s", "gi", "exit"}
  Params = {0, 1}
  MacVals = {18}
  DEFAULT_MAC = 0
  NONE = NONE
  MaxCmds = 2
  MaxRx = 2
SPECIFICATION Spec
INVARIANT HandledAsPosted
