CONSTANTS
  Requests = {"r1"}
  Asks <- MCAsks
  Window = 5
  FlushAt = 1
  MaxWrite = 1
  MaxUnits = 7
  MaxFirings = 2
  Prompt = TRUE
SPECIFICATION Spec
INVARIANT InitIsFirst
CHECK_DEADLOCK FALSE
