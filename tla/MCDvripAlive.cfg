CONSTANTS
  Numbers = {1, 2}
  ReadTimeout = 1
  AliveInterval = 3
  MaxCommands = 3
  MaxAhead = 2
SPECIFICATION Spec
PROPERTY IntervalHonoured
CHECK_DEADLOCK FALSE
