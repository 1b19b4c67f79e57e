CONSTANTS
  Cap = 2
  MaxFrames = 3
  Lengths <- MCLengths
  ReadTimeout = 2
  MaxAhead = 2
SPECIFICATION BubbleSpec
INVARIANT StartsWithKey
CHECK_DEADLOCK FALSE
