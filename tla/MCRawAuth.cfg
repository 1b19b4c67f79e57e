CONSTANTS
  Cap = 2
  MaxFrames = 3
  Lengths <- MCLengths
  ReadTimeout = 2
  MaxAhead = 2
SPECIFICATION BubbleSpec
PROPERTY AuthTaken
CHECK_DEADLOCK FALSE
