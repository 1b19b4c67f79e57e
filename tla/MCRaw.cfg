CONSTANTS
  Cap = 2
  MaxFrames = 3
  Lengths <- MCLengths
  ReadTimeout = 2
  MaxAhead = 2
SPECIFICATION BubbleFairSpec
INVARIANTS
  DoneClosedOnce
  WireOrdered
  KeyFirst
  BubbleTypeOK
  InStep
PROPERTIES
  HandshakeEnds
  ConnectionEnds
CHECK_DEADLOCK FALSE
