CONSTANTS
  Numbers = {1, 2}
  ReadTimeout = 1
  AliveInterval = 3
  MaxCommands = 4
  MaxAhead = 2
SPECIFICATION FairSpec
INVARIANTS
  TypeOK
  RepliesMatch
  StartedAsClaimed
PROPERTY SilentEnds
CHECK_DEADLOCK FALSE
