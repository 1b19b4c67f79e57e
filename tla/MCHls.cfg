CONSTANTS
  Requests = {"r1", "r2"}
  Asks <- MCAsks
  Window = 2
  FlushAt = 2
  MaxWrite = 3
  MaxUnits = 6
  MaxFirings = 2
  Prompt = TRUE
SPECIFICATION FairSpec
INVARIANTS
  TypeOK
  Numbering
  Contiguous
  SegmentExact
  WokenServed
  SessionAccounted
PROPERTIES
  PlaylistsAdvance
  SessionReaped
  RequestAnswered
CHECK_DEADLOCK FALSE
