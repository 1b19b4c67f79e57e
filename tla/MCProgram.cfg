CONSTANTS
  Words <- MCWords
  Marks <- MCMarks
  Installations <- MCInstallations
  Faults = 2
SPECIFICATION FairSpec
INVARIANTS
  TypeOK
  Precedence
  
  DiscoveryServed
PROPERTIES
  ImageAdvances
  StreamReturns
  Refreshed
  MjpegReaped
CHECK_DEADLOCK FALSE
