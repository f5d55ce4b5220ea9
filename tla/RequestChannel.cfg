SPECIFICATION FairSpec
CONSTANTS
  Rows <- MCRows
  PageSize = 3
  ServerMax = 2
  MaxPages = 3
  MaxRetries = 1
  TopOffset = 3
  Starts <- MCStarts
  Caps <- MCCaps
  NoCap = NoCap
INVARIANTS
  TypeOK
  NothingIsHidden
  NoRowTwice
  CutIsProven
  AtMostOnce
PROPERTIES
  EveryCommandEnds
\* A command that has ended does nothing more.
CHECK_DEADLOCK FALSE
