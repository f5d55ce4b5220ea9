SPECIFICATION Spec
CONSTANTS
  Procs = {p1}
  Origins = {o1, o2}
  Clients = {c1, c2}
  Confidential = {c2}
  MaxGen = 3
  Shapes <- MCShapes
  Peers = TRUE
  NoSession = NoSession
  NoProc = NoProc
  NoTokens = NoTokens
SYMMETRY OriginSymmetry
INVARIANTS
  ReadIsStillStored
PROPERTIES
  MemoryOnlyAdvances
CHECK_DEADLOCK FALSE
