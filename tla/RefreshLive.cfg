SPECIFICATION Spec
CONSTANTS
  Procs = {p1, p2}
  Origins = {o1}
  Clients = {c1}
  Confidential = {}
  MaxGen = 2
  Shapes <- RotatingOnly
  Peers = FALSE
  NoSession = NoSession
  NoProc = NoProc
  NoTokens = NoTokens
PROPERTIES
  EveryRequestEnds
