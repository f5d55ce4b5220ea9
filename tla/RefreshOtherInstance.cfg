SPECIFICATION Spec
CONSTANTS
  Procs = {p1}
  Origins = {o1, o2}
  Clients = {c1}
  Confidential = {}
  MaxGen = 2
  Shapes <- RotatingOnly
  Peers = TRUE
  NoSession = NoSession
  NoProc = NoProc
  NoTokens = NoTokens
INVARIANTS
  CredentialStaysWithItsInstance
CHECK_DEADLOCK FALSE
