SPECIFICATION Spec
CONSTANTS
  Procs = {p1, p2}
  Origins = {o1}
  Clients = {c1}
  Confidential = {}
  MaxGen = 3
  Shapes <- MCShapes
  Peers = FALSE
  NoSession = NoSession
  NoProc = NoProc
  NoTokens = NoTokens
SYMMETRY ProcSymmetry
INVARIANTS
  StoredTokenIsCurrent
  IInv
PROPERTIES
  NoResurrection
  ReauthIsJustified
  ReplayUsesAnotherToken
