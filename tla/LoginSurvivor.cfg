SPECIFICATION Spec
CONSTANTS
  Procs = {p1, p2}
  Origins = {o1}
  AdminClient = admin
  Offered <- NoOne
  Commands = {"login", "logout"}
  Forces <- Unforced
  MaxApps = 1
  MaxTokens = 2
  NoOrigin = NoOrigin
  NoClient = NoClient
  NoSession = NoSession
  NoKey = NoKey
  NoProc = NoProc
SYMMETRY Symmetric
CHECK_DEADLOCK FALSE
INVARIANTS RevokedIsGone
