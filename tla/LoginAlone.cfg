SPECIFICATION Spec
CONSTANTS
  Procs = {p1}
  Origins = {o1}
  AdminClient = admin
  Offered <- NoOne
  Commands = {"login"}
  Forces <- Unforced
  MaxApps = 2
  MaxTokens = 0
  NoOrigin = NoOrigin
  NoClient = NoClient
  NoSession = NoSession
  NoKey = NoKey
  NoProc = NoProc
SYMMETRY Symmetric
CHECK_DEADLOCK FALSE
INVARIANTS ConcurrentLoginIsReal
