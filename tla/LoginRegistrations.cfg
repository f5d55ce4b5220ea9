SPECIFICATION Spec
CONSTANTS
  Procs = {p1, p2}
  Origins = {o1}
  AdminClient = admin
  Offered <- AnyClient
  Commands = {"login", "logout"}
  Forces <- Either
  MaxApps = 2
  MaxTokens = 1
  NoOrigin = NoOrigin
  NoClient = NoClient
  NoSession = NoSession
  NoKey = NoKey
  NoProc = NoProc
SYMMETRY Symmetric
CHECK_DEADLOCK FALSE
INVARIANTS TypeOK
PROPERTIES NoOrphan
