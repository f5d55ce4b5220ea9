SPECIFICATION Spec
CONSTANTS
  Procs = {p1, p2}
  Origins = {o1, o2}
  AdminClient = admin
  Offered <- AdminOnly
  Commands = {"login", "logout", "set-key"}
  Forces <- Unforced
  MaxApps = 1
  MaxTokens = 2
  NoOrigin = NoOrigin
  NoClient = NoClient
  NoSession = NoSession
  NoKey = NoKey
  NoProc = NoProc
SYMMETRY Symmetric
CONSTRAINT KeysOrAdministrators
CHECK_DEADLOCK FALSE
INVARIANTS LabelIsOwners OneInstance
PROPERTIES NothingIrreversible SignedOutIsSound
