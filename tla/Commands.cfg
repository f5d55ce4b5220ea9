SPECIFICATION Spec
CONSTANTS
  Collections <- MCCollections
  MaxDepth = 1
  MaxFaults = 1
  MaxRuns = 2
  Stem <- MCStem
  Key <- MCKey
  FsFold <- MCFold
  MaxWidening = 2
  Documents = {1, 2}
  FirstBodies <- MCBodies
  NewTexts <- MCTexts
  Addresses <- MCAddresses
  ForeignLines <- MCForeign
  MaxEdits = 1
  MaxUpdates = 1
  SpecProcs = {1, 2}
  SpecVersion <- MCVersions
  SpecDocs = {1, 2, 3}
  Usable <- MCUsable
  MaxSpecFaults = 2
  Connections = {1, 2}
  MaxLive = 1
  Places = 2
  Installers = {1, 2}
  MaxMeddling = 1
  DocumentUrls <- MCUrls
  MaxBytes = 3
  MaxAttempts = 2
  MaxWait = 5
  BackoffBase = 2
  MaxHops = 1
  ShownTexts <- MCTextsShown
  Screens <- MCScreens
  TabWidth = 2
  PipeSize = 2
  MaxColumns = 2
  MaxCellWidth = 3
  MaxCellClusters = 3
  MaxCellChars = 4
  MaxOps = 2
  MaxDecoded = 13
  MaxOpRecord = 4
  MaxMetaRecord = 2
  MaxBody = 12
  MaxSchemaDepth = 2
  MaxParsed = 3
  Profiles <- MCProfiles
  VarOf <- MCVarOf
  Urls <- MCAddressesOf
  MaxConfigBytes = 1
  MaxInt = 7
  Exact = 4
  MaxResponseBytes = 1
  MaxCountedNodes = 2
  Joined <- MCJoined
  MinFragment = 2
  Threads = {1, 2}
  Cost = 2
  Burst = 2
  MaxClock = 8
  MaxDraws = 6
  Readable = {"rows", "table", "body", "fields", "schema", "description", "settings", "doctor", "call", "discovery",
              "comments", "comment update", "collections", "view", "server text"}
  Questions <- MCQuestions
INVARIANTS
  CommandsTypeOK
  ExportIsDurable
  ExportIsComplete
  SpecCacheIsSound
  LoopbackIsSound
  InstallIsHonest
  FetchHonest
  RateIsKept
  OutputIsHonest
  TablesAreSound
  CredentialsStayHome
  ReportAgrees
PROPERTIES
  NothingClobbered
  UpdateIsSafe
  OnlyTheSection
  SyncTakesEffect
\* A command that has ended does nothing more.
CHECK_DEADLOCK FALSE
