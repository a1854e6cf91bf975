SPECIFICATION Spec
CONSTANTS
  Nil = Nil
  Firing = {"f1", "f2"}
  KindOf <- LogKind
  MaxInMemory = 2
  MaxFileLines = 1
  MaxLogFiles = 2
  MaxKeys = 1
  MaxEntries = 3
  MaxSweeps = 1
  Content = {"a", "empty"}
  EmptyContent = "empty"
  NoContent = "none"
  MaxVersions = 2
  MaxNumber = 3
  MaxEdits = 1
  Spawn = {"s1", "s2"}
  Agent = {"a1", "a2"}
  NameOf <- SpawnName
  NamesIn <- NamesInId
  TurnOf <- Turn
  MaxAgents = 2
  MaxEvents = 4
  MaxLate = 1
  Swept = {"s1"}
  MaxAge = 1
  MaxDay = 4
  MaxActs = 3
  TrayItem = {"i1", "i2"}
  MaxOps = 3
  Session = {"x", "y"}
  MaxPayloads = 3
  MaxHooks = 2
  MaxTime = 1
  Doc = {1, 2, 3}
  Term = {"t", "u"}
  TermsOf <- DocTerms
  MaxItems = 2
  MaxRuns = 2
  Call = {"c", "d"}
  Prompt = {"p"}
  Anonymous = {"d"}
  Window = 3
  MaxFlying = 2
  MaxFeedTime = 2
  MaxAsked = 2
  Logged = {"x"}
  Delivered = {"x"}
  MaxClicks = 4
  MaxRefusals = 1
  ListChange = {"c"}
  MaxOpens = 3
  MaxExits = 2
  MaxRestarts = 1
  MaxCrashes = 1
INVARIANTS
  TypeOK
  NothingStoredLost
  ClearedStaysCleared
  OnePerFiring
  NumberNamesOneContent
  HistoryKept
  LinkedOneToOne
  StopEnds
  NobodyDisappears
  PrunedIsPreserved
  TrayIsSerial
  SpentStaysSpent
  IndexAgrees
  CleanIsSaved
  FeedAgrees
  ShownIsSelected
  ListAgrees
PROPERTY
  ActiveSessionsStay
CHECK_DEADLOCK FALSE
