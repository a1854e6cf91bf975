SPECIFICATION FairSpec
CONSTANTS
  c1 = c1
  c2 = c2
  edit = edit
  Call <- MCCall
  NoCall = none
  Verdict = {"completed"}
  ToolOf <- MCToolOf
  Transports = 2
  IdleTimeout = 1
  CompletedTimeout = 1
  StuckTimeout = 1
  LastSend = 1
  MaxTime = 2
INVARIANTS
  CrossPairsOnlyStray
PROPERTIES
  OutcomeIsFinal
  NothingRunsForever
  QuietSessionEnds
CHECK_DEADLOCK FALSE
