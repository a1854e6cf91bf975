SPECIFICATION Spec
CONSTANTS
  c1 = c1
  c2 = c2
  edit = edit
  Call <- MCCall
  NoCall = none
  Verdict = {"completed", "failed"}
  ToolOf <- MCToolOf
  Transports = 2
  IdleTimeout = 1
  CompletedTimeout = 2
  StuckTimeout = 1
  LastSend = 1
  MaxTime = 3
INVARIANTS
  PairingIsExact
CHECK_DEADLOCK FALSE
