SPECIFICATION Spec
CONSTANTS
  Call = {c, d}
  Prompt = {p}
  Anonymous = {}
  Window = 5
  MaxFlying = 1
  MaxTime = 3
  MaxAsked = 3
INVARIANT NoCallTwice
CHECK_DEADLOCK FALSE
