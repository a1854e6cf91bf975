SPECIFICATION Spec
CONSTANTS
  Change = {c}
  NoId = noid
  MaxOpens = 1
  MaxExits = 0
INVARIANT CountIsPending
CHECK_DEADLOCK FALSE
