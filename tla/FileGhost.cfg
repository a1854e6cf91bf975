SPECIFICATION Spec
CONSTANTS
  Region = {r1}
  Change = {k1}
  Task = {t1, t2}
  NoChange = none
  MaxRepeats = 0
  MaxInputs = 2
  MaxFaults = 1
INVARIANTS
  MapHoldsPending
CHECK_DEADLOCK FALSE
