SPECIFICATION Spec
CONSTANTS
  Region = {r1, r2}
  Change = {k1, k2}
  Task = {t1, t2}
  NoChange = none
  MaxRepeats = 1
  MaxInputs = 3
  MaxFaults = 1
SYMMETRY Symmetry
INVARIANTS
  NothingLost
  SettledAgree
  NewestIsFile
  NoPhantomChange
CHECK_DEADLOCK FALSE
