SPECIFICATION Spec
CONSTANTS
  Session = {s1, s2}
  NoSession = none
  MaxSessionsInMemory = 1
  MinResidentSessions = 1
  MaxEvents = 3
  MaxFaults = 1
SYMMETRY Sessions
INVARIANTS
  NoSilentLoss
  DeletedStaysDeleted
  FlushSavesAll
CHECK_DEADLOCK FALSE
