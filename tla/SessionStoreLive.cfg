SPECIFICATION FairSpec
CONSTANTS
  Session = {s1, s2}
  NoSession = none
  MaxSessionsInMemory = 1
  MinResidentSessions = 1
  MaxEvents = 2
  MaxFaults = 1
PROPERTIES
  RefinesLedger
  EventuallyDurable
CHECK_DEADLOCK FALSE
