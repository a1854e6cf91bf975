SPECIFICATION FairSpec
CONSTANTS
  MaxStarts = 2
  MaxCalls = 2
  MaxFaults = 2
INVARIANTS
  AnswersMatch
PROPERTIES
  CallsEnd
  StartSettles
  DeactivationLeavesNoCore
CHECK_DEADLOCK FALSE
