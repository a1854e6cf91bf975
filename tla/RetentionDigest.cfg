SPECIFICATION Spec
CONSTANTS
  Session = {s1, s2}
  None = none
  MaxAge = 1
  MaxDay = 2
  MaxActs = 2
  MaxCrashes = 1


INVARIANT SummaryHasPrompts
CHECK_DEADLOCK FALSE
