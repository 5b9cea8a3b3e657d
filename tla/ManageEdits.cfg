SPECIFICATION Spec
CONSTANTS
  Session = {0, 1, 2}
  Group = {0, 1, 2}
  MaxJobs = 2
  MaxPolls = 1
  MaxChanges = 2
  MaxEdits = 1
  Asks = FALSE
  Begin <- Small
  Typed = {2}
  TypedGroups = {2}
INVARIANTS
  Homes
PROPERTIES
  ActiveKept
\* The bounds stop it.
CHECK_DEADLOCK FALSE
