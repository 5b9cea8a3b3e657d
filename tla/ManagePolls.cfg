SPECIFICATION FairSpec
CONSTANTS
  Session = {0, 1, 2}
  Group = {0, 1, 2}
  MaxJobs = 4
  MaxPolls = 2
  MaxChanges = 1
  MaxEdits = 0
  Asks = TRUE
  Begin <- Busy
  Typed = {2}
  TypedGroups = {2}
PROPERTIES
  JobsViewComes
  TreeCatchesUp
\* The bounds stop it.
CHECK_DEADLOCK FALSE
