SPECIFICATION Spec
CONSTANTS
  Ticket = {t1, t2}
  Handler = {h1}
  Sched = sched
  None = none
  Exit = exit
  MaxStops = 1
  Crashes = TRUE
  Faults = TRUE
INVARIANTS
  NothingForgotten
  IdsDistinct
  RunningOwned
SYMMETRY Symmetry
CHECK_DEADLOCK FALSE
