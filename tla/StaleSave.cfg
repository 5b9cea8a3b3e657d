SPECIFICATION Spec
CONSTANTS
  Ticket = {t1, t2}
  Handler = {h1, h2}
  Sched = sched
  None = none
  Exit = exit
  MaxStops = 1
  Crashes = FALSE
  Faults = FALSE
INVARIANTS
  ServedSurvives
CHECK_DEADLOCK FALSE
