SPECIFICATION FairSpec
CONSTANTS
  MaxPanes = 2
  MaxShells = 2
  MaxConns = 2
  MaxSent = 1
  MaxStarts = 2
INVARIANTS
  ShellsOwned
  NobodyHangs
PROPERTIES
  ScreenCatchesUp
CHECK_DEADLOCK FALSE
