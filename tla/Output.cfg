SPECIFICATION FairSpec
CONSTANTS
  Retries = 1
  MaxChunks = 1
  MaxPolls = 1
  MaxLoads = 2
INVARIANTS
  FollowSeesAll
  NoFalseAlarm
  SweepSpares
  PagerTellsAll
PROPERTIES
  FollowEnds
  PagerStops
CHECK_DEADLOCK FALSE
