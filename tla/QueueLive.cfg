SPECIFICATION FairSpec
CONSTANTS
  MaxJobs = 3
  MaxRetries = 1
  MaxNeed = 2
  Client = {c1}
  Requests <- SteadyRequests
  SlotChoices = {1}
  InitSlots = 2
  Outcomes = {"fail"}
  MaxFinished = 0
  Ops = {"wait", "slots"}
PROPERTIES
  NoOvertaking
  StartFits
  EveryJobEnds
  WaitAnswered
CHECK_DEADLOCK FALSE
