SPECIFICATION Spec
CONSTANTS
  MaxJobs = 3
  MaxRetries = 0
  MaxNeed = 1
  Client = {c1}
  Requests <- ChainRequests
  SlotChoices = {}
  InitSlots = 1
  Outcomes = {"ok", "fail"}
  MaxFinished <- Unlimited
  Ops = {}
INVARIANTS
  SuccessRequired
CHECK_DEADLOCK FALSE
