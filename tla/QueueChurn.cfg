SPECIFICATION Spec
CONSTANTS
  MaxJobs = 2
  MaxRetries = 1
  MaxNeed = 2
  Client = {c1}
  Requests <- MixedRequests
  SlotChoices = {}
  InitSlots = 2
  Outcomes = {"ok", "fail", "timeout"}
  MaxFinished = 0
  Ops = {"remove", "urgent", "swap", "clear", "wait", "after", "rerun"}
INVARIANTS
  TypeOK
  ProcessOwned
  NoDoubleStart
  RunningHasOwner
  AnswerIsFinal
  NoLostWakeup
PROPERTIES
  KeepsPromises
CHECK_DEADLOCK FALSE
