CONSTANTS
    MaxSubs = 2
    Retries <- OneRetry
    Separate = {1}
    Timed = {1}
    MaxResets = 1
SPECIFICATION FairSpec
INVARIANTS KillReaches FinishedIsOver CrossedByResetOnly OutputKept
PROPERTY TimeoutEnds
CHECK_DEADLOCK FALSE
