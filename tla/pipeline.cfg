CONSTANTS
    caller = caller
    Callers = {caller}
    MaxQueued = 3
    MaxPackets = 2
    MaxBytes = 2
    Sizes = {1, 3}
    MaxPerJob = 2
    MaxJobs = 4
SPECIFICATION FairSpec
INVARIANTS WindowHeld SentInOrder
PROPERTIES BacklogDrains IdleAnswered
CHECK_DEADLOCK FALSE
