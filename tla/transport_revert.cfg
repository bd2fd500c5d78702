CONSTANTS
    s1 = s1  s2 = s2
    Sessions <- Terminals
    TypedAt = {}
    MaxKeys = 0
    MaxHeld = 1
    MaxSubs = 3
    Faults <- AnyFault
    MaxFaults = 0
SPECIFICATION Spec
INVARIANT RevertLeavesCloud
CHECK_DEADLOCK FALSE
