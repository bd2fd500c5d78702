CONSTANTS
    s1 = s1  s2 = s2
    Sessions <- Terminals
    TypedAt = {s1}
    MaxKeys = 2
    MaxHeld = 1
    MaxSubs = 2
    Faults <- AnyFault
    MaxFaults = 1
SPECIFICATION Spec
INVARIANTS PathsAgree NeverPinned KeysKept WatchesAgree LoopAlive
CHECK_DEADLOCK FALSE
