CONSTANTS
    p1 = p1  p2 = p2  p3 = p3
    Procs = {p1, p2, p3}
    Locks = {"guard", "setup"}
    Attempts = 3
    MaxUses <- OneReturns
    MayDie <- Anywhere
SPECIFICATION FairSpec
PROPERTY ImplementsOwnerLock
PROPERTY RecoverableUnlessEmptied
CHECK_DEADLOCK FALSE
