CONSTANTS
    Faults <- AnyFault
    MaxMishaps = 3
    MaxUpdates = 2
    MaxStarts = 2
    MaxSetups = 2
SPECIFICATION FairSpec
INVARIANTS OneServes InstallsAlone NoWorkLost FailedIsOver
PROPERTY Settles
CHECK_DEADLOCK FALSE
