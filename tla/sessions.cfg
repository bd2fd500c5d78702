CONSTANTS
    Runtimes = {"tmux", "direct"}
    Faults <- AnyFault
    MaxFaults = 1
    MaxCommands = 3
    MaxRestarts = 1
    MaxWatches = 1
SPECIFICATION FairSpec
INVARIANTS SettledAgrees VerdictOfTheLatest
PROPERTIES FirstVerdictStands ReapSpares RunningIsReal
CHECK_DEADLOCK FALSE
