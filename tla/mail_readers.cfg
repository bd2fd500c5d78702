CONSTANTS
    m1 = m1  m2 = m2  r1 = r1  r2 = r2
    Nobody = Nobody  NoMail = NoMail
    Messages = {m1, m2}
    Notices = {m2}
    Readers = {r1, r2}
    Kind = "pi"
    Faults = {"early_close", "close", "stop", "crash"}
    MaxFaults = 1
    MaxHooks = 0
SPECIFICATION Spec
SYMMETRY ReaderSymmetry
INVARIANT SelectionOwned
PROPERTY ImplementsMailbox
CHECK_DEADLOCK FALSE
