CONSTANTS
    m1 = m1  m2 = m2  r1 = r1  r2 = r2
    Nobody = Nobody  NoMail = NoMail
    Messages = {m1}
    Notices = {}
    Readers = {r1}
    Kind = "pi"
    Faults = {"close"}
    MaxFaults = 0
    MaxHooks = 0
SPECIFICATION Spec
INVARIANT NoMailLost
CHECK_DEADLOCK FALSE
