CONSTANTS
    m1 = m1  m2 = m2  r1 = r1  r2 = r2
    Nobody = Nobody  NoMail = NoMail
    Messages = {m1, m2}
    Notices = {m2}
    Readers = {r1}
    Kind = "codex"
    Faults = {"io", "stop", "close"}
    MaxFaults = 1
    MaxHooks = 0
SPECIFICATION CodexFairSpec
INVARIANTS ClaimHasOwner ClaimUndisturbed SafeWhileServed
PROPERTY CodexDelivers
CHECK_DEADLOCK FALSE
