CONSTANTS
    m1 = m1  m2 = m2  r1 = r1  r2 = r2
    Nobody = Nobody  NoMail = NoMail
    Messages = {m1}
    Notices = {}
    Readers = {r1}
    Kind = "legacy"
    Faults = {"early_close", "exit", "stop", "crash"}
    MaxFaults = 1
    MaxHooks = 1
SPECIFICATION FairSpec
PROPERTIES QuietAfterStop MailWakes ReadsAnswered
CHECK_DEADLOCK FALSE
