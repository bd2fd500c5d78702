CONSTANTS
    m1 = m1  m2 = m2  h1 = h1  h2 = h2
    None = None  NoHead = NoHead
    Mail = {m1}
    Heads = {h1}
    Verdicts = {"failed"}
    MaxStored = 1
    MaxOrdinal = 2
    MaxLinks = 2
    MaxTears = 1
SPECIFICATION FairSpec
INVARIANTS NoticesAreNews AckedSurvivesWhole
PROPERTIES NoticesAnnounced NoticeForCurrentLink
CHECK_DEADLOCK FALSE
