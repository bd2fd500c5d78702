CONSTANTS
    q1 = q1  q2 = q2
    Questions = {q1, q2}
    Channels <- AQuestionAndARequest
    Retention = 0
    Faults <- AnyFault
    MaxFaults = 1
    MaxWaiting = 3
    MaxEvents = 3
SPECIFICATION FairSpec
INVARIANTS ToldTrue NoticedOnce
PROPERTIES ResolvedOnce NoticeTrue IdleTold
CHECK_DEADLOCK FALSE
