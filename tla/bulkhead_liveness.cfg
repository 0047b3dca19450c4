SPECIFICATION FairSpec
CONSTANTS
    c1 = c1
    c2 = c2
    c3 = c3
    c4 = c4
    Calls = {c1, c2, c3, c4}
    MaxConcurrentCalls = 1
    MaxWaitingCalls = 2
    TimedWait = FALSE
    ListenerErrors = FALSE
PROPERTY EveryCallEnds
