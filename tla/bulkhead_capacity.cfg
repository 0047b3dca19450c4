SPECIFICATION Spec
CONSTANTS
    c1 = c1
    c2 = c2
    Calls = {c1, c2}
    MaxConcurrentCalls = 1
    MaxWaitingCalls = 1
    TimedWait = TRUE
    ListenerErrors = FALSE
INVARIANT CapacityIsPermits
