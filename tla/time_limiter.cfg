SPECIFICATION TaskSpec
CONSTANTS
    c1 = c1
    c2 = c2
    c3 = c3
    c4 = c4
    c5 = c5
    Call = {c1, c2, c3, c4, c5}
    Outer <- Nested
    Blocks <- List
    Operations = {"execute", "executeOrNull", "executeOrFallback", "executeOrDefault"}
    MaxRetries = 1
    ListenerErrors = TRUE
    Resets = TRUE
    Racers = {r1, r2, r3}
    None = None
INVARIANTS
    TypeOK
    StatisticsBalance
    CancelledCallsThrow
    TimeoutStaysInChain
    NoneRunsOn
CHECK_DEADLOCK FALSE
PROPERTIES
    CancelledIsNotRetried
    AllImplementsScope
    TasksEnd
