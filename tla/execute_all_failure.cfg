SPECIFICATION TaskSpec
CONSTANTS
    c1 = c1
    c2 = c2
    c3 = c3
    c4 = c4
    c5 = c5
    Call = {c1, c2, c3, c4, c5}
    Outer <- Nested
    Blocks <- List
    Operations = {"execute", "executeOrNull"}
    MaxRetries = 0
    ListenerErrors = FALSE
    Resets = FALSE
    Racers = {r1, r2, r3}
    None = None
INVARIANT FailedIsNull
CHECK_DEADLOCK FALSE
