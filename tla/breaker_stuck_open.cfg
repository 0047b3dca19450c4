SPECIFICATION CalmSpec
CONSTANTS
    c1 = c1
    c2 = c2
    Callers = {c1, c2}
    FailureThreshold = 2
    SuccessThreshold = 2
    ResetTimeout = 2
    CountCap = 3
    ManualReset = TRUE
    ManualTrip = FALSE
    BlockErrors = FALSE
PROPERTY OpenEnds
