SPECIFICATION CalmSpec
CONSTANTS
    c1 = c1
    c2 = c2
    c3 = c3
    Callers = {c1, c2, c3}
    FailureThreshold = 2
    SuccessThreshold = 2
    ResetTimeout = 2
    CountCap = 2
    ManualReset = TRUE
    ManualTrip = TRUE
    BlockErrors = TRUE
INVARIANTS
    TypeOK
    NoLostTransition
PROPERTIES
    LegalTransitions
    OneAfterTheOther
    CalmOpenEnds
    CalmHalfOpenEnds
