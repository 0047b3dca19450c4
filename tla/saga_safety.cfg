SPECIFICATION FairSpec
CONSTANTS
    NumSagas = 2
    NumSteps = 4
    Compensable <- FirstAndThird
    Continuing <- FirstSaga
    Errors = TRUE
    CompensationCancels = TRUE
    CallerCancels = TRUE
    MaxRounds = 2
INVARIANTS
    TypeOK
    FailureTellsAll
    FailureIsContained
PROPERTIES
    ImplementsBackout
    ImplementsScope
    AllEnd
CHECK_DEADLOCK FALSE
