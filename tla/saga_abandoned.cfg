SPECIFICATION Spec
CONSTANTS
    NumSagas = 1
    NumSteps = 3
    Compensable <- AllSteps
    Continuing <- FirstSaga
    Errors = FALSE
    CompensationCancels = TRUE
    CallerCancels = FALSE
    MaxRounds = 1
INVARIANT CompensatesRemaining
CHECK_DEADLOCK FALSE
