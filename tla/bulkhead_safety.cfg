SPECIFICATION Spec
CONSTANTS
    c1 = c1
    c2 = c2
    c3 = c3
    c4 = c4
    Calls = {c1, c2, c3, c4}
    MaxConcurrentCalls = 2
    MaxWaitingCalls = 1
    TimedWait = TRUE
    ListenerErrors = TRUE
SYMMETRY Symmetry
INVARIANTS
    TypeOK
    ConcurrencyLimit
    PermitAccounting
    GaugeAccounting
    StatisticsBalance
PROPERTIES
    RefusedOnlyWhenSaturated
    ImplementsGate
