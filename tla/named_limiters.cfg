SPECIFICATION Spec
\* The bounds of the interval and of the objects let it stop.
CHECK_DEADLOCK FALSE
CONSTANTS
    c1 = c1
    c2 = c2
    c3 = c3
    Clients = {c1, c2, c3}
    Protocols = {"ifAbsent", "reread", "overwrite"}
    MaxCreated = 2
    MaxDrops = 1
    Limiters <- MCLimiters
    BurstCapacity = 2
    GainPerMs = 2
    PermitCost = 2
    MaxWatch = 4
    MaxResets = 1
SYMMETRY Symmetry
INVARIANTS
    TypeOK
    Agreement
    RateByName
