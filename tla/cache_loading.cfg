SPECIFICATION Spec
CONSTANTS
    c1 = c1
    c2 = c2
    k1 = k1
    k2 = k2
    k3 = k3
    NoKey = NoKey
    Clients = {c1, c2}
    Keys = {k1, k2, k3}
    MaxSize = 2
    TTL = 1
    MaxVersion = 1
    MaxCount = 1
INVARIANTS
    Bookkeeping
PROPERTIES
    EvictsByStrategy
    TellsTheVictim
    EventuallyFresh
