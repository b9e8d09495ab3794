SPECIFICATION FairSpec
CONSTANTS
    w1 = w1
    w2 = w2
    w3 = w3
    Workers = {w1, w2, w3}
    Processes = {"a", "b", "c"}
    Crews <- MCCrews
    Ttl = 2
    MaxQueue = 1
    MaxCrashes = 1
INVARIANTS
    TypeOK
    UnitsExclusive
    ActivationLogged
PROPERTIES
    GateKept
    DigestsGoOn
