SPECIFICATION FairSpec
CONSTANTS
    w1 = w1
    w2 = w2
    w3 = w3
    Workers = {w1, w2, w3}
    Processes = {"a", "b", "c"}
    Crews <- MCCrews
    Ttl = 1
    MaxQueue = 1
    MaxCrashes = 0
PROPERTIES
    DisabledUnitSkipped
