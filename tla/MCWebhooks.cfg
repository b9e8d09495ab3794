SPECIFICATION FairSpec
CONSTANTS
    r1 = r1
    t1 = t1
    t2 = t2
    k1 = k1
    k2 = k2
    Requests = {r1}
    Tasks = {t1, t2}
    Channels = {k1, k2}
    MaxFaults = 1
INVARIANTS
    TypeOK
    OneSubscription
PROPERTIES
    FallsSilent
    DeliveryHeals
