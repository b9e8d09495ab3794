SPECIFICATION FairSpec
CONSTANTS
    r1 = r1
    r2 = r2
    r3 = r3
    old = old
    Requests = {r1, r2, r3}
    Olds = {old}
    Asks <- MCAsks
    Aging = {old}
    MaxStep = 3
    None = None
INVARIANTS
    TypeOK
    SpentCodeRefused
    DoubleSubmitOpensOne
    VerifiedUnlessRaced
    CodesOnlyWhileEnabled
PROPERTIES
    RevokedStaysRevoked
    RequestsFinish
CHECK_DEADLOCK FALSE
