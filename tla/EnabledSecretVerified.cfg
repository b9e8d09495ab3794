SPECIFICATION Spec
CONSTANTS
    r1 = r1
    r2 = r2
    r3 = r3
    old = old
    Requests = {r1, r2, r3}
    Olds = {old}
    Asks <- MCAsks
    Aging = {old}
    MaxStep = 3
    None = None
INVARIANT
    EnabledSecretVerified
CHECK_DEADLOCK FALSE
