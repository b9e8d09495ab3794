SPECIFICATION FairSpec
CONSTANTS
    ann = ann
    bob = bob
    cyd = cyd
    dan = dan
    r1 = r1
    r2 = r2
    r3 = r3
    r4 = r4
    i1 = i1
    Users = {ann, bob, dan, cyd}
    Invitations = {i1}
    Requests = {r1, r2, r3, r4}
    Asks <- MCAsks
    InitialRoles <- MCInitialRoles
    NoRole = NoRole
    NoUser = NoUser
    NoInv = NoInv
INVARIANTS
    TypeOK
    RolesAreGranted
    ManagedChangesTraced
PROPERTIES
    LastOwnerLostOnlyOnStaleReads
    OwnerDemotedByOwner
    RoleChangedOnlyByRoleChange
    RevokedInvitationGrantsNothing
    RequestsFinish
CHECK_DEADLOCK FALSE
