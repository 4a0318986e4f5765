SPECIFICATION Spec
CONSTANTS
    Keys = {k1, k2, k3}
    Identities = {alice, bob}
    Scopes = {2}
    InvitationKinds = {"open"}
    None = None
    MaxPage = 1
    MaxRecords = 5
    MaxRefusals = 1
    MaxTime = 1
    MaxGames = 1
    MaxRefusedTotal = 1
SYMMETRY Interchangeable
INVARIANTS
    OneIdentityPerGame
    AuthorityExclusive
    LocalActsHaveForce
    PreviewErrsOnlyOnCollision
PROPERTIES
    SeatOwnershipStable
    RefusedChangesNothing
CHECK_DEADLOCK FALSE
