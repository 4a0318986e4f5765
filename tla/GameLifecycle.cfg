SPECIFICATION Spec
CONSTANTS
    Keys = {k1, k2}
    Identities = {}
    Scopes = {0}
    InvitationKinds = {"open", "key", "secret"}
    None = None
    MaxRecords = 5
    MaxRefusals = 1
    MaxTime = 0
    MaxGames = 2
    MaxRefusedTotal = 2
    MaxPage = 1
SYMMETRY Interchangeable
INVARIANTS
    RefusalsAccounted
    ChainOrder
    OfferFreshness
    PagesCoverGames
PROPERTIES
    FinishedIsFinal
CHECK_DEADLOCK FALSE
