SPECIFICATION FairSpec
CONSTANTS
    Acts = {a1, a2, a3}
    ForeignActs = {}
    Outsiders = {}
    None = None
    MaxHistory = 2
    MaxFaults = 4
INVARIANTS
    OneActPending
    PublishedIsOnForge
    NeverLockedOut
PROPERTIES
    PendingDelivered
