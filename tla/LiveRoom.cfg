SPECIFICATION Spec
CONSTANTS
    Actors = {a1, a2}
    Creator = a1
    None = None
    Requests = {r1, r2}
    MaxWaiters = 1
    MaxFrames = 1
    MaxRecords = 2
    MaxSessions = 2
    MaxMessages = 3
    MaxFaults = 2
SYMMETRY Interchangeable
INVARIANTS
    MotionsHaveAuthority
    ChatMatchesCursor
    EndedHoldsNothing
