SPECIFICATION Spec
CONSTANTS
    Actors = {a1, a2}
    Witnesses = {w1, w2}
    None = None
    TTL = 1
    MaxPending = 1
    MaxTokens = 3
    MaxRecords = 3
    MaxTime = 1
    MaxFaults = 2
SYMMETRY Interchangeable
INVARIANTS
    CreatedHasForce
    WitnessRechecked
    OneAnchorPerProof
CHECK_DEADLOCK FALSE
