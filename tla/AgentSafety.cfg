SPECIFICATION Spec
CONSTANTS
    Procs = {p1, p2}
    Custodies = {c1, c2}
    Keys = {k1, k2}
    None = None
    NotConfirmed = NotConfirmed
    Breaks = {"command", "publication"}
    MaxDecisions = 3
    MaxFaults = 2
SYMMETRY Symmetry
INVARIANTS
    OutcomeRecoverable
    OneRecordPerDecision
    OneIdentityPerCustody
    SettledStands
PROPERTIES
    KeepsPromise
CHECK_DEADLOCK FALSE
