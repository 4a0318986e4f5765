SPECIFICATION Spec
CONSTANTS
    Procs = {p1}
    Custodies = {c1}
    Keys = {k1}
    None = None
    NotConfirmed = NotConfirmed
    Breaks = {"command", "publication"}
    MaxDecisions = 1
    MaxFaults = 2
INVARIANTS
    RetryFindsRetained
CHECK_DEADLOCK FALSE
