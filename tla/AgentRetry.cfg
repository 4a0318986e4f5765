SPECIFICATION FairSpec
CONSTANTS
    Procs = {p1, p2}
    Custodies = {c1, c2}
    Keys = {k1}
    None = None
    NotConfirmed = NotConfirmed
    Breaks = {"command"}
    MaxDecisions = 2
    MaxFaults = 2
PROPERTIES
    RetryRecovers
CHECK_DEADLOCK FALSE
