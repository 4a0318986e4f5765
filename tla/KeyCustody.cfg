SPECIFICATION Spec
CONSTANTS
    Processes = {p1, p2}
    MaxFiles = 3
    MaxFaults = 2
SYMMETRY Interchangeable
INVARIANTS
    OneKey
    NameHoldsWholeKey
    NoSilentCopy
    NoForeignKey
CHECK_DEADLOCK FALSE
