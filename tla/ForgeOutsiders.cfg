SPECIFICATION Spec
CONSTANTS
    Acts = {a1, a2}
    ForeignActs = {f1}
    Outsiders = {"append", "corrupt", "rebind", "rollback"}
    None = None
    MaxHistory = 3
    MaxFaults = 2
SYMMETRY Interchangeable
INVARIANTS
    BindingNotDelivered
    PublishedVerifies
    ReadersFindTheirPrefix
PROPERTIES
    KeepsPromise
    ForgeOnlyGrows
CHECK_DEADLOCK FALSE
