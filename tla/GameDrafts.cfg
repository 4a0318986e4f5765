SPECIFICATION Spec
CONSTANTS
    Tabs = {t1, t2}
    None = None
    DraftTTL = 1
    MaxDrafts = 1
    MaxPrepared = 2
    MaxOthers = 1
    MaxTime = 1
    MaxFaults = 2
SYMMETRY Interchangeable
INVARIANTS
    TypeOK
    OneRecordPerDraft
PROPERTIES
    RefusalIsFinal
    KeepsPromise
CHECK_DEADLOCK FALSE
