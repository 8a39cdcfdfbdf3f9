CONSTANTS
    a1 = a1
    a2 = a2
    Accounts = {a1, a2}
    MaxOps = 2
    Capacity = 2
    MaxFaults = 2
    PersistFails = TRUE
    CanCrash = TRUE
SPECIFICATION Spec
CHECK_DEADLOCK FALSE
INVARIANTS
    TypeOK
    ShowsWhatHappened
PROPERTY ClientSettles
