CONSTANTS
    NumEmails = 4
    Owner <- TwoAccounts
    BatchSize = 2
    Buffer = 1
    MaxRuns = 2
    MaxFailures = 1
    Faults = {"fetch", "embed", "mark", "insert", "save"}
SPECIFICATION FairSpec
CHECK_DEADLOCK FALSE
INVARIANTS
    TypeOK
    OneRun
    EmbeddedIsStored
    CompletedIsAccounted

    
