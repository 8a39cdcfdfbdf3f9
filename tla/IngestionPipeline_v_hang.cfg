CONSTANTS
    NumEmails = 3
    Owner <- OneAccount
    BatchSize = 2
    Buffer = 1
    MaxRuns = 1
    MaxFailures = 0
    Faults = {"embed"}
SPECIFICATION FairSpec
CHECK_DEADLOCK FALSE
PROPERTIES
    FailedBatchIsSaved
