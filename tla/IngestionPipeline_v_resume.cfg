CONSTANTS
    NumEmails = 3
    Owner <- OneAccount
    BatchSize = 1
    Buffer = 1
    MaxRuns = 2
    MaxFailures = 1
    Faults = {"embed"}
SPECIFICATION Spec
CHECK_DEADLOCK FALSE
INVARIANTS
    ResumeProcessesRest
