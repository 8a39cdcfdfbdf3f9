CONSTANTS
    NumAccounts = 1
    j1 = j1
    j2 = j2
    Jobs = {j1, j2}
    MaxSeq = 7
    InitialRows <- PlanOne
    MailCount <- MailOne
    PageSize = 1
    ListLimit = 4
    OptionSets <- RequestsAck
    Faults = {}
    MaxCrashes = 1
    MayRefresh = FALSE
    Groups = {"news"}
    NoGroup = NoGroup
    NoRow = NoRow
    NoJob = NoJob
SPECIFICATION Spec
CHECK_DEADLOCK FALSE
SYMMETRY JobSymmetry
INVARIANTS
    AppliedWasSentAndAllowed
    AtMostOncePerJob
    ChildrenWaitForNextApply
    ExpandedIsComplete
    WalkedRowsAreSettled
PROPERTIES
    ImplementsContract
