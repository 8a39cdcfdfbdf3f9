CONSTANTS
    NumAccounts = 1
    j1 = j1
    j2 = j2
    Jobs = {j1}
    MaxSeq = 5
    InitialRows <- PlanOne
    MailCount <- MailOne
    PageSize = 1
    ListLimit = 10
    OptionSets <- RequestsLow
    Faults = {}
    MaxCrashes = 0
    MayRefresh = TRUE
    Groups = {"news"}
    NoGroup = NoGroup
    NoRow = NoRow
    NoJob = NoJob
SPECIFICATION Spec
CHECK_DEADLOCK FALSE
PROPERTY RefreshSparesRunningJobs
