CONSTANTS
    NumAccounts = 2
    j1 = j1
    j2 = j2
    Jobs = {j1}
    MaxSeq = 4
    InitialRows <- PlanTwo
    MailCount <- MailTwo
    PageSize = 1
    ListLimit = 10
    OptionSets <- RequestsTwo
    Faults = {"create", "update", "list", "append", "expand", "persist", "paused", "reject"}
    MaxCrashes = 1
    MayRefresh = TRUE
    Groups = {"news"}
    NoGroup = NoGroup
    NoRow = NoRow
    NoJob = NoJob
SPECIFICATION FairSpec
CHECK_DEADLOCK FALSE
INVARIANTS
    TypeOK
    AuditIsTruthful
    CountsAreHonest
    ActiveWorkersAreVisible
PROPERTIES
    TerminalJobsStay
    JobsEnd
