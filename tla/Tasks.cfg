CONSTANTS
    scheduler = scheduler
    dispatcher = dispatcher
    NumOps = 2
    Schedulers = {scheduler}
    Dispatchers = {dispatcher}
    Limit <- LimitOf
    MaxRetries = 2
    MaxBackoff = 1000
    Strategy = "last_writer_wins"
    MaxFaults = 1
    NumJobs = 2
    PriorityOf <- PrioritiesOf
    JobWorkers = {v, w}
    JobRetries = 2
    MaxJobFaults = 1
    MaxCancels = 1
    PolledAccounts = {a, b}
    Interval = 1
    Base = 1
    BackoffCap = 2
    Width = 8
    Lapses = {1}
    MaxFailures = 3
    Turns = {1, 2}
    ChatSessions = {s, t}
    OpenTools = {"open"}
    GatedTools = {"gated"}
    MaxHistory = 3
    MaxRounds = 2
    MaxDeletes = 1
    Gone = Gone
    Models = {"m1", "m2"}
    Default = "m1"
    Switchers = {"x"}
    ModelCallers = {"y"}
    MaxRestarts = 1
SPECIFICATION Spec
INVARIANTS QueueInv JobsInv PollInv ChatInv RouterInv
PROPERTIES NeverTakenBack WorkEnds
CHECK_DEADLOCK FALSE
