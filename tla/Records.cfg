CONSTANTS
    Callers = {c, d}
    MaxGrants = 4
    MaxTokenFaults = 1
    DataAccounts = {"acc"}
    MaxCrashes = 1
    CloudTypes = {"openai", "gemini"}
    Requests = {p, q}
    MaxConsentRestarts = 1
    Emails = {"e1", "e2"}
    Clients = {v, w}
    FolderTargets = {"TRASH"}
    LabelTargets = {"l1", "l2"}
    RuleOps = {"rule archive", "rule star", "rule delete", "rule purge", "rule add", "rule remove"}
    HeldMail = {"e2"}
    MaxActions = 3
    MaxProviderFaults = 1
    Mails = {1}
    Runs = {r1, r2}
    Ids = {1, 2, 3, 4, 5, 6}
    Threshold = 1
    MinMails = 1
    MaxPins = 1
    MaxClears = 1
    MaxPersistFaults = 1
    MaxLoads = 1
    Letters = {1}
    EmbedModels = {"a", "b"}
    MaxBoots = 3
    MaxReembeds = 1
    MaxBootFaults = 2
    PlanAccounts = {"ga", "po"}
    MailsOf <- MailsOfAccount
    ProviderOf <- Providers
    RuleFirst <- FirstActions
    PlanClusters = {"c1", "c2"}
    Selections <- Chosen
    BulkLimit = 1
    MaxHistory = 2
    MaxSyncs <- SyncLimit
    MaxLocal = 1
    Messages = {a, b}
    Pipelines = {s, t}
    Interval = 2
    MaxCalls = 3
    MaxStops = 1
    MaxUpsets = 1
SPECIFICATION Spec
INVARIANTS TokenInv DataInv ConsentInv MailboxInv TopicInv EmbedInv PlanInv IndexInv
CHECK_DEADLOCK FALSE
