CONSTANTS
    m1 = m1
    Msgs = {m1}
    Poll = poll
    Manual = {request}
    Senders = {send}
    Nobody = nobody
    HistoryPage = 2
    MaxLog = 3
    MaxFailures = 1
    MayExpire = TRUE
SPECIFICATION FairSpec
CHECK_DEADLOCK FALSE
INVARIANTS
    TypeOK
    LockedAlone
    
PROPERTIES
    LockIsFreed
