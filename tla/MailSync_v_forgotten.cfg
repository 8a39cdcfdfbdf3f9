CONSTANTS
    m1 = m1
    Msgs = {m1}
    Poll = poll
    Manual = {request}
    Senders = {}
    Nobody = nobody
    HistoryPage = 2
    MaxLog = 3
    MaxFailures = 0
    MayExpire = TRUE
SPECIFICATION Spec
CHECK_DEADLOCK FALSE
INVARIANTS
    ForgottenMarkerCleared
