CONSTANTS
    Mails = {1, 2}
    Runs = {p, q}
    Ids = {1, 2, 3, 4, 5, 6}
    Threshold = 1
    MinMails = 1
    MaxPins = 0
    MaxClears = 0
    MaxPersistFaults = 0
    MaxLoads = 0
SPECIFICATION TopicSpec
INVARIANT NoCircularWait
CHECK_DEADLOCK FALSE
