CHECK_DEADLOCK FALSE
SPECIFICATION FormsSpec
CONSTANTS
    i1 = i1
    None = None
    Tab = {t1}
    Ip = {i1}
    IpOf <- MCIpOf
    MaxPerWindow = 2
    MaxBuckets = 1
    Window = 2
    EmailCap = 1
    MaxNow = 3
    MaxPosts = 2
    MaxHints = 5
INVARIANTS
    ThrottleBound
    ConfirmedOnce
    ReceivedIsOnFile
