SPECIFICATION FairSpec
CONSTANTS
    Sid = {"s1"}
    ISSI = {}
    PushAt = {"A"}
    DeleteAt = {"B"}
    MaxTime = 2
    StaleAfter = 1
    AutoCreate = FALSE
    NetCap = 2
CHECK_DEADLOCK FALSE
PROPERTIES
    DeletedStaysGone
