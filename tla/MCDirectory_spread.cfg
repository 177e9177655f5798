SPECIFICATION MCSpec
CONSTANTS
    a = a
    b = b
    c = c
    x = x
    y = y
    Server = {a, b, c}
    Link <- Line
    Client = {x, y}
    Home <- HomeOf
    ISSI = {r1}
    GSSI = {g1}
    MsgId = {m1}
    MaxMsgs = 2
    MaxBreaks = 1
    None = None
CHECK_DEADLOCK FALSE
PROPERTIES
    RegisteredSpreads
    Discovery
INVARIANTS
    TablesTrue
