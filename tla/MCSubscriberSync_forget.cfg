SPECIFICATION FairSpec
CONSTANTS
    a = a
    b = b
    c = c
    x = x
    y = y
    Server = {a, b, c}
    Link <- FullMesh
    Client = {x}
    Home <- HomeOf
    ISSI = {r1}
    GSSI = {g1}
    MsgId = {m1}
    MaxMsgs = 3
    MaxBreaks = 0
    None = None
CHECK_DEADLOCK FALSE
PROPERTIES
    DeregisteredForgotten
