SPECIFICATION MCSpec
CONSTANTS
    a = a
    b = b
    c = c
    d = d
    Server = {a, b, c, d}
    Stream <- Kite
    MsgId = {m1}
    MaxTTL = 3
    SendBuf = 2
    NoMsg = NoMsg
    Lossy = FALSE
    LateDelivery = FALSE
    Conn = {"c1", "c2"}
    Remote = {"X"}
    Boot = {"peer0"}
    Known = {"i1"}
    NoConn = NoConn
    Pair = {1}
    Node = {a, b, c}
    Talker = a
    Line <- OneLine
    MaxSpurts = 2
CHECK_DEADLOCK FALSE
INVARIANTS
    TypeOK
    LoopFree
    HopBudget
    OncePerReadLoop
    TablesSound
    RedeemedIntact
    TalkingBound
    GroupSound
PROPERTIES
    RefinesFlood
    EveryoneHears
    FloodWithstands
    PeersResolve
    PrivateFollows
    GroupFollows
