SPECIFICATION MCSpec
CONSTANTS
    Sid = {"s1", "s2"}
    ISSI = {1}
    PushAt = {"A"}
    DeleteAt = {"A"}
    StationTime = 2
    StaleAfter = 0
    AutoCreate = TRUE
    NetCap = 1
    Client = {"c1", "c2"}
    Cap = 1
    Casts = 2
    User = {"u1", "u2"}
    Nonce = {"k1", "k2"}
    Token = {"t1"}
    TokenTTL = 1
    AdmissionTime = 3
    MaxAttempts = 2
    AuthWindow = 2
    BanDuration = 2
    Call <- Calls
    From <- CallFrom
    To <- CallTo
    Session = {"c1", "c2"}
    Alias <- OneAlias
    Radios = {"r1", "r2"}
    Endpoints = {"e1"}
    Groups = {"g1"}
    HintTTL = 1
    HintTime = 3
    Input <- Messages
    Operator = {"o1", "o2"}
    Radio = {"r1"}
    Counter = 3
    Wire = 2
    MaxMessages = 3
    RingMax = 2
    BoxMax = 2
    HeardMax = 2
    Span = 2
    CallId = {"a", "b", "c"}
    GSSI = {0, 1, 2, 3}
    MaxEvents = 5
    Packet <- Packets
    Spoken <- Statements
    CallRoute <- OneCall
    MaxHops = 2
CHECK_DEADLOCK FALSE
INVARIANTS
    SessionsSound
    AdmissionSound
    Anchored
    ShownLive
    SdsArrives
    RelayFaithful
    BuffersSound
PROPERTIES
    StationsSound
    StationDeletes
    BrokenEnds
    HangUpHeard
    FreshHintKept
    CalloutsSound
