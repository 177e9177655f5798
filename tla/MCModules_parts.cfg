SPECIFICATION MCSpec
CONSTANTS
    Call = {k1}
    MaxConcurrent = 1
    MaxFlaps = 1
    Speech = {"a"}
    EchoEvents = 4
    EchoFrames = 2
    EchoQueue = 1
    Talk = {r1, r2}
    From <- Networks
    Licensed = {r1}
    Echoes = {"BM"}
    DmrEvents = 3
    Sources = 2
    RestartAfter = 3
    RadioEvents = 3
    Spoken = {"a"}
    ZelloFrames = 1
    ZelloEvents = 4
CHECK_DEADLOCK FALSE
INVARIANTS
    EchoSound
    MirrorsSound
    RadioSound
    ZelloSound
PROPERTIES
    LegsEnd
    ModulesSettle
