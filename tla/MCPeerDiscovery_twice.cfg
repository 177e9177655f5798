SPECIFICATION Spec
CONSTANTS
    Server = {"a", "b", "c"}
    Configured <- Chain
    Advertised = {"a", "b", "c"}
    MaxBreaks = 1
CHECK_DEADLOCK FALSE
INVARIANTS
    DialledOnce
