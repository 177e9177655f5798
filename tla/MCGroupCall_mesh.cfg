SPECIFICATION FairSpec
CONSTANTS
    Server = {"a", "b", "c"}
    Talker = "a"
    Link <- FullMesh
    MaxSpurts = 1
CHECK_DEADLOCK FALSE
PROPERTIES
    EndReaches
