SPECIFICATION FairSpec
CONSTANTS
    Conn = {1, 2}
CHECK_DEADLOCK FALSE
PROPERTIES
    HangUpReaches
