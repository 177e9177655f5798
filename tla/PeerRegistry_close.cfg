SPECIFICATION Spec
CONSTANTS
    Conn = {c1, c2}
    Remote = {X}
    Boot = {peer0}
    ISSI = {i1}
    NoConn = NoConn
CHECK_DEADLOCK FALSE
INVARIANTS
    ClosedOnce
