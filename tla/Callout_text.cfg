SPECIFICATION Spec
CONSTANTS
    Operator = {"o1"}
    Radio = {"r1"}
    Counter = 3
    Wire = 2
    MaxMessages = 3
CHECK_DEADLOCK FALSE
PROPERTIES
    TextRelayed
