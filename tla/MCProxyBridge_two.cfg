SPECIFICATION Spec
CONSTANTS
    Call = {k1, k2}
    MaxConcurrent = 1
    MaxFlaps = 1
CHECK_DEADLOCK FALSE
SYMMETRY CallSymmetry
CONSTRAINT CallsOrLoss
INVARIANTS
    TableSound
    NoEarlyConnect
    NoOrphan
PROPERTIES
    RefinesPair
