SPECIFICATION Spec
CONSTANTS
    n1 = n1
    n2 = n2
    Runs = {a, b}
    Names = {n1, n2}
    Orders <- GivenOrders
    MaxPool = 2
    MaxForeign = 2
    Nobody = Nobody
INVARIANTS
    GateHolds
    
    FailureLeavesNoDisk
PROPERTIES
    NeverRepoints
SYMMETRY Symmetry
CHECK_DEADLOCK FALSE
