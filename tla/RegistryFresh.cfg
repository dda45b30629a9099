SPECIFICATION Spec
CONSTANTS
    VMs = {v1, v2}
    Pids = {q1, q2, q3}
    Ports = {t1, t2}
    NoVm = NoVm
    NoPid = NoPid
    NoPort = NoPort
    Programs = {"session", "private", "code", "close", "closeAll"}
    Legacy = TRUE
    Recycle = FALSE
    AcceptErrors = FALSE
SYMMETRY Symmetry
INVARIANTS
    RegistryTruthful
PROPERTIES
    TakenPortsReachTheirVm
    CloseSparesOthers
CHECK_DEADLOCK FALSE
