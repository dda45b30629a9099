SPECIFICATION FairSpec
CONSTANTS
    VMs = {v1}
    Pids = {q1, q2, q3}
    Ports = {t1}
    NoVm = NoVm
    NoPid = NoPid
    NoPort = NoPort
    Programs = {"code", "close", "other"}
    Legacy = FALSE
    Recycle = TRUE
    AcceptErrors = TRUE
PROPERTIES
    HostStartsOnItsOwnTunnel
    
    StaleEntriesArePruned
CHECK_DEADLOCK FALSE
