SPECIFICATION GroupSpec
CONSTANTS
    m1 = m1  solo = solo
    VMs = {m1, solo}
    Users = {u1, u2}
    NoVm = NoVm  NoTag = NoTag  PoolTag = PoolTag
    PoolMembers = {m1}
    Prefixed = {m1}
    Programs = {"destroy"}
    Reruns = FALSE  Creates = TRUE  Faults = FALSE  Lag = FALSE  Sharing = FALSE
    MaxCommands = 2
SYMMETRY Symmetry
INVARIANTS OnePassIsEnough PlanStaysInSession
PROPERTY SparesOtherSessions
CHECK_DEADLOCK FALSE
