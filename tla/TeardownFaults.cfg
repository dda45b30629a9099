SPECIFICATION UnbuiltSpec
CONSTANTS
    m1 = m1  m2 = m2  solo = solo
    VMs = {m1, solo}
    Users = {u1}
    NoVm = NoVm  NoTag = NoTag  PoolTag = PoolTag
    PoolMembers = {m1}
    Prefixed = {m1}
    Programs = {"destroy", "killall"}
    Reruns = TRUE  Creates = FALSE  Faults = TRUE  Lag = TRUE  Sharing = TRUE
PROPERTIES SuccessMeansReclaimed DependenciesFirst
