SPECIFICATION LocalSpec
CONSTANTS
    a = a
    b = b
    s1 = s1
    s2 = s2
    g1 = g1
    g2 = g2
    group = group
    region = region
    x = x
    y = y
    None = None
    Absent = Absent
    Broken = Broken
    Blank = Blank
    Garbled = Garbled
    Users = {u, v}
    CtxJobs <- CtxCommands
    CfgJobs <- CfgCommands
    TunJobs <- TunCommands
    Names = {a, b}
    Subs = {s1, s2}
    Groups = {g1, g2}
    Default = b
    Keys = {group, region}
    Defaults <- BuiltIn
    Own <- Edited
    GroupKey = group
    Inodes = {1, 2, 3, 4}
    Vms = {x, y}
    Pids = {p, q, r}
    MaxPorts = 2
INVARIANTS
    
    FilesStay
    TunnelsStay
SYMMETRY Symmetry
CHECK_DEADLOCK FALSE
