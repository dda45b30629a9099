SPECIFICATION ListSpec
CONSTANTS
    s1 = s1  s2 = s2  g1 = g1  g2 = g2  n = n  m = m  x = x  y = y
    None = None
    Vms <- Fleet
    Subs = {s1, s2}
    Groups = {g1, g2}
    Sessions = {x, y}
    Jobs <- Commands
    MaxTunnels = 1
    MaxProbes = 2
    MaxSessions = 1
INVARIANTS
    RowsAreTheContexts
    DataIsTheRows
    BlankIsExplained
CHECK_DEADLOCK FALSE
