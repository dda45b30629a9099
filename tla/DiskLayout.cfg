SPECIFICATION Spec
CONSTANTS
    a = a  b = b  w = w  s1 = s1  s2 = s2
    Roles = {"home", "tmp"}
    Slots = {s1, s2}
    HomeFiles = {a, b}
    UserFiles = {w}
    MaxMkfs = 3
    MaxTrouble = 2
SYMMETRY Symmetry
INVARIANTS DataIsKept  HomeIsReachable OkSurvivesReboot StatusIsEarned
CHECK_DEADLOCK FALSE
