SPECIFICATION Spec
CONSTANTS
    a = a  b = b  w = w  s1 = s1  s2 = s2
    Roles = {"home"}
    Slots = {s1}
    HomeFiles = {a, b}
    UserFiles = {}
    MaxMkfs = 1
    MaxTrouble = 1
INVARIANT BoundHomeIsVerified
CHECK_DEADLOCK FALSE
