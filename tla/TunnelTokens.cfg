SPECIFICATION FairSpec
CONSTANTS
    Conns = {c1, c2}
    Opener = Opener
    MaxLife = 4
    Fraction = 2
    MinMargin = 1
INVARIANTS
    TokenOutlivesExchange
    SessionsAreReturned
PROPERTIES
    KeepsItsSessions
    NoHerd
    TokenIsAliveUnlessSlept
    WaitersProceed
