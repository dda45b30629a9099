SPECIFICATION FairSpec
CONSTANTS
    Size = 3
    Jobs <- Commands
    Top = 1
    Limit = 1
    Burst = 1
INVARIANTS
    ReportedIsLast
    OnlyChosen
    Paced
PROPERTIES
    BeginsInTurn
    Finishes
CHECK_DEADLOCK FALSE
