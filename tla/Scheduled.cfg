SPECIFICATION FairSpec
CONSTANTS
    a = a
    b = b
    x = x
    Task = {a, b}
    Cli = {x}
    Horizon = 3
INVARIANTS
    RunsOnce
    ExecutedRan
    ClaimInv
PROPERTIES
    CancelHolds
    DueIsSettled
CHECK_DEADLOCK FALSE
