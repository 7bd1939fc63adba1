SPECIFICATION FairSpec
CONSTANTS
    a = a
    b = b
    x = x
    Task = {a}
    Cli = {x}
    Horizon = 2
PROPERTIES
    CancelIsFinal
CHECK_DEADLOCK FALSE
