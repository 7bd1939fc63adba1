SPECIFICATION FairSpec
CONSTANTS
    m1 = m1
    p1 = p1
    Nothing = Nothing
    Message = {m1}
    Prompt = {p1}
    Depth = 2
    MaxSends = 2
    MaxArchives = 1
    MaxRemoves = 1
    FaultKinds = {"turn"}
    MaxFaults = 1
PROPERTIES
    PendingIsRun
    CallsReturn
CHECK_DEADLOCK FALSE
