SPECIFICATION Spec
CONSTANTS
    m1 = m1
    m2 = m2
    p1 = p1
    p2 = p2
    Nothing = Nothing
    Message = {m1, m2}
    Prompt = {p1, p2}
    Depth = 2
    MaxSends = 2
    MaxArchives = 1
    MaxRemoves = 1
    FaultKinds = {"write", "turn", "restart"}
    MaxFaults = 1
INVARIANTS
    QueueInv
    ArchiveHolds
PROPERTIES
    NeverKilledMidTurn
    QueueSpec
SYMMETRY Symmetry
CHECK_DEADLOCK FALSE
