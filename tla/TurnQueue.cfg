SPECIFICATION FairSpec
CONSTANTS
    None = None
    h1 = h1
    s1 = s1
    p1 = p1
    i1 = i1
    c1 = c1
    c2 = c2
    r1 = r1
    r2 = r2
    r3 = r3
    Human = {h1}
    Scheduled = {s1}
    Peer = {p1}
    Interrupt = {i1}
    RequestId = {r1, r2, r3}
    ReqOf <- MCReqOf
    Clear = {c1, c2}
    MaxDepth = 2
    Expiring = {r2}
INVARIANTS
    OneTurn
    RunsOnce
    IInv
PROPERTIES
    InterruptNext
    NeverForgotten
    LaneSpec
    PeerResolved
    CallsReturn
    GuardFalls
CHECK_DEADLOCK FALSE
