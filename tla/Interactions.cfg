SPECIFICATION FairSpec
CONSTANTS
    None = None
    t1 = t1
    t2 = t2
    a1 = a1
    a2 = a2
    e1 = e1
    x = x
    Turn = {t1, t2}
    Permission = {a1, a2}
    Elicitation = {e1}
    RequestId = {x}
    TurnOf <- MCTurnOf
    IdOf <- MCIdOf
INVARIANTS
    AskedForLiveTurn
    TableInv
PROPERTIES
    GrantIsTimely
    CallsReturn
    StopIsPrompt
CHECK_DEADLOCK FALSE
