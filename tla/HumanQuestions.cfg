SPECIFICATION Spec
CONSTANTS
    t1 = t1
    t2 = t2
    Task = {t1, t2}
    MaxQuestions = 3
    MaxPackages = 2
    MaxCalls = 2
    MaxSends = 1
INVARIANTS
    QuestionInv
    MisledIsReviewed
    HeardIsFinal
PROPERTIES
    FinishedStays
SYMMETRY Symmetry
CHECK_DEADLOCK FALSE
