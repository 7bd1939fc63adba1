SPECIFICATION Spec
CONSTANTS
    a = a
    b = b
    w = w
    Task = {a, b}
    Worker = {w}
    WorkerOf <- Shared
    Human = {b}
    Chained = {}
    Parallel = {}
    Cap = 1
    MaxIdentities = 3
    MaxReconciles = 1
    MayRestart = TRUE
INVARIANTS
    BindingInv
    OneTaskPerWorker
    SparesStarts
PROPERTIES
    OwnedStaysBound
CHECK_DEADLOCK FALSE
