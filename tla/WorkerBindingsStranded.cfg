SPECIFICATION Spec
CONSTANTS
    a = a
    b = b
    w = w
    Task = {a, b}
    Worker = {a, b}
    WorkerOf <- Apart
    Human = {}
    Chained = {a, b}
    Parallel = {a, b}
    Cap = 1
    MaxIdentities = 2
    MaxReconciles = 1
    MayRestart = FALSE
SYMMETRY Alike
INVARIANTS
    NoneStranded
CHECK_DEADLOCK FALSE
