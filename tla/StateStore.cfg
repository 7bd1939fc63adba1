SPECIFICATION FairSpec
CONSTANTS
    None = None
    d1 = d1
    d2 = d2
    t1 = t1
    t2 = t2
    Debounced = {d1, d2}
    Durable = {t1, t2}
    MaxFailures = 2
    MaxCrashes = 2
INVARIANTS
    StoreInv
PROPERTIES
    DiskNeverRegresses
    CommitReachesDisk
    DisposeEnds
CHECK_DEADLOCK FALSE
