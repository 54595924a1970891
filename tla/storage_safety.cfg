SPECIFICATION Spec
CONSTANTS
    Threads = {t1, t2}
    Ids = {o, i1}
    Old = {o}
    Paths = {p}
    Bundles = {u}
    Dirs = {d1, d2}
    Configured <- TwoStores
    None = None
    SaveMayFail = TRUE
    MaxCrashes = 1
SYMMETRY Symmetry
CONSTRAINT SessionsBound
CHECK_DEADLOCK FALSE
INVARIANTS
    TypeOK
    LiveRowHasBits
    ReadsWholeFiles
    FailureLeavesDeleted
    PrimaryNeverDeleted
PROPERTY PromiseSpec
