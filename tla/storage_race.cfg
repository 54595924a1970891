SPECIFICATION Spec
CONSTANTS
    Threads = {t1, t2}
    Ids = {o, i1}
    Old = {o}
    Paths = {}
    Bundles = {u}
    Dirs = {d1, d2}
    Configured <- TwoStores
    None = None
    SaveMayFail = FALSE
    MaxCrashes = 0
SYMMETRY Symmetry
CHECK_DEADLOCK FALSE
INVARIANT BitsStored
