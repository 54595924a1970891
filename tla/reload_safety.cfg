SPECIFICATION Spec
CONSTANTS
    Keys = {k1, k2}
    Texts = {a, b}
    Many = Many
    Null = Null
    Handlers = {h1, h2}
    InitialHandlers <- OneHandler
    Throwing = {}
    ApiKeys = {k2}
    ApiKinds <- Objects
    Unreadable = FALSE
    OthersBreak = FALSE
    MaxWatches = 2
    MaxEdits = 3
    MaxStops = 0
CHECK_DEADLOCK FALSE
SYMMETRY Symmetry
INVARIANTS
    TypeOK
    OldValuesCurrent
    HandlersTold
PROPERTY CalledForChanges
