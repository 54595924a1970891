SPECIFICATION FairSpec
CONSTANTS
    Keys = {k1}
    Texts = {a, b}
    Many = Many
    Null = Null
    Handlers = {h1}
    InitialHandlers <- OneHandler
    Throwing = {h1}
    ApiKeys = {k1}
    ApiKinds <- AllKinds
    Unreadable = TRUE
    OthersBreak = TRUE
    MaxWatches = 3
    MaxEdits = 3
    MaxStops = 1
CHECK_DEADLOCK FALSE
INVARIANT MemoryFresh
PROPERTIES
    EventsChecked
    KeepsWatching
