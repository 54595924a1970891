SPECIFICATION FairSpec
CONSTANTS
    Keys = {k1}
    Texts = {a, b}
    Many = Many
    Null = Null
    Handlers = {h1}
    InitialHandlers <- OneHandler
    Throwing = {}
    ApiKeys = {}
    ApiKinds = {}
    Unreadable = FALSE
    OthersBreak = FALSE
    MaxWatches = 5
    MaxEdits = 2
    MaxStops = 0
CHECK_DEADLOCK FALSE
PROPERTY ChangesDealtWith
