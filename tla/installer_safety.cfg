SPECIFICATION InstallationSpec
CONSTANTS
    Requesters = {r1, r2}
    Stoppers = {s1}
    StepCount = 2
    Required <- MCRequired
    NoObject = NoObject
    None = None
    SpuriousWakeups = TRUE
    Users <- MCUsers
    Modules <- MCModules
    Default = "dspace"
    Settings <- MCSettings
    Nobody = Nobody
    Unreadable = TRUE
    MaxEdits = 1
    MaxRestarts = 1
SYMMETRY SymmetricRequests
CONSTRAINT OrderlyRestart
CHECK_DEADLOCK FALSE
INVARIANTS
    InputOfSameRequest
    NoLostWakeup
    Inv
    SourceIsCurrent
    NothingLost
    FirstContextSucceeds
    RefreshOnlyByMark
    FactoryComplete
PROPERTY PromiseSpec
