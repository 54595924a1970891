SPECIFICATION InstallationSpec
CONSTANTS
    Requesters = {r1, r2}
    Stoppers = {}
    StepCount = 2
    Required <- MCRequired
    NoObject = NoObject
    None = None
    SpuriousWakeups = FALSE
    Users <- MCUsers
    Modules <- MCModules
    Default = "dspace"
    Settings <- MCSettings
    Nobody = Nobody
    Unreadable = FALSE
    MaxEdits = 0
    MaxRestarts = 0
CHECK_DEADLOCK FALSE
INVARIANT ConfigurationStored
