SPECIFICATION ProcessSpec
CONSTANTS
    Requesters = {r1, r2}
    Stoppers = {s1}
    StepCount = 2
    Required <- MCRequired
    NoObject = NoObject
    None = None
    SpuriousWakeups = FALSE
    Wars = {w1, w2}
    Programs <- StarterAndTests
    ServerMayFail = TRUE
    MaxChecks = 2
CHECK_DEADLOCK FALSE
INVARIANTS
    InterruptSparesInstallation
    WebTypeOK
    NoCircularWait
PROPERTIES
    AcceptedIsServed
    StopperReleased
    RunningServerKept
    ShutdownGoesOn
