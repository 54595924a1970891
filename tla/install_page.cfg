SPECIFICATION Spec
CONSTANTS
    Pages = {p1, p2}
    StepCount = 2
    Required <- MCRequired
    NoObject = NoObject
    None = None
    MaxFailures = 1
SYMMETRY SymmetricPages
CHECK_DEADLOCK FALSE
INVARIANTS
    TypeOK
    OneChain
    FollowedWizardFeedsInstaller
PROPERTY PagePromiseSpec
