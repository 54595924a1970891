SPECIFICATION ScriptsSpec
CONSTANTS
    Classes = {root, c1, c2, c3}
    Root = root
    Names <- MCNames
    Builtin <- MCBuiltin
    MaxObjects = 2
    MaxNesting = 2
    Bars = {b1, b2}
    MaxPresses = 3
    Pages = {p1}
    StepCount = 2
    Required <- MCRequired
    NoObject = NoObject
    None = None
    MaxFailures = 2
CHECK_DEADLOCK FALSE
INVARIANTS
    ClassTypeOK
    InitRunsOnce
    RecognisedByInit
    CalmQuestionAnsweredOnce
    StuckOnlyByHaste
PROPERTIES
    ExtendIsolates
    OutcomeReached
