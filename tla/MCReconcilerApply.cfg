CONSTANTS
    p1 = p1
    p2 = p2
    p3 = p3
    none = none
    d1 = d1
    d2 = d2
    empty = empty
    Holder <- MCThree
    NoHolder = none
    Hash <- MCOneHash
    Step <- MCStep
    InitialStep = "validate"
    Snapshot <- MCOneSnapshot
    NoSnapshot = empty
    TTL = 1
    MaxGen = 2
    ApplySteps <- MCApplySteps
    DownSteps <- MCDownSteps
    Command <- CoreCommands
    BreakingChange <- MCNoBreaking
    Unreliable = TRUE
    Timely = FALSE
    MaxLate = 1
SPECIFICATION Spec
INVARIANTS NoStepLost
PROPERTIES StoreSound
SYMMETRY Symmetry
CHECK_DEADLOCK FALSE
