CONSTANTS
    p1 = p1
    p2 = p2
    p3 = p3
    none = none
    d1 = d1
    d2 = d2
    empty = empty
    Holder <- MCThree
    NoHolder = none
    Hash <- MCOneHash
    Step <- MCStep
    InitialStep = "validate"
    Snapshot <- MCOneSnapshot
    NoSnapshot = empty
    TTL = 2
    MaxGen = 2
    ApplySteps <- MCApplySteps
    DownSteps <- MCDownSteps
    Command <- AllCommands
    BreakingChange <- MCNoBreaking
    Unreliable = FALSE
    Timely = TRUE
    MaxLate = 0
SPECIFICATION Spec
INVARIANTS ExecutionProtected
SYMMETRY Symmetry
CHECK_DEADLOCK FALSE
