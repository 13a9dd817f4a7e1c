CONSTANTS
    p1 = p1
    p2 = p2
    p3 = p3
    none = none
    d1 = d1
    d2 = d2
    empty = empty
    Holder <- MCTwo
    NoHolder = none
    Hash <- MCHash
    Step <- MCStep
    InitialStep = "validate"
    Snapshot <- MCSnapshot
    NoSnapshot = empty
    TTL = 1
    MaxGen = 2
    ApplySteps <- MCApplySteps
    DownSteps <- MCDownSteps
    Command <- AllCommands
    BreakingChange <- MCBreaking
    Unreliable = TRUE
    Timely = FALSE
    MaxLate = 1
SPECIFICATION Spec
INVARIANTS CommittedSnapshot
PROPERTIES ImplementsLifecycle LostOperationStops
SYMMETRY Symmetry
CHECK_DEADLOCK FALSE
