CONSTANTS
    p1 = p1
    p2 = p2
    p3 = p3
    none = none
    d1 = d1
    d2 = d2
    empty = empty
    Holder <- MCTwo
    NoHolder = none
    Hash <- MCOneHash
    Step <- MCStep
    InitialStep = "validate"
    Snapshot <- MCOneSnapshot
    NoSnapshot = empty
    TTL = 2
    MaxGen = 1
    ApplySteps <- MCApplySteps
    DownSteps <- MCDownSteps
    Command <- LiveCommands
    BreakingChange <- MCNoBreaking
    Unreliable = TRUE
    Timely = FALSE
    MaxLate = 1
    j1 = j1
    j2 = j2
    Job <- MCJobs
    ActiveJobs = 4
    RetainedJobs = 1
SPECIFICATION LiveSpec
PROPERTIES InvocationEnds LeaseIsFreedAfterExit JobsEnd
CHECK_DEADLOCK FALSE
