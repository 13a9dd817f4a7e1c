CONSTANTS
    none = none
    proj = proj
    netA = netA
    netB = netB
    c1 = c1
    c2 = c2
    j1 = j1
    j2 = j2
    j3 = j3
    h1 = h1
    h2 = h2
    Nets <- MCThreeNets
    Cidrs = {c1, c2}
    Free = Free
    VMs <- MCNoVMs
    NoVM = NoVM
    NoProject = none
    DefaultName = netB
    IPs = {10, 11}
    FirstGuest = 10
    NoRow = NoRow
    NoDefault = NoDefault
    Off = Off
    Faults = {"crash"}
    MaxLate = 0
    Job <- MCJobs
    ActiveJobs = 4
    RetainedJobs = 2
    ImAliases = {alias1, alias2}
    ImTags = {"v1"}
    ImResolver = "static"
    ImFormat = "qcow2.xz"
    MaxImRel = 2
    MaxImVer = 1
    NoIm = NoIm
    OpUsers = {u1, u2}
    OpClients = {c1, c2}
    CodeTtl = 1
    SessionTtl = 2
    MaxOpClock = 3
    MaxOpId = 5
    NoOp = NoOp
    OcRuns = {r1, r2}
    OcIds = {id1}
    MaxSecret = 4
    MaxOcEdits = 3
    NoOc = NoOc
    KcUids = {1, 2, 3}
    KcHosts = {"a", "b"}
    KcYaml = {"b"}
    MaxKcList = 3
    CfClis = {c1}
    CfTopics = {"deps", "nets", "ports", "rules", "edge", "other", "none"}
    MaxCfCmds = 1
    NoCf = NoCf
    DmTypes = {1, 12, 28}
    MaxAnswers = 2
    NoDm = NoDm
    HrRuns = {h1, h2}
    HrProjects = {"p", "q"}
    HrNetworks <- MCHrNetworks
    MaxHrCmds = 3
    MaxBhCmds = 4
    NoHr = NoHr
SPECIFICATION MCSpec
SYMMETRY MCRuns
INVARIANTS
    CancelWins BasesUsable GrantsAreSound SecretsNeverChange NoOrderSelectsOwner
    ValidIsRunnable DecodeAgrees ReverseZonesPublished
PROPERTIES ReservationsFollow JobTableSound
CHECK_DEADLOCK FALSE
