CONSTANTS
    none = none
    proj = proj
    netA = netA
    netB = netB
    vmA = vmA
    vmB = vmB
    c1 = c1
    c2 = c2
    Nets <- MCTwoNets
    Cidrs <- MCOneCidr
    Free = Free
    VMs <- MCOneVM
    NoVM = NoVM
    NoProject = none
    DefaultName = netB
    IPs <- MCOneIP
    FirstGuest = 10
    NoRow = NoRow
    NoDefault = NoDefault
    Off = Off
    Faults = {"restart", "crash", "lost", "vznet", "race", "write"}
    MaxLate = 1
    Clis = {1, 2}
    VmOps <- MCVmOps
    MaxPid = 2
    MaxRestarts = 1
    NoVm = NoVm
    TornVm = TornVm
    SvVms = {vmA}
    MaxSvCmds = 2
    MaxSvCrash = 1
    NoSv = NoSv
    EsTypes = {"vm", "apply"}
    EsVms = {vmA, vmB}
    MaxEvents = 2
    MaxTicks = 2
    NoEs = NoEs
    PgLeaves = {1, 2}
    PgLate = {2}
    MaxPgMsgs = 3
    MaxPgLogs = 1
    MAX_LOG_LINES = 1
    NoPg = NoPg
    UiTasks = {t1}
    UiPids = {1, 2, 3}
    MaxUiCmds = 1
    MaxUiOther = 2
    NoUi = NoUi
    DkVms = {1, 2}
    DkConfigs <- MCDkConfigs
    MaxDkEdits = 1
    MaxDkCalls = 1
    NoDk = NoDk
SPECIFICATION MCSpec
INVARIANTS
    RegistrySound HelpersTracked OwnVmsStopFirst NoEventLost FinalDisplayComplete
    RetriesBounded ContainersAsDeclared
CHECK_DEADLOCK FALSE
