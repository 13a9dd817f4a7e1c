CONSTANTS
    none = none
    proj = proj
    netA = netA
    netB = netB
    vmA = vmA
    vmB = vmB
    c1 = c1
    c2 = c2
    Nets <- MCTwoGlobal
    Cidrs <- MCCidrs
    Free = Free
    VMs <- MCTwoVMs
    NoVM = NoVM
    NoProject = none
    DefaultName = netB
    IPs <- MCRouterAndGuest
    FirstGuest = 10
    NoRow = NoRow
    NoDefault = NoDefault
    Off = Off
    Faults = {}
    MaxLate = 0
    EpServices = {"p", "shared", "o"}
    EpShared = "shared"
    EpCaddies = {"p"}
    EpConfigs <- MCEpConfigs
    MaxEpPids = 4
    MaxEpCalls = 2
    MaxEpCrashes = 1
    NoEp = NoEp
    EdCidrs = {c1}
    EdThreads = {1, 2}
    MaxEdWork = 3
    NoEd = NoEd
    NrVms = {vmA}
    NrPaths <- MCNrPaths
    MaxNrGen = 4
    MaxNrVm = 1
    NoNr = NoNr
SPECIFICATION MCSpec
INVARIANTS NoStrandedReservation AttachmentsInForce AttachmentsConsistent
    EmbeddedSound  RecoverySound
