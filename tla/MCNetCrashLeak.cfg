CONSTANTS
    none = none
    proj = proj
    netA = netA
    netB = netB
    vmA = vmA
    vmB = vmB
    c1 = c1
    c2 = c2
    Nets <- MCTwoNets
    Cidrs <- MCCidrs
    Free = Free
    VMs <- MCNoVMs
    NoVM = NoVM
    NoProject = none
    DefaultName = netB
    IPs <- MCIPs
    FirstGuest = 10
    NoRow = NoRow
    NoDefault = NoDefault
    Off = Off
    Faults = {"crash"}
    MaxLate = 0
SPECIFICATION Spec
INVARIANTS NoStrandedReservation
