CONSTANTS
    Configs <- MCConfigs
    Nets = {1, 2}
    Vms = {1, 2}
    Cidrs = {1, 2}
    MaxEdits = 1
    MaxOps = 2
    MaxForeign = 1
    None = None
    Partial = Partial
    GuBundles = {"b1", "b2", "b3"}
    GuWithIwatch = {"b1", "b3"}
    GuVersion <- MCGuVersion
    MaxGuSwitch = 2
    NoGu = "none"
    MaxCaId = 4
    NoCa = NoCa
    MaxScGen = 1
    MaxScUid = 2
    MaxScRand = 2
    NoSc = NoSc
    MaxKbEdits = 1
    MaxKbForeign = 1
    NoKb = NoKb
SPECIFICATION MCSpec
INVARIANTS
    CommitConverges PurgeLeavesNothing ClaimsServedSafely ManifestNamesInstalled
    CandidateIsCurrent
PROPERTIES DependencyRespected DestroysOnlyOwn ClusterSound
CHECK_DEADLOCK FALSE
