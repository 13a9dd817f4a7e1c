SPECIFICATION StepsSpec
CONSTANTS
  Configs <- MCConfigs
  Nets = {1, 2}
  Vms = {1, 2}
  Cidrs = {1, 2}
  MaxEdits = 1
  MaxOps = 2
  MaxForeign = 0
  None = None
  Partial = Partial
INVARIANT ForceSuffices
CHECK_DEADLOCK FALSE
