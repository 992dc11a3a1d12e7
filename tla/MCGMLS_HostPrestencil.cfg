CONSTANTS
  t1 = t1
  t2 = t2
  Targets <- MCTargets
  Configs <- CorrectConfigs
  MaxCalls = 2
  HostMirrorAliases = FALSE
SPECIFICATION Spec
CHECK_DEADLOCK FALSE
INVARIANT HostResultsCurrent
