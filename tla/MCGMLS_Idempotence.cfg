CONSTANTS
  t1 = t1
  t2 = t2
  Targets <- MCTargets
  Configs <- FlatStaggeredConfigs
  MaxCalls = 2
  HostMirrorAliases = TRUE
SPECIFICATION Spec
CHECK_DEADLOCK FALSE
INVARIANT CallsAgree
