CONSTANTS
  t1 = t1
  t2 = t2
  Targets <- MCOneTarget
  Configs <- AllConfigs
  MaxCalls = 2
  HostMirrorAliases = FALSE
SPECIFICATION TeamSpec
CHECK_DEADLOCK FALSE
INVARIANT NoTeamRace
PROPERTY AtomicAssembly
