CONSTANTS
  t1 = t1
  t2 = t2
  Targets <- MCTargets
  Configs <- CorrectConfigs
  MaxCalls = 3
  HostMirrorAliases = TRUE
SPECIFICATION Spec
CHECK_DEADLOCK FALSE
INVARIANT TypeOK AlphaFromCurrentCall PrestencilFromCurrentCall FactorizationMatchesNullspace KernelShardsMatchAllocation ScratchWithinBudget PrestencilSlotsDistinct
PROPERTY AbsSpec
