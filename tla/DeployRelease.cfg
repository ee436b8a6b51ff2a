SPECIFICATION Spec
CONSTANTS
  a = a
  b = b
  c = c
  None = None
  Self = Self
  Release = {a, b, c}
  NService = 1
  Configs <- MCConfigs
  MaxOps = 3
INVARIANTS RestoredExact DeployedServes RollbackReady
CHECK_DEADLOCK FALSE
