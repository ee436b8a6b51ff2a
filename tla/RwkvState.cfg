SPECIFICATION Spec
CONSTANTS
  r1 = r1
  r2 = r2
  r3 = r3
  Req = {r1, r2, r3}
  None = None
  Configs <- MCConfigs
  MaxInFlight = 2
  Stream <- MCStream
  NumPrompt <- MCNumPrompt
INVARIANTS RunningStateExact CachedStateTrue SamplerExact StepsProgress
