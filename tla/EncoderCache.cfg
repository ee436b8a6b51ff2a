SPECIFICATION Spec
CONSTANTS
  r1 = r1
  r2 = r2
  r3 = r3
  a = a
  b = b
  c = c
  None = None
  Req = {r1, r2, r3}
  Hash = {a, b, c}
  CacheSize = 3
  TokenBudget = 4
  EncoderBudget = 3
  MaxInFlight = 2
  KvPressure = TRUE
  Policies = {"fcfs", "priority"}
  MayAbort = {r1}
  MayReset = TRUE
  PrefixHit = {0, 1}
  Inputs <- MCInputs
  NumTokens <- MCNumTokens
  Priority <- MCPriority
INVARIANTS BooksExact NoCacheMiss StepsProgress
