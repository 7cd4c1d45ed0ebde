CONSTANTS
  k1 = k1
  k2 = k2
  Keys = {k1}
  Workers = {w1, w2}
  Tokens = {t1, t2, t3}
  NoToken = NoToken
  GroupOf <- MCGroupSingle
  MaxRevision = 2
  Priorities = {1}
  FirstDues = {0, 1}
  MaxAttempts = 2
  Backoff <- MCBackoff
  SlowSources = {}
  CurrentDelays = {2}
  LeaseTicks = 2
  AgeCap = 1
  BatchLimit = 1
  DeclaredDelays = {}
  DiagnosticPriority = 1
  MaxPages = 0
  MaxFaults = 0
SPECIFICATION Spec
PROPERTIES FirstMissRetriesSoon
