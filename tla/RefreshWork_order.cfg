CONSTANTS
  k1 = k1
  k2 = k2
  Keys = {k1, k2}
  Workers = {w1}
  Tokens = {t1, t2}
  NoToken = NoToken
  GroupOf <- MCGroupMixed
  MaxRevision = 1
  Priorities = {1}
  FirstDues = {1}
  MaxAttempts = 1
  Backoff <- MCBackoff
  SlowSources = {}
  CurrentDelays = {2}
  LeaseTicks = 1
  AgeCap = 1
  BatchLimit = 1
  DeclaredDelays = {}
  DiagnosticPriority = 1
  MaxPages = 0
  MaxFaults = 1
SPECIFICATION FairSpec
PROPERTIES RequestsAreChecked
