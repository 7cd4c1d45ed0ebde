CONSTANTS
  k1 = k1
  k2 = k2
  Keys = {k1, k2}
  Workers = {w1, w2}
  Tokens = {t1, t2, t3}
  NoToken = NoToken
  GroupOf <- MCGroupBatch
  MaxRevision = 1
  Priorities = {1}
  FirstDues = {0}
  MaxAttempts = 1
  Backoff <- MCBackoff
  SlowSources = {}
  CurrentDelays = {1}
  LeaseTicks = 1
  AgeCap = 0
  BatchLimit = 2
  DeclaredDelays = {}
  DiagnosticPriority = 1
  MaxPages = 0
  MaxFaults = 0
SPECIFICATION Spec
SYMMETRY MCBatchSymmetry
INVARIANTS RunningIsRecoverable SingleOwner
PROPERTIES OnlyOwnerEndsRun
