CONSTANTS
  k1 = k1
  k2 = k2
  Keys = {k1}
  Workers = {w1, w2}
  Tokens = {t1, t2, t3}
  NoToken = NoToken
  GroupOf <- MCGroupSingle
  MaxRevision = 2
  Priorities = {1}
  FirstDues = {1}
  MaxAttempts = 2
  Backoff <- MCBackoff
  SlowSources = {}
  CurrentDelays = {1}
  LeaseTicks = 1
  AgeCap = 0
  BatchLimit = 1
  DeclaredDelays = {2}
  DiagnosticPriority = 1
  MaxPages = 1
  MaxFaults = 1
SPECIFICATION FairSpec
INVARIANTS TypeOK SettledForItsRevision SingleOwner
PROPERTIES OnlyOwnerEndsRun RevisionsAdvance ImplementsLedger RequestsAreChecked
