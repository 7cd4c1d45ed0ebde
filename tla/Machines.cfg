SPECIFICATION MachinesSpec
CONSTANTS
  c1 = c1
  c2 = c2
  d1 = d1
  d2 = d2
  h1 = h1
  s1 = s1
  s2 = s2
  p1 = p1
  p2 = p2
  Jobs = {d1, d2, h1}
  KindOf <- MCKindOf
  Batches <- MCBatches
  Callers = {c1, c2}
  NoJob = NoJob
  NoCaller = NoCaller
  DeadCaller = DeadCaller
  Slots = {s1, s2}
  QueuedLimit = 1
  Expiry = 1
  RunningLimit = 1
  TimeLimit = 1
  Visibility = 2
  MaxFaults = 1
  Stops = {p1, p2}
  NoStop = NoStop
  Gap = 1
  Fresh = 1
  Recovery = 2
  Retry = 1
  MaxFailures = 1
  MaxChanges = 1
  Top = 3
  Offset <- MCOffset
  ConfirmDays = 3
  MaxRowCount = 5
  MaxQuantity = 2
  MaxHeld = 6
INVARIANTS
  OneExecution DroppedNeverRuns OneRefreshPerStock
  RecoveryIsReal OneMessagePerCrossing RearmStands
  FloorHolds NegationIsHistory
  LastEventShowsHolding CyclesAreSeparate
PROPERTIES
  EveryJobEnds CrossingIsAnnounced StartIsEarned ImplementsShareQueue
CHECK_DEADLOCK FALSE
