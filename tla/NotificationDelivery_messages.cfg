CONSTANTS
  aapl = aapl
  sma50 = sma50
  score = score
  Alerts = {1, 2, 4}
  TickerOf <- MCTicker
  SubjectOf <- MCSubject
  NoSubject = NoSubject
  RouteOf <- MCRoute
  Urgent = {4}
  SessionBound = {1, 2}
  Routes = {"break", "recovery", "score", "stop"}
  InitialMode <- MCModes
  Summarized = {"break", "recovery", "score"}
  Grouping = TRUE
  TickerLimit = 1
  LineLimit <- MCNoLimit
  MaxPending = 2
  WindowTicks = 1
  RetryTicks = 1
  DayTicks = 4
  QuietHours = {0}
  RegularHours = {1, 2}
  SummaryHour = 3
  MonitorHour = 2
  MaxFaults = 2
  MaxChanges = 1
SPECIFICATION Spec
INVARIANTS TypeOK AcceptedIsKept NoSecondMessage NeverBackwards LatestSurvives LimitHolds
