CONSTANTS
  aapl = aapl
  sma50 = sma50
  score = score
  Alerts = {1, 2}
  TickerOf <- MCTicker
  SubjectOf <- MCSubject
  NoSubject = NoSubject
  RouteOf <- MCRoute
  Urgent = {}
  SessionBound = {1, 2}
  Routes = {"break", "recovery", "score", "stop"}
  InitialMode <- MCOff
  Summarized = {"break", "recovery", "score"}
  Grouping = TRUE
  TickerLimit = 1
  LineLimit <- MCLimit
  MaxPending = 2
  WindowTicks = 1
  RetryTicks = 1
  DayTicks = 4
  QuietHours = {0}
  RegularHours = {2}
  SummaryHour = 3
  MonitorHour = 2
  MaxFaults = 0
  MaxChanges = 0
SPECIFICATION Spec
INVARIANTS NoOldTransition
