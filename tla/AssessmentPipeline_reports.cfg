CONSTANTS
  Tickers = {aapl}
  NoTicker = NoTicker
  Refreshers = {r1, r2}
  Batchers = {b1, b2}
  Runners = {m1}
  NoWorker = NoWorker
  MaxData = 2
  FaultKinds = {"death", "lease lost", "unscorable", "abort"}
  MaxFaults = 2
SPECIFICATION Spec
SYMMETRY MCSymmetry
INVARIANTS TypeOK SettledIsFresh
CHECK_DEADLOCK FALSE
