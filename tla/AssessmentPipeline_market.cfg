CONSTANTS
  Tickers = {aapl}
  NoTicker = NoTicker
  Refreshers = {r1}
  Batchers = {b1, b2}
  Runners = {m1}
  NoWorker = NoWorker
  MaxData = 2
  FaultKinds = {"death", "lease lost", "unscorable", "abort"}
  MaxFaults = 1
SPECIFICATION FairSpec
INVARIANTS MatchingHashMeansCurrent
PROPERTIES EventuallyFresh
