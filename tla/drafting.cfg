SPECIFICATION Spec
CONSTANTS
  c1 = c1
  c2 = c2
  c3 = c3
  d1 = d1
  d2 = d2
  dNone = dNone
  Claims = {c1, c2, c3}
  Documents = {d1, d2}
  DocumentOf <- OfDocument
  ClaimData <- Data
  NoTicker = NoTicker
  Themes = {"oil", "fx"}
  Proxies <- ProxySymbols
  DraftRequests <- Bodies
  ExtraFilters <- Extras
  NameRoom = 1
  MaxPending = 1
  MaxReviews = 1
  BacktestRequests <- Asks
  TradingDays = {1, 2, 3}
INVARIANTS
  DraftSupported
  RefusedCouldNotRun
  DraftRuns
PROPERTIES
  DraftCommits
CHECK_DEADLOCK FALSE
