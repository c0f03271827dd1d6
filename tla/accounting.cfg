SPECIFICATION BookSpec
CONSTANTS
  Universe = {1, 2}
  Prices = {1, 2}
  Bars <- Days
  ClaimPool <- NoClaims
  Cutoff = 7
  Lookback = 1
  TopN = 1
  Extend = TRUE
  FullBook = 2
  Gates = {"gte"}
  RequireSupport = FALSE
  MinConfidence = 1
  DefaultHorizon = 2
  SignalWeight = 300
  StopLoss = 50
  Lags = {0, 1, 2}
  LastDay = 4
  Capital <- TwoTo24
  CostNum = 1
  CostDen = 16
  CapNum = 1
  CapDen = 2
INVARIANTS
  BookBalances
  BookIsHeld
  MarkedToMarket
PROPERTIES
  NoFreeTrade
CHECK_DEADLOCK FALSE
