SPECIFICATION Spec
CONSTANTS
  Universe = {1, 2}
  Prices = {1, 2}
  Bars <- Days
  ClaimPool <- Pool
  Cutoff = 7
  Lookback = 1
  TopN = 1
  Extend = FALSE
  FullBook = 1
  Gates = {}
  RequireSupport = FALSE
  MinConfidence = 1
  DefaultHorizon = 2
  SignalWeight = 300
  StopLoss = 50
  Lags = {0, 1, 2}
  LastDay = 5
INVARIANTS
  OneExitInFlight
  StopStaysArmed
  NoLookAhead
  ProposalAnswerable
  NoBetterLeftOut
CHECK_DEADLOCK FALSE
