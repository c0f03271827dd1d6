SPECIFICATION FairSpec
CONSTANTS
  Jobs = {r1}
  Workers = {w1, w2}
  NoJob = NoJob
  NoWorker = NoWorker
  MaxAttempts = 3
  Faults = {"crash"}
  MaxFaults = 3
  Symbols = {a, b}
  Universe = {a}
INVARIANTS
  TypeOK
  RankingHasCompletedRun
  SettledTogether
  ListingWhole
PROPERTIES
  RunSettles
CHECK_DEADLOCK FALSE
