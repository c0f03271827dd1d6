SPECIFICATION FairOrderSpec
CONSTANTS
  Jobs = {j1, j2}
  Workers = {w1, w2}
  NoJob = NoJob
  NoWorker = NoWorker
  MaxAttempts = 3
  DocumentJobs = {j1}
  Faults = {"crash", "lapse"}
  MaxFaults = 3
INVARIANTS
  TypeOK
  FailedSpentBudget
  AttemptsBounded
  BoundedOvertaking
PROPERTIES
  ImplementsDurableTasks
  EveryJobSettles
CHECK_DEADLOCK FALSE
