SPECIFICATION Spec
CONSTANTS
  Jobs = {d1, d2}
  Workers = {w1, w2}
  NoJob = NoJob
  NoWorker = NoWorker
  MaxAttempts = 2
  Faults = {"crash", "lapse", "reply"}
  MaxFaults = 1
  Slots = {s1}
INVARIANTS
  CitationsResolve
  StatusTellsOutcome
  StoredWorkSurvives
PROPERTIES
  RestIsFinal
SYMMETRY Symmetry
CHECK_DEADLOCK FALSE
