SPECIFICATION Spec
CONSTANTS
  Jobs = {j1, j2}
  Workers = {w1, w2}
  NoJob = NoJob
  NoWorker = NoWorker
  MaxAttempts = 2
  Faults = {"crash", "lapse", "reply"}
  MaxFaults = 2
INVARIANTS
  CompletedHasSnapshot
  DuplicatesNeedFaults
SYMMETRY Symmetry
CHECK_DEADLOCK FALSE
