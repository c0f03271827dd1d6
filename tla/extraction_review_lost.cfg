SPECIFICATION Spec
CONSTANTS
  Jobs = {d1}
  Workers = {w1, w2}
  NoJob = NoJob
  NoWorker = NoWorker
  MaxAttempts = 2
  Faults = {"crash"}
  MaxFaults = 2
  Slots = {s1}
PROPERTIES
  ReviewsSurvive
CHECK_DEADLOCK FALSE
