SPECIFICATION Spec
CONSTANTS
  Jobs = {r1}
  Workers = {w1, w2}
  NoJob = NoJob
  NoWorker = NoWorker
  MaxAttempts = 2
  Faults = {"lapse"}
  MaxFaults = 2
  Symbols = {a, b}
  Universe = {a}
PROPERTIES
  FinishedNotOverwritten
CHECK_DEADLOCK FALSE
