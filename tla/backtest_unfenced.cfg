SPECIFICATION Spec
CONSTANTS
  Jobs = {r1}
  Workers = {w1, w2}
  NoJob = NoJob
  NoWorker = NoWorker
  MaxAttempts = 2
  Faults = {"crash", "lapse", "reply", "store"}
  MaxFaults = 2
  Symbols = {a, b, c}
  Universe = {a, b}
INVARIANTS
  CandidatesBacked
  
PROPERTIES
  FollowsJobQueue
CHECK_DEADLOCK FALSE
