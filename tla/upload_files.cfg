SPECIFICATION Spec
CONSTANTS
  Requests = {q1, q2, q3}
  Contents = {x, y}
  NoContent = NoContent
  MaxUploads = 5
  MaxFaults = 2
INVARIANTS
  LossesNeedLostReplies
  StraysNeedFaults
SYMMETRY Symmetry
CHECK_DEADLOCK FALSE
