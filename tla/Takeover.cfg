SPECIFICATION Spec
CONSTANTS
  Requests = {q1, q2}
  Workers = {w1, w2}
  None = None
  Ops = {"create", "sync"}
  MaxInFlight = 1
  Budget <- OneCrash
SYMMETRY Symmetry
PROPERTY
  FinishedRunsStay
CHECK_DEADLOCK FALSE
