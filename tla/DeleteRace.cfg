SPECIFICATION Spec
CONSTANTS
  Requests = {q1, q2}
  Workers = {w1, w2}
  None = None
  Ops = {"create", "delete"}
  MaxInFlight = 1
  Budget <- NoFaults
SYMMETRY Symmetry
INVARIANT
  DeletedStaysMarked
CHECK_DEADLOCK FALSE
