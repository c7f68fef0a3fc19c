SPECIFICATION Spec
CONSTANTS
  Requests = {q1, q2, q3, q4}
  Workers = {w1}
  Commits = {c1, c2}
  None = None
  MaxInFlight = 1
  MaxDeliveries = 1
INVARIANT
  ReadyIsSearchable
SYMMETRY Symmetry
CHECK_DEADLOCK FALSE
