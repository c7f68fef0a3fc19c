SPECIFICATION Spec
CONSTANTS
  Requests = {q1, q2, q3, q4}
  Workers = {w1, w2}
  Commits = {c1, c2}
  None = None
  MaxInFlight = 2
  MaxDeliveries = 2
INVARIANTS
  TypeOK
  ChunksFollowFiles
  IndexedHasSnapshot
  DeletedHasNoIndex
  LostToAnotherRun
SYMMETRY Symmetry
CHECK_DEADLOCK FALSE
