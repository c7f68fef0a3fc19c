SPECIFICATION Spec
CONSTANTS
  Requests = {q1, q2, q3}
  Workers = {w1, w2}
  None = None
  Ops = {"create", "sync", "delete", "index"}
  MaxInFlight = 2
  Budget <- OneFault
SYMMETRY Symmetry
INVARIANTS
  TypeOK
  StatusBackedByRun
  EventsMatchStatus
  EventNumbersFresh
  JobsFindTheirRows
  DuplicatesOverlap
PROPERTIES
  ImplementsLedger
CHECK_DEADLOCK FALSE
