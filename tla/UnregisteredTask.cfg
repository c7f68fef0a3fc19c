SPECIFICATION FairSpec
CONSTANTS
  Requests = {q1, q2}
  Workers = {w1, w2}
  None = None
  Ops = {"create", "index"}
  MaxInFlight = 1
  Budget <- NoFaults
PROPERTY
  IndexingFinishes
CHECK_DEADLOCK FALSE
