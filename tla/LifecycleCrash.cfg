SPECIFICATION FairSpec
CONSTANTS
  Requests = {q1, q2}
  Workers = {w1, w2}
  None = None
  Ops = {"create", "delete"}
  MaxInFlight = 2
  Budget <- Crashes
PROPERTIES
  IngestionFinishes
  DeletionCompletes
CHECK_DEADLOCK FALSE
