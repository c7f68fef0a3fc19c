SPECIFICATION Spec
CONSTANTS
  Requests <- FourRequests
  None = None
  Kinds = {"register", "refresh"}
  MaxInFlight = 2
INVARIANT
  ReplayEndsFamily
CHECK_DEADLOCK FALSE
