SPECIFICATION FairSpec
CONSTANTS
  Requests <- FourRequests
  None = None
  Kinds = {"register", "login", "refresh", "logout", "logout-all"}
  MaxInFlight = 3
INVARIANTS
  TypeOK
  FamilyIsChain
  EndedForGood
PROPERTIES
  SpentForGood
  ImplementsFamilies
  RequestsEnd
CHECK_DEADLOCK FALSE
