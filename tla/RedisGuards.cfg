SPECIFICATION GuardsSpec
CONSTANTS
  r1 = r1
  r2 = r2
  r3 = r3
  c1 = c1
  c2 = c2
  c3 = c3
  Requests = {r1, r2, r3}
  Scopes = {"login", "search"}
  Route <- MCRoute
  Limit <- MCLimit
  FailClosed = {"login"}
  MaxFaults = 2
  Callers = {c1, c2, c3}
  Fingerprint <- MCFingerprint
  MaxLosses = 2
INVARIANTS
  GuardsTypeOK
  LimitHolds
  NoFreePass
  CarriedOutOnce
  RepeatsGetTheirResult
  LossesExplainConflicts
PROPERTY
  RefusalsEnd
CHECK_DEADLOCK FALSE
