SPECIFICATION FairSpec
CONSTANTS
  c1 = c1
  c2 = c2
  p1 = p1
  a1 = a1
  e1 = e1
  Callers = {c1, c2}
  None = None
  Dead = Dead
  Plans = {p1}
  OtherApps = {a1}
  Evidence = {e1}
  LastVersion = 2
  MaxRequests = 2
  MaxFaults = 1
  MaxForeign = 1
INVARIANTS TypeOK RegistriesAgree Recoverable RoutesOnlyAsApproved
PROPERTIES RecoveryEnds
CHECK_DEADLOCK FALSE
