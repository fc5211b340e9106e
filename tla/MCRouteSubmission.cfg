CONSTANTS
  e1 = e1
  e2 = e2
  c1 = c1
  c2 = c2
  w1 = w1
  w2 = w2
  None = None
  Events = {e1, e2}
  Callers = {c1, c2}
  Workers = {w1}
  MaxAttempts = 2
  MaxSubmissions = 2
  MaxCrashes = 1
SPECIFICATION Spec
SYMMETRY Symmetry
CHECK_DEADLOCK FALSE
INVARIANTS TypeOK RecordsAreBacked BindingsHold RunsOnce
PROPERTIES ClaimsStand
