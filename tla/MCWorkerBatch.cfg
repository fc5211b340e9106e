CONSTANTS
  j1 = j1
  j2 = j2
  w1 = w1
  w2 = w2
  Jobs = {j1, j2}
  Workers = {w1, w2}
  NoJob = NoJob
  p1 = p1
  Problems = {p1}
  ProblemOf <- OneProblem
  MaxCrashes = 0
  MaxGrants = 2
  MaxAttempts = 1
  LeaseTicks = 1
  BaseDelay = 1
  MaxDelay = 1
SPECIFICATION Spec
SYMMETRY Symmetry
INVARIANTS RecordsAgree
