CONSTANTS
  j1 = j1
  j2 = j2
  w1 = w1
  w2 = w2
  Jobs = {j1}
  Workers = {w1, w2}
  NoJob = NoJob
  p1 = p1
  Problems = {p1}
  ProblemOf <- OneProblem
  MaxCrashes = 0
  MaxGrants = 5
  MaxAttempts = 2
  LeaseTicks = 2
  BaseDelay = 1
  MaxDelay = 2
SPECIFICATION Spec
SYMMETRY Symmetry
INVARIANTS RunsWithinAttempts OneWriter CompletedIsRecorded
PROPERTIES ImplementsQueue
