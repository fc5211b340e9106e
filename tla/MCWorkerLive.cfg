CONSTANTS
  j1 = j1
  j2 = j2
  w1 = w1
  w2 = w2
  Jobs = {j1}
  Workers = {w1, w2}
  NoJob = NoJob
  p1 = p1
  Problems = {p1}
  ProblemOf <- OneProblem
  MaxCrashes = 1
  MaxGrants = 4
  MaxAttempts = 2
  LeaseTicks = 1
  BaseDelay = 1
  MaxDelay = 1
SPECIFICATION FairSpec
PROPERTIES AcceptedIsSettled ApprovedIsReconciled
