CONSTANTS
  j1 = j1
  c1 = c1
  c2 = c2
  Jobs = {j1}
  HermesJobs = {}
  SimulatedJobs = {}
  Callers = {c1, c2}
  NoJob = NoJob
  NoCall = NoCall
  ClaimLimit = 1
  MaxLate = 0
  MaxGrants = 2
  MaxAttempts = 2
  LeaseTicks = 1
  BaseDelay = 1
  MaxDelay = 1
  MaxTries = 2
  MaxFaults = 1
SPECIFICATION StoreFairSpec
INVARIANTS AnswersAreTrue
PROPERTIES ImplementsQueue CallsEnd
