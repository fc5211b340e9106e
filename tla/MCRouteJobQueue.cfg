CONSTANTS
  j1 = j1
  j2 = j2
  Jobs = {j1, j2}
  HermesJobs = {j2}
  SimulatedJobs = {j2}
  NoJob = NoJob
  ClaimLimit = 2
  MaxLate = 1
  MaxGrants = 3
  MaxAttempts = 2
  LeaseTicks = 2
  BaseDelay = 1
  MaxDelay = 2
SPECIFICATION Spec
INVARIANTS LiveTokenIsNewest OwnedWhileInFlight OpenWorkHasAttempts
PROPERTIES NoStealing ClosedIsFinal ImplementsFencedWork
