CONSTANTS
  r1 = r1
  r2 = r2
  a1 = a1
  a2 = a2
  b1 = b1
  b2 = b2
  b3 = b3
  Requests = {r1, r2}
  Approvals = {a1}
  Attempts = {b1, b2, b3}
  NoRequest = NoRequest
  NoApproval = NoApproval
  NoAttempt = NoAttempt
  MaxCrashes = 1
  MaxFaults = 1
SPECIFICATION BrokerSpec
CHECK_DEADLOCK FALSE
SYMMETRY Symmetry
INVARIANTS OneAtATime ActsOnce ActsAreApproved
PROPERTIES RevocationHolds
