CONSTANTS
  w1 = w1
  w2 = w2
  h1 = h1
  h2 = h2
  Workers = {w1, w2}
  Handlers = {h1}
  NoJob = NoJob
  ReuseSequence = FALSE
  MaxEvents = 3
  MaxCrashes = 1
  MaxGrants = 2
  MaxAttempts = 2
  LeaseTicks = 1
  BaseDelay = 1
  MaxDelay = 1
SPECIFICATION Spec
SYMMETRY ActorSymmetry
INVARIANTS CompletionIsReported
PROPERTIES DispatchedWaitsForHermes ImplementsQueue
