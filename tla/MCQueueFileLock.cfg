CONSTANTS
  c1 = c1
  c2 = c2
  c3 = c3
  Callers = {c1, c2, c3}
  NoCaller = NoCaller
  StaleAfter = 2
  Patience = 2
  Prompt = TRUE
  MaxCrashes = 1
SPECIFICATION FairSpec
INVARIANTS Serialized NeverBroken
PROPERTIES CallersAreAnswered QueueReopens
