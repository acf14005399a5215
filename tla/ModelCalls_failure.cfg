SPECIFICATION Spec
CONSTANTS
  c1 = c1
  c2 = c2
  p1 = p1
  p2 = p2
  Caller = {c1, c2}
  Project = {p1, p2}
  BilledTo <- MCBilledTo
  PrimaryCost = {1}
  OllamaCost = {1}
  Dollar = 2
  HasBus = TRUE
  MaxCalls = 1
  MaxDays = 0
  MaxFaults = 0
CHECK_DEADLOCK FALSE
INVARIANT
  FailureMeansUnavailable
