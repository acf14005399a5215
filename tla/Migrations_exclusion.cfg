SPECIFICATION Spec
CONSTANTS
  p1 = p1
  p2 = p2
  p3 = p3
  Process = {p1, p2, p3}
  LastVersion = 1
  MaxTries = 2
  MaxFaults = 0
  MaxCrashes = 0
  Nobody = Nobody
CHECK_DEADLOCK FALSE
INVARIANT
  RunsAreExclusive
