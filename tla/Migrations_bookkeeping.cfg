SPECIFICATION FairSpec
CONSTANTS
  p1 = p1
  p2 = p2
  p3 = p3
  Process = {p1, p2, p3}
  LastVersion = 2
  MaxTries = 2
  MaxFaults = 1
  MaxCrashes = 1
  Nobody = Nobody
CHECK_DEADLOCK FALSE
INVARIANTS
  TypeOK
  NoGaps
  RecordedIsApplied
  LockHasHolder
PROPERTY
  ProcessesEnd
