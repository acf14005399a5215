SPECIFICATION FairSpec
CONSTANTS
  Turn = {t1, t2}
  Removal = {d1, d2}
  Key = {k}
  MaxFaults = 2
  None = None
CHECK_DEADLOCK FALSE
INVARIANTS
  TypeOK
  RunsOncePerKey
  MarkerHasOwner
  DeletesWhole
PROPERTY
  RequestsEnd
