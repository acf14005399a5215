SPECIFICATION Spec
CONSTANTS
  Slot = {s1, s2}
  Password = {pa, pb}
  First = pa
  MaxSessions = 2
  LockLimit = 2
  HistoryLimit = 1
  MaxIssued = 3
  MaxChanges = 2
  MaxMails = 1
  MaxUncounted = 1
SYMMETRY Sym
CHECK_DEADLOCK FALSE
INVARIANTS
  TypeOK
  SessionsRestOnPassword
  ExchangedOnce
  MissesAreBounded
  StoreIsBounded
PROPERTY
  NoReuse
