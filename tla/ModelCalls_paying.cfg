SPECIFICATION FairSpec
CONSTANTS
  c1 = c1
  c2 = c2
  p1 = p1
  p2 = p2
  Caller = {c1, c2}
  Project = {p1, p2}
  BilledTo <- MCBilledTo
  PrimaryCost = {1, 2}
  OllamaCost = {2}
  Dollar = 2
  HasBus = TRUE
  MaxCalls = 2
  MaxDays = 0
  MaxFaults = 1
CHECK_DEADLOCK FALSE
INVARIANTS
  TypeOK
  AnswersArePaid
  MetricsLagLedger
PROPERTY
  CallsReturn
