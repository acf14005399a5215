SPECIFICATION RunnerFairSpec
CONSTANTS
  r1 = r1
  r2 = r2
  judge = judge
  p = p
  a = a
  b = b
  f = f
  Caller = {r1}
  Run = {r1}
  Project = {p}
  BilledTo <- MCBilledTo
  PrimaryCost = {0, 1}
  OllamaCost = {1}
  Dollar = 2
  HasBus = FALSE
  MaxCalls = 5
  MaxDays = 0
  MaxFaults = 1
  Action = {a, b}
  Writes <- MCWrites
  Path = {f}
  MaxSteps = 5
  NoProgressLimit = 3
  DayBudget = 4
  MonthBudget = 4
  MaxRulings = 1
  Pending = Pending
CHECK_DEADLOCK FALSE
INVARIANTS
  RunnerTypeOK
  StopsWhenStuck
PROPERTIES
  KeepsContract
  RunsEnd
