SPECIFICATION RunnerSpec
CONSTANTS
  r1 = r1
  r2 = r2
  judge = judge
  p = p
  a = a
  b = b
  f = f
  Caller = {r1, r2, judge}
  Run = {r1, r2}
  Project = {p}
  BilledTo <- MCBilledTo
  PrimaryCost = {2}
  OllamaCost = {1}
  Dollar = 2
  HasBus = FALSE
  MaxCalls = 2
  MaxDays = 1
  MaxFaults = 1
  Action = {a}
  Writes <- MCWrites
  Path = {f}
  MaxSteps = 2
  NoProgressLimit = 2
  DayBudget = 2
  MonthBudget = 3
  MaxRulings = 1
  Pending = Pending
SYMMETRY Sym
CHECK_DEADLOCK FALSE
INVARIANTS
  BudgetsHold
  OnlyTheSpentAreStopped
