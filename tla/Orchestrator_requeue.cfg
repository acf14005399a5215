SPECIFICATION OwedSpec
CONSTANTS
  e1 = e1
  e2 = e2
  proj = proj
  a = a
  b = b
  Execution = {e1, e2}
  Project = {proj}
  ProjectOf <- MCProjectOf
  NumStages = 1
  MaxAgents = 2
  AgentsOf <- MCCrews
  Path = {a}
  File = {a}
  FileOf <- MCFileOf
  MaxSteps = 1
  MaxFaults = 0
  MaxCrashes = 0
  None = None
SYMMETRY Sym
CHECK_DEADLOCK FALSE
INVARIANT
  RequeuedWorkIsRedone
