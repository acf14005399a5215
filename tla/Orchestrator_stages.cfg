SPECIFICATION FairSpec
CONSTANTS
  e1 = e1
  e2 = e2
  proj = proj
  a = a
  b = b
  Execution = {e1, e2}
  Project = {proj}
  ProjectOf <- MCProjectOf
  NumStages = 2
  MaxAgents = 1
  AgentsOf <- MCCrews
  Path = {a}
  File = {a}
  FileOf <- MCFileOf
  MaxSteps = 1
  MaxFaults = 1
  MaxCrashes = 0
  None = None
CHECK_DEADLOCK FALSE
PROPERTIES
  KeepsContract
  ExecutionsEnd
